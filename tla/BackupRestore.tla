---------------------------- MODULE BackupRestore ----------------------------
(***************************************************************************)
(* Backup and restore (app/backups.py).  An export copies the live data    *)
(* into an encrypted file: first a snapshot of the database, then the      *)
(* authentication key, the raw results and the uploaded archives, while    *)
(* uploads and removals go on.  An import unpacks such a file into a       *)
(* private stage.  A confirmed restore marks a stage READY and ends the    *)
(* process; the next start (Compose restarts it) swaps the four parts of   *)
(* the live data for the stage's, one rename at a time, and either         *)
(* finishes, or undoes what it did when a step raises, or is killed in     *)
(* between.                                                                *)
(*                                                                         *)
(* Encryption, the ZIP format and the checks of a file that was tampered   *)
(* with are one outcome, ImportFails.  rmtree is one step, but for the one *)
(* of a cancelled import, which lists the directory and then empties it.   *)
(***************************************************************************)
EXTENDS Integers, Sequences, FiniteSets, SequencesExt, FiniteSetsExt

CONSTANTS Scans,        \* scans, each with a row and a raw result
          Images,       \* uploaded archives, each with a row and a file
          Tokens,       \* the names of stages
          MaxChanges,   \* bound: uploads, scans, removals, jobs, sign-ins
          MaxExports,   \* bound: backups made
          MaxRestores,  \* bound: no import after that many restores
          MaxTroubles   \* bound: swaps that are killed or raise

ASSUME BackupAssumption == /\ IsFiniteSet(Tokens)
                           /\ "none" \notin Tokens
                           /\ MaxChanges \in Nat
                           /\ MaxExports \in Nat
                           /\ MaxRestores \in Nat
                           /\ MaxTroubles \in Nat
                           /\ "job" \notin Scans \cup Images

\* What is swapped, in the order of replace_with_restore.
Parts == <<"database", "auth.key", "raw", "uploads">>
Part == ToSet(Parts)

\* The data sets that are live one after the other: 0 is the first
\* installation, and each completed restore begins a new one.
Worlds == 0..(MaxRestores + Cardinality(Tokens))
Nobody == -1
Items == Scans \cup Images \cup {"job"}
\* What a part holds, whose data set it belongs to, and, in a database, the
\* data sets whose sign-ins it knows.  "job" is queued or running work.
Content == [from: Worlds \cup {Nobody}, has: SUBSET Items,
            sessions: SUBSET Worlds]
Absent == [from |-> Nobody, has |-> {}, sessions |-> {}]
Empty == [p \in Part |-> Absent]
Backup == [data: [Part -> Content], gone: SUBSET Items]
\* Of a cancelled stage the directory is "emptying", or "sweeping" when its
\* READY marker is among what goes; "hollow" is a directory with a READY
\* marker and nothing else.
States == {"none", "extracting", "partial", "staged", "emptying", "sweeping",
           "hollow"}
Stage == [state: States,
          data: [Part -> Content], left: SUBSET Part,
          calls: SUBSET {"restore", "cancel"}]
NoStage == [state |-> "none", data |-> Empty, left |-> {}, calls |-> {}]

VARIABLES live,      \* the four parts on disk; the database without its WAL
          view,      \* the database as connections see it, with its WAL
          changes,   \* how often the rest of the program changed them
          world,     \* the data set that is live (history)
          up,        \* running, leaving (restart scheduled), down, swapping
          export,    \* the export that holds the database lock
          exported,  \* how many were begun
          tickets,   \* finished exports waiting to be downloaded
          held,      \* backups administrators have downloaded
          stages,    \* [Tokens -> Stage], the directories restore-<token>
          pending,   \* the stages with a READY marker, newest first
          swap,      \* the restore that is being installed
          troubles   \* how swaps ended that did not finish

vars == <<live, view, changes, world, up, export, exported, tickets, held,
          stages, pending, swap, troubles>>

NoExport == [copied |-> 0, data |-> Empty, gone |-> {}]
NoSwap == [token |-> "none", done |-> 0, away |-> FALSE,
           rollback |-> Empty, before |-> {}]

\* Types.
TypeOK == /\ live \in [Part -> Content]
          /\ view \in Content
          /\ changes \in 0..MaxChanges
          /\ world \in Worlds
          /\ up \in {"running", "leaving", "down", "swapping"}
          /\ export.copied \in 0..Len(Parts)
          /\ export.data \in [Part -> Content]
          /\ exported \in 0..MaxExports
          /\ tickets \subseteq Backup /\ held \subseteq Backup
          /\ stages \in [Tokens -> Stage]
          /\ ToSet(pending) \subseteq Tokens /\ IsInjective(pending)
          /\ \A t \in ToSet(pending) :
                stages[t].state \notin {"none", "extracting"}
          /\ swap.token \in Tokens \cup {"none"}
          /\ swap.done \in 0..(Len(Parts) + 1)
          /\ swap.rollback \in [Part -> Content]
          /\ troubles \in Seq({"raised", "killed", "late"})
          /\ (up = "swapping") = (swap.token # "none")

Init == /\ live = [p \in Part |-> [Absent EXCEPT !.from = 0]]
        /\ view = live["database"]
        /\ changes = 0
        /\ world = 0
        /\ up = "running"
        /\ export = NoExport
        /\ exported = 0
        /\ tickets = {} /\ held = {}
        /\ stages = [t \in Tokens |-> NoStage]
        /\ pending = <<>>
        /\ swap = NoSwap
        /\ troubles = <<>>

Serving == up \in {"running", "leaving"}
Exporting == export.copied > 0
FileOf(i) == IF i \in Scans THEN "raw" ELSE "uploads"
HasFile(i) == i \in live[FileOf(i)].has
ActiveWork == "job" \in view.has
dataVars == <<live, view, changes>>
exportVars == <<exported, tickets, held>>
stageVars == <<stages, pending>>
processVars == <<world, up, swap, troubles>>
backupVars == <<exportVars, stageVars, processVars>>

(***************************************************************************)
(* The rest of the program, as far as it changes the live data.            *)
(***************************************************************************)
Changes == changes < MaxChanges /\ changes' = changes + 1
Commit(rows) == view' = [view EXCEPT !.has = rows]
WithFile(i) == live' = [live EXCEPT ![FileOf(i)].has = @ \cup {i}]

\* The file of an upload is renamed into place, and then its row inserted.
UploadFile(i) == /\ Serving
                 /\ i \in Images /\ ~HasFile(i) /\ i \notin view.has
                 /\ Changes
                 /\ WithFile(i)
                 /\ UNCHANGED <<view, export, backupVars>>

UploadRow(i) == /\ Serving
                /\ i \in Images /\ HasFile(i) /\ i \notin view.has
                /\ Commit(view.has \cup {i})
                /\ UNCHANGED <<live, export, changes, backupVars>>

\* A scan has the database lock when it stores its raw result and its row,
\* so that no export is between its two steps.
ScanCompletes(i) == /\ Serving /\ ~Exporting
                    /\ i \in Scans /\ i \notin view.has
                    /\ Changes
                    /\ WithFile(i)
                    /\ Commit(view.has \cup {i})
                    /\ UNCHANGED <<export, backupVars>>

\* A removal unlinks the file first, without the lock.
RemoveFile(i) == /\ Serving
                 /\ i \in view.has /\ HasFile(i)
                 /\ Changes
                 /\ live' = [live EXCEPT ![FileOf(i)].has = @ \ {i}]
                 /\ export' = IF Exporting
                              THEN [export EXCEPT !.gone = @ \cup {i}]
                              ELSE export
                 /\ UNCHANGED <<view, backupVars>>

RemoveRow(i) == /\ Serving
                /\ i \in view.has /\ i # "job" /\ ~HasFile(i)
                /\ Commit(view.has \ {i})
                /\ UNCHANGED <<live, export, changes, backupVars>>

WorkBegins == /\ Serving /\ ~ActiveWork
              /\ Changes
              /\ Commit(view.has \cup {"job"})
              /\ UNCHANGED <<live, export, backupVars>>

WorkEnds == /\ Serving /\ ActiveWork
            /\ Commit(view.has \ {"job"})
            /\ UNCHANGED <<live, export, changes, backupVars>>

SignIn == /\ Serving /\ world \notin view.sessions
          /\ Changes
          /\ view' = [view EXCEPT !.sessions = @ \cup {world}]
          /\ UNCHANGED <<live, export, backupVars>>

\* SQLite moves the WAL into the database file.
Checkpoint == /\ Serving /\ live["database"] # view
              /\ live' = [live EXCEPT !["database"] = view]
              /\ UNCHANGED <<view, export, changes, backupVars>>

(***************************************************************************)
(* Export and download.                                                    *)
(***************************************************************************)
\* cleanup_stale_backups: what has not been touched for a day goes.  Which
\* stages are that old is left open.
StaleSets == {old \in SUBSET Tokens :
                 \A t \in old :
                    stages[t].state \in {"partial", "staged", "hollow"}}
Gone(t) == [NoStage EXCEPT !.calls = stages[t].calls]
Swept(old) == [t \in Tokens |-> IF t \in old THEN Gone(t) ELSE stages[t]]

\* The sequences, there is one, of the markers that are left when those of old
\* go, newest first as before.
Newer(t, u) == \E a, b \in DOMAIN pending :
                  a < b /\ pending[a] = t /\ pending[b] = u
StillReady(old) ==
    LET kept == ToSet(pending) \ old
    IN {order \in [1..Cardinality(kept) -> kept] :
           \A a, b \in DOMAIN order : a < b => Newer(order[a], order[b])}

CleanupStale == \E old \in StaleSets : /\ stages' = Swept(old)
                                       /\ pending' \in StillReady(old)

\* The snapshot goes through SQLite and sees the WAL; the other parts are
\* files.
CopyOf(p) == IF p = "database" THEN view ELSE live[p]

\* mutant
FilesFirst == Reverse(Parts)

CopyOrder == Parts

Copying(n, data) == [data EXCEPT ![CopyOrder[n]] = CopyOf(CopyOrder[n])]

\* Rows that have no file when an export begins (a removal is under way, or
\* was cut short) are lost to it.
ExportBegins == /\ Serving /\ ~Exporting
                /\ exported < MaxExports
                /\ exported' = exported + 1
                /\ CleanupStale
                /\ export' =
                     [copied |-> 1, data |-> Copying(1, Empty),
                      gone |-> {i \in view.has \ {"job"} : ~HasFile(i)}]
                /\ UNCHANGED <<dataVars, tickets, held, processVars>>

ExportCopies == /\ Serving /\ Exporting /\ export.copied < Len(Parts)
                /\ export' = [export EXCEPT
                                !.copied = @ + 1,
                                !.data = Copying(export.copied + 1, @)]
                /\ UNCHANGED <<dataVars, backupVars>>

\* The lock is given back, and a ticket written.
ExportEnds == /\ Serving /\ export.copied = Len(Parts)
              /\ tickets' = tickets \cup
                     {[data |-> export.data, gone |-> export.gone]}
              /\ export' = NoExport
              /\ UNCHANGED <<dataVars, exported, held, stageVars,
                             processVars>>

ExportFails == /\ Serving /\ Exporting
               /\ export' = NoExport
               /\ UNCHANGED <<dataVars, backupVars>>

Download(b) == /\ Serving
               /\ b \in tickets
               /\ held' = held \cup {b}
               /\ UNCHANGED <<dataVars, export, exported, tickets, stageVars,
                              processVars>>

\* After a download, or at one that is refused: the ticket has expired, or
\* is another administrator's.
TicketRemoved(b) == /\ Serving
                    /\ b \in tickets
                    /\ tickets' = tickets \ {b}
                    /\ UNCHANGED <<dataVars, export, exported, held,
                                   stageVars, processVars>>

(***************************************************************************)
(* Import, and cancellation of an import.                                  *)
(***************************************************************************)
SetStage(t, s) == stages' = [stages EXCEPT ![t] = s]

\* mutant
StillMarked(t) == {pending}

Unmarked(t) == StillReady({t})
IsReady(t) == t \in ToSet(pending)

ImportBegins(t, b) ==
    /\ Serving
    /\ b \in held /\ stages[t].state = "none" /\ stages[t].calls = {}
    /\ world < MaxRestores
    /\ \E old \in StaleSets :
          /\ stages' = [Swept(old) EXCEPT
                          ![t].state = "extracting", ![t].data = b.data]
          /\ pending' \in StillReady(old)
    /\ UNCHANGED <<dataVars, export, exportVars, processVars>>

ImportValidated(t) ==
    /\ Serving /\ stages[t].state = "extracting"
    /\ SetStage(t, [stages[t] EXCEPT !.state = "staged", !.left = Part])
    /\ UNCHANGED <<dataVars, export, exportVars, pending, processVars>>

\* A BackupError removes the stage; want of disk space leaves it behind.
ImportFails(t) ==
    /\ Serving /\ stages[t].state = "extracting"
    /\ \/ SetStage(t, NoStage)
       \/ SetStage(t, [stages[t] EXCEPT !.state = "partial"])
    /\ UNCHANGED <<dataVars, export, exportVars, pending, processVars>>

\* cancel_import runs in a thread: the check, then rmtree, which lists the
\* directory, unlinks what it has listed and ignores every error.  A client
\* has the token of a stage that was validated.
CancelChecks(t) ==
    /\ Serving
    /\ stages[t].state \in {"staged", "partial"} /\ ~IsReady(t)
    /\ "cancel" \notin stages[t].calls
    /\ SetStage(t, [stages[t] EXCEPT !.calls = @ \cup {"cancel"}])
    /\ UNCHANGED <<dataVars, export, exportVars, pending, processVars>>

CancelLists(t) ==
    /\ Serving /\ "cancel" \in stages[t].calls
    /\ stages[t].state \in {"staged", "partial"}
    /\ SetStage(t, [stages[t] EXCEPT
                      !.state = IF IsReady(t) THEN "sweeping" ELSE "emptying"])
    /\ UNCHANGED <<dataVars, export, exportVars, pending, processVars>>

\* A marker that was written after the listing stays, and its directory with
\* it; the directory is the newest, unless all was unlinked before the marker
\* was written.
CancelLeaves(t) ==
    /\ Serving /\ "cancel" \in stages[t].calls
    /\ stages[t].state = "emptying" /\ IsReady(t)
    /\ SetStage(t, [stages[t] EXCEPT !.state = "hollow",
                                     !.calls = @ \ {"cancel"}])
    /\ \/ UNCHANGED pending
       \/ \E others \in Unmarked(t) : pending' = <<t>> \o others
    /\ UNCHANGED <<dataVars, export, exportVars, processVars>>

CancelRemoves(t) ==
    /\ Serving /\ "cancel" \in stages[t].calls
    /\ \/ stages[t].state \in {"sweeping", "none"}
       \/ stages[t].state = "emptying" /\ ~IsReady(t)
    /\ SetStage(t, [NoStage EXCEPT !.calls = stages[t].calls \ {"cancel"}])
    /\ pending' \in Unmarked(t)
    /\ UNCHANGED <<dataVars, export, exportVars, processVars>>

(***************************************************************************)
(* Restore: the request, and the end of the process 1.5 seconds later.     *)
(***************************************************************************)
Whole(t) == stages[t].state = "staged" /\ stages[t].left = Part

RestoreChecks(t) ==
    /\ Serving
    /\ Whole(t) /\ ~IsReady(t)
    /\ "restore" \notin stages[t].calls
    /\ ~ActiveWork
    /\ SetStage(t, [stages[t] EXCEPT !.calls = @ \cup {"restore"}])
    /\ UNCHANGED <<dataVars, export, exportVars, pending, processVars>>

\* The marker is written, and the end of the process scheduled; without its
\* directory the marker cannot be written.
RestoreConfirms(t) ==
    /\ Serving /\ "restore" \in stages[t].calls
    /\ SetStage(t, [stages[t] EXCEPT !.calls = @ \ {"restore"}])
    /\ IF stages[t].state = "none"
       THEN UNCHANGED <<pending, up>>
       ELSE /\ \E others \in Unmarked(t) : pending' = <<t>> \o others
            /\ up' = "leaving"
    /\ UNCHANGED <<dataVars, export, exportVars, world, swap, troubles>>

\* The process ends: requests and threads are gone, and the unpacking of an
\* import, or its removal, stays where it was; of markers that were to go
\* some have gone.
CutShort == {"extracting", "emptying", "sweeping"}

Ends == /\ up' = "down"
        /\ export' = NoExport
        /\ stages' = [t \in Tokens |->
               [stages[t] EXCEPT
                  !.state = IF @ \in CutShort THEN "partial" ELSE @,
                  !.calls = {}]]
        /\ \E old \in SUBSET {t \in Tokens : stages[t].state = "sweeping"} :
              pending' \in StillReady(old)
        /\ UNCHANGED <<dataVars, exportVars, world, swap, troubles>>

Exit == up = "leaving" /\ Ends
Crash == up = "running" /\ Ends

(***************************************************************************)
(* Start: apply_pending_restore and replace_with_restore.                  *)
(***************************************************************************)
\* Nothing is pending.
Start == /\ up = "down" /\ pending = <<>>
         /\ up' = "running"
         /\ CleanupStale
         /\ UNCHANGED <<dataVars, export, exportVars, world, swap, troubles>>

\* The newest stage that is READY is checked once more.  When it is not whole
\* the start fails, now and at every later attempt.  The WAL of the database
\* that is still there is deleted first.
SwapBegins == \E t \in Tokens :
                 /\ up = "down" /\ pending # <<>> /\ t = Head(pending)
                 /\ Whole(t)
                 /\ up' = "swapping"
                 /\ swap' = [NoSwap EXCEPT !.token = t, !.before = view.has]
                 /\ view' = live["database"]
                 /\ UNCHANGED <<live, changes, export, exportVars, stageVars,
                                world, troubles>>

Current == Parts[swap.done + 1]

MoveAway == /\ up = "swapping" /\ swap.done < Len(Parts) /\ ~swap.away
            /\ live' = [live EXCEPT ![Current] = Absent]
            /\ swap' = [swap EXCEPT !.away = TRUE,
                                    !.rollback[Current] = live[Current]]
            /\ UNCHANGED <<view, changes, export, exportVars, stageVars,
                           world, up, troubles>>

Installed(p) == [stages[swap.token].data[p] EXCEPT !.from = world + 1]

Install == /\ up = "swapping" /\ swap.away
           /\ live' = [live EXCEPT ![Current] = Installed(Current)]
           /\ view' = IF Current = "database"
                      THEN Installed("database") ELSE view
           /\ stages' = [stages EXCEPT ![swap.token].left = @ \ {Current}]
           /\ swap' = [swap EXCEPT !.away = FALSE, !.done = @ + 1]
           /\ UNCHANGED <<changes, export, exportVars, pending, world, up,
                          troubles>>

\* mutant
StageKept(old) == old

\* The finally clause removes the rollback directory and the stage.
RestoreDirs(old) == old \cup {swap.token}

SwapOver(old) == LET gone == RestoreDirs(old)
                 IN /\ swap' = NoSwap
                    /\ stages' = Swept(gone)
                    /\ pending' \in StillReady(gone)
                    /\ UNCHANGED <<changes, export, exportVars>>

\* A restored database knows nobody who was signed in.
SignedOut(db) == [db EXCEPT !.sessions = {}]

\* Sessions are deleted, and the deletion committed to the write-ahead log.
SessionsDeleted == /\ up = "swapping" /\ swap.done = Len(Parts)
                   /\ view' = SignedOut(live["database"])
                   /\ swap' = [swap EXCEPT !.done = @ + 1]
                   /\ UNCHANGED <<live, changes, export, exportVars, stageVars,
                                  world, up, troubles>>

\* The completion is written, the connection closes, which moves the log into
\* the database, and the start goes on.
SwapEnds == /\ up = "swapping" /\ swap.done = Len(Parts) + 1
            /\ live' = [live EXCEPT !["database"] = view]
            /\ view' = view
            /\ world' = world + 1
            /\ up' = "running"
            /\ \E old \in StaleSets : SwapOver(old)
            /\ UNCHANGED troubles

\* mutant
CurrentUndone(p) == IF swap.away /\ p = Current
                    THEN swap.rollback[p] ELSE live[p]

\* What is undone: a part that was installed goes, and what was moved comes
\* back.
Touched(p) == \E n \in DOMAIN Parts :
                 /\ Parts[n] = p
                 /\ n <= swap.done \/ (swap.away /\ n = swap.done + 1)

Undone(p) == IF Touched(p) THEN swap.rollback[p] ELSE live[p]

\* The deletion of the sessions is in the log of the installed database.
LogLeft == swap.done > Len(Parts) /\ view # live["database"]

\* A step raises (a rename, the check of the new database, a write): what
\* was installed is removed, what was moved comes back, and the process ends
\* with the exception.  A log that the installed database got may go when its
\* connection is closed; if it stays, it is replayed into the database that
\* came back, and what connections see is neither.
SwapRaises == /\ up = "swapping" /\ Len(troubles) < MaxTroubles
              /\ live' = [p \in Part |-> Undone(p)]
              /\ \/ /\ view' = Undone("database")
                    /\ troubles' = Append(troubles, "raised")
                 \/ /\ LogLeft
                    /\ view' = [Undone("database") EXCEPT !.from = Nobody]
                    /\ troubles' = Append(troubles, "late")
              /\ SwapOver({})
              /\ up' = "down"
              /\ UNCHANGED world

\* The process is killed.  What it had moved stays in a rollback directory
\* that no start looks at.
SwapKilled == /\ up = "swapping" /\ Len(troubles) < MaxTroubles
              /\ troubles' = Append(troubles, "killed")
              /\ swap' = NoSwap
              /\ up' = "down"
              /\ UNCHANGED <<dataVars, export, exportVars, stageVars, world>>

Next == \/ \E i \in Scans \cup Images : \/ UploadFile(i) \/ UploadRow(i)
                                        \/ ScanCompletes(i)
                                        \/ RemoveFile(i) \/ RemoveRow(i)
        \/ WorkBegins \/ WorkEnds \/ SignIn \/ Checkpoint
        \/ ExportBegins \/ ExportCopies \/ ExportEnds \/ ExportFails
        \/ \E b \in tickets : Download(b) \/ TicketRemoved(b)
        \/ \E t \in Tokens, b \in held : ImportBegins(t, b)
        \/ \E t \in Tokens : \/ ImportValidated(t) \/ ImportFails(t)
                             \/ CancelChecks(t) \/ CancelLists(t)
                             \/ CancelLeaves(t) \/ CancelRemoves(t)
                             \/ RestoreChecks(t) \/ RestoreConfirms(t)
        \/ Exit \/ Crash \/ Start
        \/ SwapBegins \/ MoveAway \/ Install
        \/ SessionsDeleted \/ SwapEnds \/ SwapRaises \/ SwapKilled

Safe == Init /\ [][Next]_vars

\* The scheduled exit happens, Compose restarts the backend, and a start that
\* goes on takes its steps.
Spec == /\ Safe
        /\ WF_vars(Exit) /\ WF_vars(Start) /\ WF_vars(SwapBegins)
        /\ WF_vars(MoveAway) /\ WF_vars(Install)
        /\ WF_vars(SessionsDeleted) /\ WF_vars(SwapEnds)

(***************************************************************************)
(* Properties.                                                             *)
(***************************************************************************)
\* What is served is one data set: after a restore all of it comes from the
\* backup, after one that failed none of it, and nobody who was signed in
\* before a restore is afterwards (replace_with_restore; the authentication
\* key must be the one the database was written with).  Only the database is
\* excepted, and only when a swap was undone with the log of the installed
\* database left behind.
ServedWhole == Serving =>
    /\ \A p \in Part \ {"database"} : live[p].from = world
    /\ view.sessions \subseteq {world}
    /\ \/ "late" \in ToSet(troubles)
       \/ live["database"].from = world /\ view.from = world

\* A backup has the file of every row it has, uploads and all, unless the
\* file was already gone, or was removed, while the backup was made
\* (create_encrypted_backup takes the snapshot before it copies files).
BackupComplete ==
    \A b \in tickets \cup held :
        b.data["database"].has \ {"job"} \subseteq
            b.data["raw"].has \cup b.data["uploads"].has \cup b.gone

\* The server comes back after every exit, crash and failed restore.  It may
\* stay down when a process was killed in the middle of a swap, when a
\* foreign log was replayed into the database, or when a READY marker is in a
\* directory that is not a whole stage.
MarkedInVain == \E t \in Tokens : IsReady(t) /\ stages[t].state # "staged"

ServerReturns == []<>(\/ Serving
                      \/ {"killed", "late"} \cap ToSet(troubles) # {}
                      \/ MarkedInVain)

\* Finding (README, section 6): a restore that fails gives back what was
\* there before it.
FailedRestoreKeepsRows ==
    [][up = "swapping" /\ up' = "down" /\ troubles' # troubles
          => "killed" \in ToSet(troubles') \/ view'.has = swap.before]_vars

\* Finding: what is served after a restore that failed is the previous
\* database, whatever step of the installation raised.
RolledBackWhole == Serving => view.from = world

\* Finding: the process that ends for a restore has no scan and no component
\* job under way.
NoWorkCutOff == up = "leaving" => ~ActiveWork

\* Finding: a confirmed restore, or any other end of the process, is followed
\* by a start that serves.
AlwaysServesAgain == []<>Serving
===============================================================================
