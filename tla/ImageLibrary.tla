----------------------------- MODULE ImageLibrary -----------------------------
(***************************************************************************)
(* The image archives: files below the upload directory and the mounted    *)
(* roots on one side, the rows of the images table on the other, and who   *)
(* changes either: uploads (coroutines), discovery (a thread, serialised   *)
(* by _discovery_lock) and removals (threads).                             *)
(*                                                                         *)
(* SQLite has one writer: an upload of several archives that has flushed   *)
(* its first row keeps the write lock over the validation of the next.     *)
(* A thread waits for it; a coroutine that writes then blocks the loop,    *)
(* and with it the holder, until the busy timeout fails it.                *)
(***************************************************************************)
EXTENDS Naturals, Sequences, FiniteSets, SequencesExt

CONSTANTS Uploads,              \* upload requests
          Removers,             \* threads that remove images
          Names,                \* file names a client sends
          Mounted,              \* archives below read-only roots
          MaxFiles,             \* max_upload_files
          MaxRows,              \* bound on row ids
          MaxCrashes,           \* bound on crashes
          None

ASSUME LibraryAssumption ==
    /\ MaxFiles \in Nat \ {0} /\ MaxRows \in Nat /\ MaxCrashes \in Nat
    /\ None \notin Uploads
    /\ None \notin {"running", "completed", "failed"}
    /\ \A u \in Uploads, i \in 1..MaxFiles : <<u, i>> # None
    \* A path is below the upload directory or below a mounted root.
    /\ IsFiniteSet(Mounted) /\ Names \cap Mounted = {}

VARIABLES disk,                 \* archive files: path -> content
          rows,                 \* committed rows of images
          upload, job,          \* each request, and its upload_jobs row
          discovery,            \* the thread inside _discovery_lock
          removal,              \* each removal thread
          holder,               \* the upload that holds the write lock
          torn,                 \* rows whose removal ended after the unlink
          crashes

vars == <<disk, rows, upload, job, discovery, removal, holder, torn,
          crashes>>

Idle == "idle"
\* A stored name is the client's, or has a random suffix that no other has.
Base(n) == [name |-> n, suffix |-> None]
Suffixed(n, u, i) == [name |-> n, suffix |-> <<u, i>>]
Paths == {Base(n) : n \in Names \cup Mounted}
         \cup {Suffixed(n, u, i) : n \in Names, u \in Uploads, i \in 1..MaxFiles}
Managed(p) == p.name \in Names          \* uploaded_archive
Content == [by : Uploads \cup {None}, index : 0..MaxFiles]
MountedFile == [by |-> None, index |-> 0]

\* by is the upload that inserted the row, None for discovery.
Row == [id : 1..MaxRows, path : Paths, hidden : BOOLEAN,
        by : Uploads \cup {None}]

\* names: what the client sends; dest: the destinations reserved so far;
\* finished: how many archives are renamed to theirs; flushed: how many rows
\* are in the open transaction.
Upload == [at : {"new", "receiving", "validating", "committed", "ended"},
           names : BoundedSeq(Names, MaxFiles),
           dest : BoundedSeq(Paths, MaxFiles),
           finished : 0..MaxFiles, flushed : 0..MaxFiles]

TypeOK ==
    /\ DOMAIN disk \subseteq Paths
    /\ \A p \in DOMAIN disk : disk[p] \in Content
    /\ rows \subseteq Row
    /\ \A r, s \in rows : r.id = s.id \/ r.path = s.path => r = s
    /\ upload \in [Uploads -> Upload]
    /\ job \in [Uploads -> {None, "running", "completed", "failed"}]
    /\ discovery.at \in {Idle, "walk", "insert"}
    /\ \A t \in Removers : removal[t].at \in {Idle, "checked", "unlinked"}
    /\ holder \in Uploads \cup {None}
    /\ torn \subseteq Row
    /\ crashes \in 0..MaxCrashes

NoUpload == [at |-> "new", names |-> <<>>, dest |-> <<>>,
             finished |-> 0, flushed |-> 0]
NoDiscovery == [at |-> Idle, existing |-> {}, new |-> {}]
NoRemoval == [at |-> Idle, row |-> None]

Init == /\ disk = [p \in {Base(m) : m \in Mounted} |-> MountedFile]
        /\ rows = {}
        /\ upload = [u \in Uploads |-> NoUpload]
        /\ job = [u \in Uploads |-> None]
        /\ discovery = NoDiscovery
        /\ removal = [t \in Removers |-> NoRemoval]
        /\ holder = None
        /\ torn = {}
        /\ crashes = 0

-------------------------------------------------------------------------------
(* Files and rows *)

Without(ps) == [p \in DOMAIN disk \ ps |-> disk[p]]
Holding(p, c) == [q \in DOMAIN disk \cup {p} |-> IF q = p THEN c ELSE disk[q]]
PathsOf(R) == {r.path : r \in R}
LastId(R) == IF R = {} THEN 0 ELSE CHOOSE n \in {r.id : r \in R} :
                                      \A r \in R : r.id <= n

\* The rows after insertions in this order; an id is the highest one plus 1.
Inserted(ps, by) ==
    rows \cup {[id |-> LastId(rows) + i, path |-> ps[i], hidden |-> FALSE,
                by |-> by] : i \in DOMAIN ps}
RoomFor(n) == LastId(rows) + n <= MaxRows

-------------------------------------------------------------------------------
(* Uploads *)

\* What is left of a request: the names it had reserved.
Ended(u) == [NoUpload EXCEPT !.at = "ended", !.dest = upload[u].dest]

WriterFree(u) == holder \in {None, u}
\* From the commit of its rows to the end of the request a coroutine does not
\* wait: no other one runs, only threads do.
LoopFree(u) == \A w \in Uploads \ {u} : upload[w].at # "committed"

BeginUpload(u, names) ==
    /\ upload[u].at = "new"
    /\ LoopFree(u) /\ WriterFree(u)
    /\ upload' = [upload EXCEPT ![u] = [NoUpload EXCEPT !.at = "receiving",
                                                        !.names = names]]
    /\ job' = [job EXCEPT ![u] = "running"]
    /\ UNCHANGED <<disk, rows, discovery, removal, holder, torn, crashes>>

DestinationOnDisk(u, n, i) ==                                   \* mutant
    IF Base(n) \in DOMAIN disk THEN Suffixed(n, u, i) ELSE Base(n)

\* A suffix is added when the name is on disk, or reserved by this request.
Destination(u, n, i) ==
    IF Base(n) \in DOMAIN disk \cup ToSet(upload[u].dest)
    THEN Suffixed(n, u, i) ELSE Base(n)

\* on_headers_finished: reserve a destination, and open a temporary beside it.
OnHeadersFinished(u) ==
    LET i == Len(upload[u].dest) + 1 IN
    /\ upload[u].at = "receiving" /\ LoopFree(u)
    /\ i <= Len(upload[u].names)
    /\ upload' = [upload EXCEPT ![u].dest =
                    Append(@, Destination(u, upload[u].names[i], i))]
    /\ UNCHANGED <<disk, rows, job, discovery, removal, holder, torn, crashes>>

\* flush_events, _finish: a thread renames the temporary over the destination.
Finish(u) ==
    LET i == upload[u].finished + 1 IN
    /\ upload[u].at = "receiving"
    /\ i <= Len(upload[u].dest)
    /\ disk' = Holding(upload[u].dest[i], [by |-> u, index |-> i])
    /\ upload' = [upload EXCEPT ![u].finished = i]
    /\ UNCHANGED <<rows, job, discovery, removal, holder, torn, crashes>>

\* The body has ended, and the job is updated to "validating".
StreamEnds(u) ==
    /\ upload[u].at = "receiving"
    /\ upload[u].finished = Len(upload[u].names)
    /\ LoopFree(u) /\ WriterFree(u)
    /\ upload' = [upload EXCEPT ![u].at = "validating"]
    /\ UNCHANGED <<disk, rows, job, discovery, removal, holder, torn, crashes>>

\* The next archive is a plausible image, and its row is flushed: the write
\* lock is taken, and the unique path is checked against committed rows.
CanInsert(u) ==
    /\ upload[u].at = "validating"
    /\ LoopFree(u) /\ WriterFree(u)
    /\ LET p == upload[u].dest[upload[u].flushed + 1] IN
       p \in DOMAIN disk /\ p \notin PathsOf(rows)

InsertRow(u) ==
    /\ CanInsert(u)
    /\ upload[u].flushed + 1 < Len(upload[u].dest)
    /\ upload' = [upload EXCEPT ![u].flushed = @ + 1]
    /\ holder' = u
    /\ UNCHANGED <<disk, rows, job, discovery, removal, torn, crashes>>

\* The last row is followed at once by the commit of all of them.
InsertLastRow(u) ==
    /\ CanInsert(u)
    /\ upload[u].flushed + 1 = Len(upload[u].dest)
    /\ RoomFor(Len(upload[u].dest))
    /\ rows' = Inserted(upload[u].dest, u)
    /\ upload' = [upload EXCEPT ![u].at = "committed", ![u].flushed = 0]
    /\ holder' = None
    /\ UNCHANGED <<disk, job, discovery, removal, torn, crashes>>

\* The completion of the job is a commit of its own.
CompleteJob(u) ==
    /\ upload[u].at = "committed"
    /\ WriterFree(u)
    /\ upload' = [upload EXCEPT ![u] = Ended(u)]
    /\ job' = [job EXCEPT ![u] = "completed"]
    /\ UNCHANGED <<disk, rows, discovery, removal, holder, torn, crashes>>

UnlinkRequested(u) ==                                           \* mutant
    {Base(upload[u].names[i]) : i \in DOMAIN upload[u].names}

\* cleanup, or the except clause of upload_archives: every destination the
\* request has reserved is unlinked, renamed to or not.
UnlinkedBy(u) == ToSet(upload[u].dest)

\* The job becomes failed, unless the write of that meets the lock as well.
JobFails(u) == IF WriterFree(u)
               THEN job' = [job EXCEPT ![u] = "failed"] /\ holder' = None
               ELSE UNCHANGED <<job, holder>>

\* A disconnect, a limit, an implausible archive, a path that is taken, a
\* missing file, a locked database: roll back, unlink, and fail the job.
FailUpload(u) ==
    /\ upload[u].at \in {"receiving", "validating"}
    /\ LoopFree(u)
    /\ disk' = Without(UnlinkedBy(u))
    /\ upload' = [upload EXCEPT ![u] = Ended(u)]
    /\ JobFails(u)
    /\ UNCHANGED <<rows, discovery, removal, torn, crashes>>

\* The completion meets a thread that holds the write lock past the timeout,
\* or a full disk: the same clause unlinks the archives of the rows that are
\* committed, and its own write may fail as well.
CompletionFails(u) ==
    /\ upload[u].at = "committed"
    /\ disk' = Without(UnlinkedBy(u))
    /\ upload' = [upload EXCEPT ![u] = Ended(u)]
    /\ JobFails(u) \/ UNCHANGED <<job, holder>>
    /\ UNCHANGED <<rows, discovery, removal, torn, crashes>>

-------------------------------------------------------------------------------
(* Discovery, with the cache expired or forced *)

\* The lock is entered and the table read, hidden rows included.
DiscoverReads ==
    /\ discovery.at = Idle
    /\ discovery' = [NoDiscovery EXCEPT !.at = "walk",
                                        !.existing = PathsOf(rows)]
    /\ UNCHANGED <<disk, rows, upload, job, removal, holder, torn, crashes>>

DiscoverWalks ==
    /\ discovery.at = "walk"
    /\ discovery' = [at |-> "insert", existing |-> {},
                      new |-> DOMAIN disk \ discovery.existing]
    /\ UNCHANGED <<disk, rows, upload, job, removal, holder, torn, crashes>>

RowsShown(ps) == {[r EXCEPT !.hidden = FALSE] :                 \* mutant
                     r \in Inserted(ps, None)}

RowsFound(ps) == Inserted(ps, None)

\* One commit for all. The sizes and times of known files are left out.
DiscoverCommits ==
    LET new == discovery.new IN
    /\ discovery.at = "insert"
    /\ holder = None
    /\ new \cap PathsOf(rows) = {}
    /\ RoomFor(Cardinality(new))
    /\ rows' = RowsFound(SetToSeq(new))
    /\ discovery' = NoDiscovery
    /\ UNCHANGED <<disk, upload, job, removal, holder, torn, crashes>>

\* A path that has got a row meanwhile, a changed file whose row is gone, or a
\* locked database fails them all.
DiscoverFails ==
    /\ discovery.at = "insert"
    /\ discovery' = NoDiscovery
    /\ UNCHANGED <<disk, rows, upload, job, removal, holder, torn, crashes>>

-------------------------------------------------------------------------------
(* Removal and restoration of an image without active scans *)

RemovalReads(t, r) ==
    /\ removal[t].at = Idle
    /\ ~r.hidden
    /\ removal' = [removal EXCEPT ![t] = [at |-> "checked", row |-> r]]
    /\ UNCHANGED <<disk, rows, upload, job, discovery, holder, torn, crashes>>

\* remove_image_record unlinks a managed file before it writes.
RemovalUnlinks(t) ==
    /\ removal[t].at = "checked"
    /\ disk' = IF Managed(removal[t].row.path)
               THEN Without({removal[t].row.path}) ELSE disk
    /\ removal' = [removal EXCEPT ![t].at = "unlinked"]
    /\ UNCHANGED <<rows, upload, job, discovery, holder, torn, crashes>>

\* By id: the row is deleted, or hidden when its archive is mounted.
RowsAfterRemoval(r) ==
    IF Managed(r.path) THEN {s \in rows : s.id # r.id}
    ELSE {IF s.id = r.id THEN [s EXCEPT !.hidden = TRUE] ELSE s : s \in rows}

RemovalCommits(t) ==
    /\ removal[t].at = "unlinked"
    /\ holder = None
    /\ rows' = RowsAfterRemoval(removal[t].row)
    /\ removal' = [removal EXCEPT ![t] = NoRemoval]
    /\ torn' = torn \cap rows'
    /\ UNCHANGED <<disk, upload, job, discovery, holder, crashes>>

\* The rows whose archive these threads have unlinked.
HalfRemoved(T) == {removal[t].row : t \in {t \in T :
                      removal[t].at = "unlinked" /\ Managed(removal[t].row.path)}}

\* The unlink raises, or the commit after it does: the row stays.
RemovalFails(t) ==
    /\ removal[t].at # Idle
    /\ removal' = [removal EXCEPT ![t] = NoRemoval]
    /\ torn' = torn \cup HalfRemoved({t})
    /\ UNCHANGED <<disk, rows, upload, job, discovery, holder, crashes>>

RestoreImage(r) ==
    /\ r.hidden
    /\ r.path \in DOMAIN disk
    /\ holder = None
    /\ rows' = (rows \ {r}) \cup {[r EXCEPT !.hidden = FALSE]}
    /\ UNCHANGED <<disk, upload, job, discovery, removal, holder, torn, crashes>>

-------------------------------------------------------------------------------
\* Requests, threads and the open transaction are lost; the restart runs
\* discovery, and looks at no upload job.
Crash ==
    /\ crashes < MaxCrashes
    /\ crashes' = crashes + 1
    /\ upload' = [u \in Uploads |->
                    IF upload[u].at \in {"receiving", "validating", "committed"}
                    THEN Ended(u)
                    ELSE upload[u]]
    /\ discovery' = NoDiscovery
    /\ torn' = torn \cup HalfRemoved(Removers)
    /\ removal' = [t \in Removers |-> NoRemoval]
    /\ holder' = None
    /\ UNCHANGED <<disk, rows, job>>

UploadStep(u) == \/ OnHeadersFinished(u) \/ Finish(u) \/ StreamEnds(u)
                 \/ InsertRow(u) \/ InsertLastRow(u) \/ CompleteJob(u)
                 \/ FailUpload(u) \/ CompletionFails(u)
DiscoveryStep == \/ DiscoverReads \/ DiscoverWalks
                 \/ DiscoverCommits \/ DiscoverFails

Next == \/ \E u \in Uploads :
             \/ \E names \in BoundedSeq(Names, MaxFiles) \ {<<>>} :
                  BeginUpload(u, names)
             \/ UploadStep(u)
        \/ DiscoveryStep
        \/ \E t \in Removers : \/ \E r \in rows : RemovalReads(t, r)
                               \/ RemovalUnlinks(t)
                               \/ RemovalCommits(t)
                               \/ RemovalFails(t)
        \/ \E r \in rows : RestoreImage(r)
        \/ Crash

Spec == Init /\ [][Next]_vars

-------------------------------------------------------------------------------
(* Properties *)

\* A failed upload has left no file: none with its data under any name, also
\* when another upload was given the same name or a discovery found its files.
FailedLeavesNoFile ==
    \A u \in Uploads : job[u] = "failed" => \A p \in DOMAIN disk : disk[p].by # u

Reserved(u, p) == p \in ToSet(upload[u].dest)
BeingRemoved(r) == \E t \in Removers : removal[t].row = r

\* An upload that was reported as completed and is alone with its stored names
\* keeps its archives: no other request's clean-up, no failed discovery and no
\* other removal touches them. A row whose own removal ended or died between
\* the unlink and the commit is excepted.
LoneUploadKeepsFiles ==
    \A r \in rows :
        /\ r.by # None /\ job[r.by] = "completed"
        /\ ~BeingRemoved(r) /\ r \notin torn
        /\ \A u \in Uploads \ {r.by} : ~Reserved(u, r.path)
        => r.path \in DOMAIN disk /\ disk[r.path].by = r.by

\* A removed (hidden) image stays so until somebody restores it: discovery,
\* also the one at a restart, finds its file again and leaves it hidden.
HiddenStaysHidden ==
    [][\A r \in rows : r.hidden => r \in rows' \/ RestoreImage(r)]_vars

\* TECHNICAL_README: "Existing uploads are never overwritten; a random suffix
\* is added."
NeverOverwritten ==
    [][\A p \in DOMAIN disk \cap DOMAIN disk' : disk'[p] = disk[p]]_vars

\* TECHNICAL_README: a failing upload "removes all files created by that
\* individual request and rolls back its image rows".
FailedLeavesNoRow ==
    \A u \in Uploads : job[u] = "failed" => \A r \in rows : r.by # u

\* TECHNICAL_README: it "retains a sanitized success or failure outcome on the
\* unified Jobs page". Of the requests that have ended without rows.
OutcomeRetained ==
    \A u \in Uploads :
        upload[u].at = "ended" /\ (\A r \in rows : r.by # u)
        => job[u] \in {"completed", "failed"}
===============================================================================
