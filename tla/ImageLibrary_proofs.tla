-------------------------- MODULE ImageLibrary_proofs --------------------------
(***************************************************************************)
(* Proofs about the image archives, for any uploads, removal threads, file *)
(* names and bounds: a failed upload leaves no file; ids and paths of the  *)
(* rows stay unique; and with one removal at a time the archives of        *)
(* completed uploads stay on disk and removed images stay hidden.          *)
(***************************************************************************)
EXTENDS ImageLibrary, SequenceTheorems, FiniteSetTheorems,
        FunctionTheorems, WellFoundedInduction, TLAPS

RowShape(r) == \E i, p, h, b : r = [id |-> i, path |-> p, hidden |-> h, by |-> b]

UploadRecord == [at : {"new", "receiving", "validating", "committed", "ended"},
                 names : BoundedSeq(Names, MaxFiles), dest : Seq(Paths),
                 finished : Nat, flushed : Nat]

\* What the argument needs of the types.
Shapes ==
    /\ \A r \in rows : RowShape(r)
    /\ upload \in [Uploads -> UploadRecord]
    /\ job \in [Uploads -> {None, "running", "completed", "failed"}]

Open == {"receiving", "validating", "committed"}

\* The states of a request and of its job go together.
JobFollows ==
    \A u \in Uploads :
        /\ upload[u].at = "new" => job[u] = None
        /\ upload[u].at \in Open => job[u] = "running"
        /\ job[u] \in {"completed", "failed"} => upload[u].at = "ended"

\* A request has renamed only to names that it has reserved, and has put its
\* data nowhere else.
DataReserved ==
    \A u \in Uploads :
        /\ upload[u].at = "new" => upload[u].dest = <<>>
        /\ upload[u].finished <= Len(upload[u].dest)
        /\ \A p \in DOMAIN disk :
              disk[p].by = u => p \in ToSet(upload[u].dest)

\* A request that has rows has committed them: it does not fail before.
RowsFollow ==
    \A r \in rows : r.by \in Uploads => upload[r.by].at \in {"committed", "ended"}

LibraryInvariant == /\ Shapes /\ JobFollows /\ DataReserved /\ RowsFollow
                    /\ FailedLeavesNoFile

(***************************************************************************)
(* What does not touch the requests and their jobs, adds no data to the    *)
(* directory, and leaves every row its inserter, keeps the invariant.      *)
(***************************************************************************)
LEMMA OthersKeep ==
    ASSUME LibraryInvariant, UNCHANGED <<upload, job>>,
           \A p \in DOMAIN disk' : p \in DOMAIN disk /\ disk'[p] = disk[p],
           \A r \in rows' : /\ RowShape(r)
                            /\ \/ r.by = None
                               \/ \E s \in rows : r.by = s.by
    PROVE  LibraryInvariant'
<1>1. Shapes' /\ JobFollows'
  BY DEF LibraryInvariant, Shapes, JobFollows
<1>2. DataReserved' /\ FailedLeavesNoFile'
  BY DEF LibraryInvariant, DataReserved, FailedLeavesNoFile
<1>3. RowsFollow'
  BY LibraryAssumption DEF LibraryInvariant, RowsFollow
<1>4. QED
  BY <1>1, <1>2, <1>3 DEF LibraryInvariant

(***************************************************************************)
(* One request changes its own record.                                     *)
(***************************************************************************)
LEMMA UploadTyped ==
    ASSUME LibraryInvariant, NEW u \in Uploads
    PROVE  /\ upload[u] \in UploadRecord
           /\ upload[u].dest \in Seq(Paths)
           /\ Len(upload[u].dest) \in Nat
           /\ DOMAIN upload[u].dest = 1..Len(upload[u].dest)
           /\ upload \in [Uploads -> UploadRecord]
           /\ job \in [Uploads -> {None, "running", "completed", "failed"}]
<1>1. /\ upload \in [Uploads -> UploadRecord]
      /\ job \in [Uploads -> {None, "running", "completed", "failed"}]
  BY DEF LibraryInvariant, Shapes
<1>2. upload[u] \in UploadRecord
  BY <1>1
<1>3. upload[u].dest \in Seq(Paths)
  BY <1>2 DEF UploadRecord
<1>4. QED
  BY <1>1, <1>2, <1>3, LenProperties

LEMMA BoundedTyped ==
    ASSUME NEW S, NEW n \in Nat
    PROVE  /\ <<>> \in BoundedSeq(S, n)
           /\ \A s \in BoundedSeq(S, n) : /\ s \in Seq(S) /\ Len(s) \in Nat
                                          /\ Len(s) <= n
<1>1. <<>> \in [1..0 -> S] /\ 0 \in 0..n
  OBVIOUS
<1>2. ASSUME NEW s \in BoundedSeq(S, n)
      PROVE  s \in Seq(S) /\ Len(s) \in Nat /\ Len(s) <= n
  <2>1. PICK m \in 0..n : s \in [1..m -> S]
    BY DEF BoundedSeq, SeqOf
  <2>2. s \in Seq(S) /\ m \in Nat
    BY <2>1, SeqDef
  <2>3. Len(s) \in Nat /\ 1..Len(s) = 1..m
    BY <2>1, <2>2, LenProperties
  <2>4. QED
    BY <2>2, <2>3
<1>3. QED
  BY <1>1, <1>2 DEF BoundedSeq, SeqOf

LEMMA NoUploadTyped ==
    /\ NoUpload \in UploadRecord
    /\ NoUpload.finished = 0 /\ NoUpload.dest = <<>>
<1>1. <<>> \in BoundedSeq(Names, MaxFiles) /\ <<>> \in Seq(Paths)
  BY BoundedTyped, EmptySeq, LibraryAssumption
<1>2. QED
  BY <1>1 DEF NoUpload, UploadRecord

LEMMA EndedTyped ==
    ASSUME LibraryInvariant, NEW u \in Uploads
    PROVE  /\ Ended(u) \in UploadRecord
           /\ Ended(u).at = "ended" /\ Ended(u).finished = 0
           /\ Ended(u).dest = upload[u].dest
<1> DEFINE d == upload[u].dest
<1>1. NoUpload \in UploadRecord /\ NoUpload.finished = 0
  BY NoUploadTyped
<1>2. d \in Seq(Paths) /\ Ended(u) = [NoUpload EXCEPT !.at = "ended", !.dest = d]
  BY UploadTyped DEF Ended
<1> HIDE DEF d
<1>3. [NoUpload EXCEPT !.at = "ended", !.dest = d] \in UploadRecord
  BY <1>1, <1>2 DEF UploadRecord
<1>4. /\ [NoUpload EXCEPT !.at = "ended", !.dest = d].at = "ended"
      /\ [NoUpload EXCEPT !.at = "ended", !.dest = d].finished = 0
      /\ [NoUpload EXCEPT !.at = "ended", !.dest = d].dest = d
  BY <1>1 DEF UploadRecord
<1>5. QED
  BY <1>2, <1>3, <1>4 DEF d

LEMMA OwnStepKeeps ==
    ASSUME LibraryInvariant, NEW u \in Uploads, NEW new \in UploadRecord,
           upload' = [upload EXCEPT ![u] = new],
           upload[u].at \in {"receiving", "validating"},
           new.at \in {"receiving", "validating"},
           new.finished <= Len(new.dest),
           ToSet(upload[u].dest) \subseteq ToSet(new.dest),
           \A p \in DOMAIN disk' :
              \/ p \in DOMAIN disk /\ disk'[p] = disk[p]
              \/ disk'[p].by = u /\ p \in ToSet(new.dest),
           UNCHANGED <<rows, job>>
    PROVE  LibraryInvariant'
<1>1. /\ upload' \in [Uploads -> UploadRecord] /\ upload'[u] = new
      /\ \A w \in Uploads \ {u} : upload'[w] = upload[w]
  BY UploadTyped
<1>2. Shapes'
  BY <1>1 DEF LibraryInvariant, Shapes
<1>3. job[u] = "running" /\ \A r \in rows : r.by # u
  BY DEF LibraryInvariant, JobFollows, RowsFollow, Open
<1>4. JobFollows' /\ RowsFollow'
  BY <1>1, <1>3 DEF LibraryInvariant, JobFollows, RowsFollow, Open
<1>5. DataReserved'
  <2>1. ASSUME NEW w \in Uploads
        PROVE  /\ upload'[w].at = "new" => upload'[w].dest = <<>>
               /\ upload'[w].finished <= Len(upload'[w].dest)
               /\ \A p \in DOMAIN disk' :
                     disk'[p].by = w => p \in ToSet(upload'[w].dest)
    <3>1. CASE w = u
      BY <1>1, <3>1 DEF LibraryInvariant, DataReserved
    <3>2. CASE w # u
      BY <1>1, <3>2 DEF LibraryInvariant, DataReserved
    <3>3. QED
      BY <3>1, <3>2
  <2>2. QED
    BY <2>1 DEF DataReserved
<1>6. FailedLeavesNoFile'
  BY <1>3 DEF LibraryInvariant, FailedLeavesNoFile
<1>7. QED
  BY <1>2, <1>4, <1>5, <1>6 DEF LibraryInvariant

(***************************************************************************)
(* A request starts.                                                       *)
(***************************************************************************)
LEMMA BeginKeeps ==
    ASSUME LibraryInvariant, NEW u \in Uploads,
           NEW names \in BoundedSeq(Names, MaxFiles), BeginUpload(u, names)
    PROVE  LibraryInvariant'
<1> DEFINE new == [NoUpload EXCEPT !.at = "receiving", !.names = names]
<1>1. upload' = [upload EXCEPT ![u] = new]
  BY DEF BeginUpload
<1>2. new \in UploadRecord
  BY NoUploadTyped DEF UploadRecord
<1>3. /\ new.at = "receiving" /\ new.finished = 0 /\ new.dest = <<>>
      /\ Len(new.dest) = 0
  BY NoUploadTyped, EmptySeq DEF UploadRecord
<1> HIDE DEF new
<1>4. /\ upload[u].at = "new" /\ job' = [job EXCEPT ![u] = "running"]
      /\ UNCHANGED <<disk, rows>>
  BY DEF BeginUpload
<1>5. /\ upload' \in [Uploads -> UploadRecord] /\ upload'[u] = new
      /\ \A w \in Uploads \ {u} : upload'[w] = upload[w]
      /\ job' \in [Uploads -> {None, "running", "completed", "failed"}]
      /\ job'[u] = "running"
      /\ \A w \in Uploads \ {u} : job'[w] = job[w]
  BY <1>1, <1>2, <1>4, UploadTyped
<1>6. \A r \in rows : r.by # u
  BY <1>4 DEF LibraryInvariant, RowsFollow
<1>7. Shapes'
  BY <1>4, <1>5 DEF LibraryInvariant, Shapes
<1>8. JobFollows' /\ RowsFollow'
  BY <1>3, <1>4, <1>5, <1>6 DEF LibraryInvariant, JobFollows, RowsFollow, Open
<1>9. FailedLeavesNoFile'
  BY <1>4, <1>5 DEF LibraryInvariant, FailedLeavesNoFile
<1>10. DataReserved'
  BY <1>3, <1>4, <1>5 DEF LibraryInvariant, DataReserved
<1>11. QED
  BY <1>7, <1>8, <1>9, <1>10 DEF LibraryInvariant

(***************************************************************************)
(* A request receives, and inserts.                                        *)
(***************************************************************************)
LEMMA AppendedTo ==
    ASSUME NEW s \in Seq(Paths), NEW p \in Paths
    PROVE  /\ Append(s, p) \in Seq(Paths)
           /\ Len(Append(s, p)) = Len(s) + 1
           /\ ToSet(s) \subseteq ToSet(Append(s, p))
<1>1. /\ Append(s, p) \in Seq(Paths) /\ Len(Append(s, p)) = Len(s) + 1
      /\ \A i \in 1..Len(s) : Append(s, p)[i] = s[i]
      /\ Len(s) \in Nat /\ DOMAIN s = 1..Len(s)
  BY AppendProperties, LenProperties
<1>2. DOMAIN Append(s, p) = 1..(Len(s) + 1)
  BY <1>1, LenProperties
<1>3. QED
  BY <1>1, <1>2 DEF ToSet

LEMMA HeadersKeep ==
    ASSUME LibraryInvariant, NEW u \in Uploads, OnHeadersFinished(u)
    PROVE  LibraryInvariant'
<1> DEFINE i == Len(upload[u].dest) + 1
           p == Destination(u, upload[u].names[i], i)
           d == Append(upload[u].dest, p)
           new == [upload[u] EXCEPT !.dest = d]
<1>1. /\ upload[u].at = "receiving" /\ i <= Len(upload[u].names)
      /\ upload' = [upload EXCEPT ![u] = new]
      /\ UNCHANGED <<disk, rows, job>>
  BY UploadTyped DEF OnHeadersFinished
<1>2. p \in Paths
  <2>1. upload[u].names \in Seq(Names) /\ Len(upload[u].names) <= MaxFiles
        /\ Len(upload[u].names) \in Nat
    BY UploadTyped, BoundedTyped, LibraryAssumption DEF UploadRecord
  <2>2. i \in 1..Len(upload[u].names) /\ i \in Nat
    BY <1>1, <2>1, UploadTyped, LenProperties
  <2>3. PICK n \in Names : n = upload[u].names[i]
    BY <2>1, <2>2, ElementOfSeq
  <2>4. i \in 1..MaxFiles
    BY <2>1, <2>2, LibraryAssumption
  <2>5. QED
    BY <2>3, <2>4 DEF Destination, Paths
<1> HIDE DEF p
<1>3. /\ d \in Seq(Paths) /\ Len(d) = Len(upload[u].dest) + 1
      /\ ToSet(upload[u].dest) \subseteq ToSet(d)
  BY <1>2, UploadTyped, AppendedTo
<1> HIDE DEF d
<1>4. new \in UploadRecord
  BY <1>3, UploadTyped DEF UploadRecord
<1>5. /\ new.at = "receiving" /\ new.dest = d
      /\ new.finished = upload[u].finished /\ new.finished \in Nat
  BY <1>1, UploadTyped DEF UploadRecord
<1>6. new.finished <= Len(new.dest)
  BY <1>3, <1>5, UploadTyped DEF LibraryInvariant, DataReserved
<1> HIDE DEF new
<1>7. QED
  BY <1>1, <1>3, <1>4, <1>5, <1>6, OwnStepKeeps

LEMMA FinishKeeps ==
    ASSUME LibraryInvariant, NEW u \in Uploads, Finish(u)
    PROVE  LibraryInvariant'
<1> DEFINE i == upload[u].finished + 1
           new == [upload[u] EXCEPT !.finished = i]
           q == upload[u].dest[i]
<1>1. /\ upload[u].at = "receiving" /\ i <= Len(upload[u].dest)
      /\ disk' = Holding(q, [by |-> u, index |-> i])
      /\ upload' = [upload EXCEPT ![u] = new]
      /\ UNCHANGED <<rows, job>>
  BY DEF Finish
<1>2. i \in Nat /\ i \in 1..Len(upload[u].dest)
  BY <1>1, UploadTyped DEF UploadRecord
<1> HIDE DEF i
<1>3. new \in UploadRecord
  BY <1>2, UploadTyped DEF UploadRecord
<1>4. /\ new.at = "receiving" /\ new.dest = upload[u].dest
      /\ new.finished = i
  BY <1>1, UploadTyped DEF UploadRecord
<1> HIDE DEF new
<1>5. q \in ToSet(new.dest)
  BY <1>2, <1>4, UploadTyped DEF ToSet
<1>6. \A p \in DOMAIN disk' :
          \/ p \in DOMAIN disk /\ disk'[p] = disk[p]
          \/ disk'[p].by = u /\ p \in ToSet(new.dest)
  BY <1>1, <1>5 DEF Holding
<1>7. QED
  BY <1>1, <1>2, <1>3, <1>4, <1>6, OwnStepKeeps

LEMMA PlainStepKeeps ==
    ASSUME LibraryInvariant, NEW u \in Uploads, StreamEnds(u) \/ InsertRow(u)
    PROVE  LibraryInvariant'
<1>1. PICK new \in UploadRecord :
         /\ upload' = [upload EXCEPT ![u] = new]
         /\ new.at = "validating" /\ new.dest = upload[u].dest
         /\ new.finished = upload[u].finished
  <2>1. CASE StreamEnds(u)
    <3> DEFINE r == [upload[u] EXCEPT !.at = "validating"]
    <3>1. r \in UploadRecord /\ upload' = [upload EXCEPT ![u] = r]
      BY <2>1, UploadTyped DEF StreamEnds, UploadRecord
    <3>2. /\ r.at = "validating" /\ r.dest = upload[u].dest
          /\ r.finished = upload[u].finished
      BY UploadTyped DEF UploadRecord
    <3>3. QED
      BY <3>1, <3>2
  <2>2. CASE InsertRow(u)
    <3> DEFINE k == upload[u].flushed + 1
               r == [upload[u] EXCEPT !.flushed = k]
    <3>1. k \in Nat /\ upload' = [upload EXCEPT ![u] = r]
      BY <2>2, UploadTyped DEF InsertRow, UploadRecord
    <3> HIDE DEF k
    <3>2. r \in UploadRecord /\ upload' = [upload EXCEPT ![u] = r]
      BY <3>1, UploadTyped DEF UploadRecord
    <3>3. /\ r.at = "validating" /\ r.dest = upload[u].dest
          /\ r.finished = upload[u].finished
      BY <2>2, UploadTyped DEF InsertRow, CanInsert, UploadRecord
    <3>4. QED
      BY <3>2, <3>3
  <2>3. QED
    BY <2>1, <2>2
<1>2. /\ upload[u].at \in {"receiving", "validating"}
      /\ UNCHANGED <<disk, rows, job>>
  BY DEF StreamEnds, InsertRow, CanInsert
<1>3. new.finished <= Len(new.dest)
  BY <1>1 DEF LibraryInvariant, DataReserved
<1>4. QED
  BY <1>1, <1>2, <1>3, OwnStepKeeps

(***************************************************************************)
(* A request ends.                                                         *)
(***************************************************************************)
LEMMA LastRowKeeps ==
    ASSUME LibraryInvariant, NEW u \in Uploads, InsertLastRow(u)
    PROVE  LibraryInvariant'
<1> DEFINE new == [upload[u] EXCEPT !.at = "committed", !.flushed = 0]
<1>1. /\ upload[u].at = "validating"
      /\ rows' = Inserted(upload[u].dest, u)
      /\ upload' = [upload EXCEPT ![u] = new]
      /\ UNCHANGED <<disk, job>>
  BY UploadTyped DEF InsertLastRow, CanInsert
<1>2. /\ new \in UploadRecord /\ new.at = "committed"
      /\ new.dest = upload[u].dest /\ new.finished = upload[u].finished
  BY UploadTyped DEF UploadRecord
<1> HIDE DEF new
<1>3. /\ upload' \in [Uploads -> UploadRecord] /\ upload'[u] = new
      /\ \A w \in Uploads \ {u} : upload'[w] = upload[w]
      /\ job[u] = "running"
  BY <1>1, <1>2, UploadTyped DEF LibraryInvariant, JobFollows, Open
<1>4. \A r \in rows' : RowShape(r) /\ (r \in rows \/ r.by = u)
  BY <1>1 DEF Inserted, RowShape, LibraryInvariant, Shapes
<1>5. Shapes'
  BY <1>1, <1>3, <1>4 DEF LibraryInvariant, Shapes
<1>6. JobFollows' /\ RowsFollow'
  BY <1>1, <1>2, <1>3, <1>4 DEF LibraryInvariant, JobFollows, RowsFollow, Open
<1>7. FailedLeavesNoFile'
  BY <1>1 DEF LibraryInvariant, FailedLeavesNoFile
<1>8. DataReserved'
  BY <1>1, <1>2, <1>3 DEF LibraryInvariant, DataReserved
<1>9. QED
  BY <1>5, <1>6, <1>7, <1>8 DEF LibraryInvariant

LEMMA EndKeeps ==
    ASSUME LibraryInvariant, NEW u \in Uploads,
           FailUpload(u) \/ CompletionFails(u) \/ CompleteJob(u)
    PROVE  LibraryInvariant'
<1>1. /\ upload[u].at \in Open
      /\ upload' = [upload EXCEPT ![u] = Ended(u)]
      /\ UNCHANGED rows
      /\ \/ /\ disk' = Without(ToSet(upload[u].dest))
            /\ job' = [job EXCEPT ![u] = "failed"] \/ job' = job
         \/ disk' = disk /\ job' = [job EXCEPT ![u] = "completed"]
  BY DEF FailUpload, CompletionFails, CompleteJob, UnlinkedBy, JobFails, Open
<1>2. /\ upload' \in [Uploads -> UploadRecord] /\ upload'[u] = Ended(u)
      /\ \A w \in Uploads \ {u} : upload'[w] = upload[w]
  BY <1>1, UploadTyped, EndedTyped
<1>3. job[u] = "running"
  BY <1>1 DEF LibraryInvariant, JobFollows
<1>4. /\ job' \in [Uploads -> {None, "running", "completed", "failed"}]
      /\ job'[u] \in {"running", "completed", "failed"}
      /\ \A w \in Uploads \ {u} : job'[w] = job[w]
  BY <1>1, <1>3, UploadTyped
<1>5. /\ \A p \in DOMAIN disk' : p \in DOMAIN disk /\ disk'[p] = disk[p]
      /\ job'[u] = "failed" => \A p \in DOMAIN disk' : disk'[p].by # u
  BY <1>1, <1>3, UploadTyped DEF Without, LibraryInvariant, DataReserved
<1>6. Shapes'
  BY <1>1, <1>2, <1>4 DEF LibraryInvariant, Shapes
<1>7. JobFollows' /\ RowsFollow'
  BY <1>1, <1>2, <1>4, EndedTyped
  DEF LibraryInvariant, JobFollows, RowsFollow, Open
<1>8. FailedLeavesNoFile'
  BY <1>4, <1>5 DEF LibraryInvariant, FailedLeavesNoFile
<1>9. DataReserved'
  BY <1>2, <1>5, EndedTyped, UploadTyped DEF LibraryInvariant, DataReserved
<1>10. QED
  BY <1>6, <1>7, <1>8, <1>9 DEF LibraryInvariant

LEMMA CrashKeeps ==
    ASSUME LibraryInvariant, Crash
    PROVE  LibraryInvariant'
<1>1. UNCHANGED <<disk, rows, job>>
  BY DEF Crash
<1>2. \A w \in Uploads :
          /\ upload'[w] \in UploadRecord
          /\ upload'[w] = upload[w] \/ upload'[w] = Ended(w)
          /\ upload[w].at \in Open => upload'[w].at = "ended"
          /\ upload'[w].dest = upload[w].dest
  BY UploadTyped, EndedTyped DEF Crash, Open
<1>3. upload' \in [Uploads -> UploadRecord]
  BY <1>2 DEF Crash
<1>5. Shapes'
  BY <1>1, <1>3 DEF LibraryInvariant, Shapes
<1>6. JobFollows'
  <2>1. ASSUME NEW w \in Uploads
        PROVE  /\ upload'[w].at = "new" => job[w] = None
               /\ upload'[w].at \in Open => FALSE
               /\ job[w] \in {"completed", "failed"} => upload'[w].at = "ended"
    BY <1>2, EndedTyped, UploadTyped
    DEF LibraryInvariant, JobFollows, UploadRecord, Open
  <2>2. QED
    BY <1>1, <2>1 DEF JobFollows
<1>7. RowsFollow' /\ FailedLeavesNoFile'
  BY <1>1, <1>2, EndedTyped
  DEF LibraryInvariant, RowsFollow, FailedLeavesNoFile
<1>8. DataReserved'
  <2>1. ASSUME NEW w \in Uploads
        PROVE  /\ upload'[w].at = "new" => upload'[w].dest = <<>>
               /\ upload'[w].finished <= Len(upload'[w].dest)
    BY <1>2, EndedTyped, UploadTyped DEF LibraryInvariant, DataReserved
  <2>2. QED
    BY <1>1, <1>2, <2>1 DEF LibraryInvariant, DataReserved
<1>9. QED
  BY <1>5, <1>6, <1>7, <1>8 DEF LibraryInvariant

(***************************************************************************)
(* Discovery, removal and restoration.                                     *)
(***************************************************************************)
LEMMA HiddenShape ==
    ASSUME NEW r, RowShape(r), NEW h
    PROVE  /\ RowShape([r EXCEPT !.hidden = h])
           /\ [r EXCEPT !.hidden = h].by = r.by
<1>1. PICK i, p, old, b :
         r = [id |-> i, path |-> p, hidden |-> old, by |-> b]
  BY DEF RowShape
<1>2. [r EXCEPT !.hidden = h] = [id |-> i, path |-> p, hidden |-> h, by |-> b]
  BY <1>1
<1>3. RowShape([r EXCEPT !.hidden = h])
  BY <1>2 DEF RowShape
<1>4. QED
  BY <1>1, <1>2, <1>3

LEMMA DiscoveryKeeps ==
    ASSUME LibraryInvariant, DiscoveryStep
    PROVE  LibraryInvariant'
<1>1. UNCHANGED <<disk, upload, job>>
  BY DEF DiscoveryStep, DiscoverReads, DiscoverWalks, DiscoverCommits,
         DiscoverFails
<1>2. \/ rows' = rows
      \/ rows' = Inserted(SetToSeq(discovery.new), None)
  BY DEF DiscoveryStep, DiscoverReads, DiscoverWalks, DiscoverCommits,
         DiscoverFails, RowsFound
<1>3. \A r \in rows' : RowShape(r) /\ (r \in rows \/ r.by = None)
  BY <1>2 DEF Inserted, RowShape, LibraryInvariant, Shapes
<1>4. QED
  BY <1>1, <1>3, OthersKeep

LEMMA RemovalKeeps ==
    ASSUME LibraryInvariant, NEW t \in Removers,
           \/ \E r \in rows : RemovalReads(t, r)
           \/ RemovalUnlinks(t)
           \/ RemovalCommits(t)
           \/ RemovalFails(t)
    PROVE  LibraryInvariant'
<1>1. UNCHANGED <<upload, job>>
  BY DEF RemovalReads, RemovalUnlinks, RemovalCommits, RemovalFails
<1>2. \A p \in DOMAIN disk' : p \in DOMAIN disk /\ disk'[p] = disk[p]
  BY DEF RemovalReads, RemovalUnlinks, RemovalCommits, RemovalFails, Without
<1>3. rows' = rows \/ rows' = RowsAfterRemoval(removal[t].row)
  BY DEF RemovalReads, RemovalUnlinks, RemovalCommits, RemovalFails
<1>4. ASSUME NEW r \in rows'
      PROVE  RowShape(r) /\ \E s \in rows : r.by = s.by
  <2>1. CASE r \in rows
    BY <2>1 DEF LibraryInvariant, Shapes
  <2>2. CASE r \notin rows
    <3>1. PICK s \in rows : r = [s EXCEPT !.hidden = TRUE]
      BY <1>3, <2>2 DEF RowsAfterRemoval
    <3>2. RowShape(s)
      BY DEF LibraryInvariant, Shapes
    <3>3. QED
      BY <3>1, <3>2, HiddenShape
  <2>3. QED
    BY <2>1, <2>2
<1>5. QED
  BY <1>1, <1>2, <1>4, OthersKeep

LEMMA RestoreKeeps ==
    ASSUME LibraryInvariant, NEW r \in rows, RestoreImage(r)
    PROVE  LibraryInvariant'
<1>1. /\ rows' = (rows \ {r}) \cup {[r EXCEPT !.hidden = FALSE]}
      /\ UNCHANGED <<disk, upload, job>>
  BY DEF RestoreImage
<1>2. \A s \in rows : RowShape(s)
  BY DEF LibraryInvariant, Shapes
<1>3. /\ RowShape([r EXCEPT !.hidden = FALSE])
      /\ [r EXCEPT !.hidden = FALSE].by = r.by
  BY <1>2, HiddenShape
<1>4. \A s \in rows' : RowShape(s) /\ \E x \in rows : s.by = x.by
  BY <1>1, <1>2, <1>3
<1>5. QED
  BY <1>1, <1>4, OthersKeep

(***************************************************************************)
(* The invariant holds.                                                    *)
(***************************************************************************)
LEMMA InitHolds == Init => LibraryInvariant
<1>1. SUFFICES ASSUME Init
               PROVE  LibraryInvariant
  OBVIOUS
<1>2. /\ rows = {}
      /\ upload = [u \in Uploads |-> NoUpload]
      /\ job = [u \in Uploads |-> None]
      /\ disk = [p \in {Base(m) : m \in Mounted} |-> MountedFile]
  BY <1>1 DEF Init
<1>3. upload \in [Uploads -> UploadRecord]
  BY <1>2, NoUploadTyped
<1>4. Shapes
  BY <1>2, <1>3 DEF Shapes
<1>5. \A u \in Uploads : upload[u].at = "new" /\ upload[u].dest = <<>>
                         /\ upload[u].finished = 0
  BY <1>2 DEF NoUpload
<1>6. \A p \in DOMAIN disk : disk[p].by \notin Uploads
  BY <1>2, LibraryAssumption DEF MountedFile
<1>7. JobFollows /\ RowsFollow /\ FailedLeavesNoFile
  BY <1>2, <1>5, <1>6, LibraryAssumption
  DEF JobFollows, RowsFollow, FailedLeavesNoFile, Open
<1>8. DataReserved
  BY <1>5, <1>6, EmptySeq DEF DataReserved
<1>9. QED
  BY <1>4, <1>7, <1>8 DEF LibraryInvariant

LEMMA NextKeeps == LibraryInvariant /\ [Next]_vars => LibraryInvariant'
<1>1. SUFFICES ASSUME LibraryInvariant, [Next]_vars
               PROVE  LibraryInvariant'
  OBVIOUS
<1>2. CASE UNCHANGED vars
  <2>1. UNCHANGED <<disk, rows, upload, job>>
    BY <1>2 DEF vars
  <2>2. \A r \in rows : RowShape(r)
    BY <1>1 DEF LibraryInvariant, Shapes
  <2>3. QED
    BY <1>1, <2>1, <2>2, OthersKeep
<1>3. ASSUME NEW u \in Uploads, NEW names \in BoundedSeq(Names, MaxFiles),
             BeginUpload(u, names)
      PROVE  LibraryInvariant'
  BY <1>1, <1>3, BeginKeeps
<1>4. ASSUME NEW u \in Uploads, UploadStep(u)
      PROVE  LibraryInvariant'
  BY <1>1, <1>4, HeadersKeep, FinishKeeps, PlainStepKeeps, LastRowKeeps,
     EndKeeps DEF UploadStep
<1>5. ASSUME NEW t \in Removers, \/ \E r \in rows : RemovalReads(t, r)
                                 \/ RemovalUnlinks(t)
                                 \/ RemovalCommits(t)
                                 \/ RemovalFails(t)
      PROVE  LibraryInvariant'
  BY <1>1, <1>5, RemovalKeeps
<1>6. ASSUME NEW r \in rows, RestoreImage(r)
      PROVE  LibraryInvariant'
  BY <1>1, <1>6, RestoreKeeps
<1>7. CASE DiscoveryStep \/ Crash
  BY <1>1, <1>7, DiscoveryKeeps, CrashKeeps
<1>8. QED
  BY <1>1, <1>2, <1>3, <1>4, <1>5, <1>6, <1>7 DEF Next

\* The inductive invariant of the image archives.
THEOREM LibraryInductive == Spec => []LibraryInvariant
<1>1. QED
  BY InitHolds, NextKeeps, PTL DEF Spec

\* A failed upload has left no file of its data under any name, whatever other
\* uploads of its names, discovery, removals and crashes did, and also when it
\* failed after its rows were committed.
THEOREM FailureLeavesNoFile == Spec => []FailedLeavesNoFile
<1>1. LibraryInvariant => FailedLeavesNoFile
  BY DEF LibraryInvariant
<1>2. QED
  BY <1>1, LibraryInductive, PTL

-------------------------------------------------------------------------------
(* Types *)

DiskTyped == /\ DOMAIN disk \subseteq Paths
             /\ \A p \in DOMAIN disk : disk[p] \in Content
             /\ IsFiniteSet(DOMAIN disk)

RowsDistinct == \A r, s \in rows : r.id = s.id \/ r.path = s.path => r = s

\* A request's destinations are names of its own directory, all different: the
\* random suffix tells one archive of one request from every other.
OwnDest(u, d) ==
    /\ \A i \in 1..Len(d) :
          /\ d[i].name \in Names
          /\ d[i].suffix = None \/ \E j \in 1..Len(d) : d[i].suffix = <<u, j>>
    /\ \A i, j \in 1..Len(d) : d[i] = d[j] => i = j
OwnNames == \A u \in Uploads : OwnDest(u, upload[u].dest)

\* A request with flushed rows holds the write lock, and no committed row has
\* got one of their paths meanwhile.  TypeOK needs it: the paths of the flushed
\* rows are not checked again at the commit.
HeldRowsFree ==
    \A u \in Uploads :
        upload[u].flushed > 0 =>
            /\ holder = u
            /\ upload[u].at = "validating"
            /\ upload[u].flushed <= Len(upload[u].dest)
            /\ \A i \in 1..upload[u].flushed :
                  upload[u].dest[i] \notin PathsOf(rows)

DiscoveryTyped ==
    /\ discovery.at \in {Idle, "walk", "insert"}
    /\ discovery.at = "insert" =>
          discovery.new \subseteq Paths /\ IsFiniteSet(discovery.new)

RemovalTyped ==
    /\ removal \in [Removers -> [at : {Idle, "checked", "unlinked"},
                                row : Row \cup {None}]]
    /\ \A t \in Removers : removal[t].at # Idle => removal[t].row \in Row

OthersTyped == /\ job \in [Uploads -> {None, "running", "completed", "failed"}]
               /\ holder \in Uploads \cup {None}
               /\ torn \subseteq Row
               /\ crashes \in 0..MaxCrashes

TypesInvariant == /\ DiskTyped
                  /\ rows \subseteq Row /\ RowsDistinct
                  /\ upload \in [Uploads -> Upload] /\ OwnNames
                  /\ HeldRowsFree
                  /\ DiscoveryTyped /\ RemovalTyped /\ OthersTyped

(***************************************************************************)
(* Which steps change what.                                                *)
(***************************************************************************)
LEMMA DiskWriters ==
    ASSUME [Next]_vars
    PROVE  \/ UNCHANGED disk
           \/ \E u \in Uploads : Finish(u) \/ FailUpload(u) \/ CompletionFails(u)
           \/ \E t \in Removers : RemovalUnlinks(t)
BY DEF Next, vars, BeginUpload, UploadStep, OnHeadersFinished, StreamEnds,
       InsertRow, InsertLastRow, CompleteJob, DiscoveryStep, DiscoverReads,
       DiscoverWalks, DiscoverCommits, DiscoverFails, RemovalReads,
       RemovalCommits, RemovalFails, RestoreImage, Crash

LEMMA RowsWriters ==
    ASSUME [Next]_vars
    PROVE  \/ UNCHANGED rows
           \/ \E u \in Uploads : InsertLastRow(u)
           \/ DiscoverCommits
           \/ \E t \in Removers : RemovalCommits(t)
           \/ \E r \in rows : RestoreImage(r)
BY DEF Next, vars, BeginUpload, UploadStep, OnHeadersFinished, Finish,
       StreamEnds, InsertRow, CompleteJob, FailUpload, CompletionFails,
       DiscoveryStep, DiscoverReads, DiscoverWalks, DiscoverFails,
       RemovalReads, RemovalUnlinks, RemovalFails, Crash

LEMMA UploadWriters ==
    ASSUME [Next]_vars
    PROVE  \/ UNCHANGED <<upload, job, holder>>
           \/ \E u \in Uploads :
                 \/ \E names \in BoundedSeq(Names, MaxFiles) :
                       BeginUpload(u, names)
                 \/ UploadStep(u)
           \/ Crash
BY DEF Next, vars, DiscoveryStep, DiscoverReads, DiscoverWalks,
       DiscoverCommits, DiscoverFails, RemovalReads, RemovalUnlinks,
       RemovalCommits, RemovalFails, RestoreImage

(***************************************************************************)
(* Operators: sequences of paths, the highest row id, the rows inserted.   *)
(***************************************************************************)
LEMMA InBounded ==
    ASSUME NEW S, NEW s \in Seq(S), Len(s) <= MaxFiles
    PROVE  s \in BoundedSeq(S, MaxFiles)
<1>1. Len(s) \in 0..MaxFiles /\ s \in [1..Len(s) -> S]
  BY LenProperties, LibraryAssumption
<1>2. QED
  BY <1>1 DEF BoundedSeq, SeqOf

LEMMA LastIdBounds ==
    ASSUME rows \subseteq Row
    PROVE  /\ LastId(rows) \in 0..MaxRows
           /\ \A r \in rows : r.id \in 1..LastId(rows)
<1>0. MaxRows \in Nat
  BY LibraryAssumption
<1>1. CASE rows = {}
  BY <1>0, <1>1 DEF LastId
<1>2. CASE rows # {}
  <2> DEFINE Left == {MaxRows - r.id : r \in rows}
             Highest(n) == \A r \in rows : r.id <= n
  <2>1. \A r \in rows : r.id \in 1..MaxRows
    BY DEF Row
  <2>2. Left \subseteq Nat /\ Left # {}
    BY <1>0, <1>2, <2>1
  <2>3. PICK x \in Left : \A y \in Left : ~(<<y, x>> \in OpToRel(<, Nat))
    <3> HIDE DEF Left
    <3>1. QED
      BY <2>2, NatLessThanWellFounded, WFMin
  <2>4. \A y \in Left : ~(y < x)
    BY <2>2, <2>3 DEF OpToRel
  <2>5. PICK s \in rows : x = MaxRows - s.id
    BY <2>3
  <2>6. Highest(s.id)
    <3> SUFFICES ASSUME NEW r \in rows PROVE r.id <= s.id
      OBVIOUS
    <3>1. ~(MaxRows - r.id < MaxRows - s.id)
      BY <2>4, <2>5
    <3>2. QED
      BY <1>0, <2>1, <3>1
  <2>7. LastId(rows) = CHOOSE n \in {r.id : r \in rows} : Highest(n)
    BY <1>2 DEF LastId
  <2> HIDE DEF Highest
  <2>8. LastId(rows) \in {r.id : r \in rows} /\ Highest(LastId(rows))
    BY <2>6, <2>7
  <2>9. QED
    BY <1>0, <2>1, <2>8 DEF Highest
<1>3. QED
  BY <1>1, <1>2

\* Rows for new and different paths keep ids and paths unique.
LEMMA InsertedTyped ==
    ASSUME rows \subseteq Row, RowsDistinct,
           NEW n \in Nat, NEW ps, DOMAIN ps = 1..n,
           \A i \in 1..n : ps[i] \in Paths \ PathsOf(rows),
           \A i, j \in 1..n : ps[i] = ps[j] => i = j,
           RoomFor(n), NEW b \in Uploads \cup {None}
    PROVE  /\ Inserted(ps, b) \subseteq Row
           /\ \A r, s \in Inserted(ps, b) :
                 r.id = s.id \/ r.path = s.path => r = s
<1> DEFINE last == LastId(rows)
           new(i) == [id |-> last + i, path |-> ps[i], hidden |-> FALSE,
                      by |-> b]
<1>1. /\ last \in Nat
      /\ last + n <= MaxRows
      /\ \A r \in rows : r.id \in 1..last
      /\ MaxRows \in Nat
  BY LastIdBounds, LibraryAssumption DEF RoomFor
<1>2. Inserted(ps, b) = rows \cup {new(i) : i \in 1..n}
  BY DEF Inserted
<1> HIDE DEF last
<1>3. \A i \in 1..n : new(i) \in Row
  BY <1>1 DEF Row
<1>4. \A i \in 1..n : /\ new(i).id = last + i
                      /\ new(i).path = ps[i]
                      /\ ps[i] \notin PathsOf(rows)
  OBVIOUS
<1>5. \A r \in rows, i \in 1..n : r.id # new(i).id /\ r.path # new(i).path
  BY <1>1, <1>4 DEF PathsOf
<1>6. \A i, j \in 1..n :
          new(i).id = new(j).id \/ new(i).path = new(j).path => i = j
  BY <1>1, <1>4
<1> HIDE DEF new
<1>7. \A r, s \in Inserted(ps, b) : r.id = s.id \/ r.path = s.path => r = s
  BY <1>2, <1>5, <1>6 DEF RowsDistinct
<1>8. QED
  BY <1>2, <1>3, <1>7

LEMMA SetToSeqTyped ==
    ASSUME NEW S, IsFiniteSet(S)
    PROVE  /\ Cardinality(S) \in Nat
           /\ DOMAIN SetToSeq(S) = 1..Cardinality(S)
           /\ \A i \in 1..Cardinality(S) : SetToSeq(S)[i] \in S
           /\ \A i, j \in 1..Cardinality(S) :
                 SetToSeq(S)[i] = SetToSeq(S)[j] => i = j
<1>1. /\ Cardinality(S) \in Nat
      /\ \E f \in [1..Cardinality(S) -> S] : IsInjective(f)
  BY FS_CardinalityType DEF ExistsBijection, Bijection, Injection
<1>2. /\ SetToSeq(S) \in [1..Cardinality(S) -> S]
      /\ IsInjective(SetToSeq(S))
  BY <1>1 DEF SetToSeq
<1>3. QED
  BY <1>1, <1>2 DEF IsInjective

\* A request's own fields.
LEMMA RequestTyped ==
    ASSUME TypesInvariant, NEW u \in Uploads
    PROVE  /\ upload[u] \in Upload
           /\ upload[u].names \in Seq(Names)
           /\ Len(upload[u].names) \in 0..MaxFiles
           /\ upload[u].dest \in Seq(Paths)
           /\ Len(upload[u].dest) \in 0..MaxFiles
           /\ DOMAIN upload[u].dest = 1..Len(upload[u].dest)
           /\ \A i \in 1..Len(upload[u].dest) : upload[u].dest[i] \in Paths
           /\ OwnDest(u, upload[u].dest)
           /\ upload[u].finished \in 0..MaxFiles
           /\ upload[u].flushed \in 0..MaxFiles
<1>1. upload[u] \in Upload
  BY DEF TypesInvariant
<1>2. /\ upload[u].names \in BoundedSeq(Names, MaxFiles)
      /\ upload[u].dest \in BoundedSeq(Paths, MaxFiles)
      /\ upload[u].finished \in 0..MaxFiles
      /\ upload[u].flushed \in 0..MaxFiles
  BY <1>1 DEF Upload
<1>3. MaxFiles \in Nat
  BY LibraryAssumption
<1>4. /\ upload[u].names \in Seq(Names) /\ upload[u].dest \in Seq(Paths)
      /\ Len(upload[u].names) \in 0..MaxFiles
      /\ Len(upload[u].dest) \in 0..MaxFiles
  BY <1>2, <1>3, BoundedTyped
<1>5. OwnDest(u, upload[u].dest)
  BY DEF TypesInvariant, OwnNames
<1>6. QED
  BY <1>1, <1>2, <1>4, <1>5, LenProperties, ElementOfSeq

(***************************************************************************)
(* Every step keeps the disk typed and finite.                             *)
(***************************************************************************)
LEMMA DiskStaysTyped == TypesInvariant /\ [Next]_vars => DiskTyped'
<1> SUFFICES ASSUME TypesInvariant, [Next]_vars PROVE DiskTyped'
  OBVIOUS
<1>1. DiskTyped
  BY DEF TypesInvariant
<1>2. CASE UNCHANGED disk
  BY <1>1, <1>2 DEF DiskTyped
<1>3. ASSUME NEW u \in Uploads, Finish(u) PROVE DiskTyped'
  <2> DEFINE i == upload[u].finished + 1
             q == upload[u].dest[i]
             c == [by |-> u, index |-> i]
  <2>1. i \in 1..Len(upload[u].dest) /\ disk' = Holding(q, c)
    BY <1>3, RequestTyped DEF Finish
  <2>2. q \in Paths /\ i \in 0..MaxFiles
    BY <2>1, RequestTyped, LibraryAssumption
  <2>3. c \in Content
    BY <2>2 DEF Content
  <2> HIDE DEF c, q
  <2>4. IsFiniteSet(DOMAIN disk \cup {q})
    BY <1>1, FS_AddElement DEF DiskTyped
  <2>5. QED
    BY <1>1, <2>1, <2>2, <2>3, <2>4 DEF Holding, DiskTyped
<1>4. ASSUME NEW ps, disk' = Without(ps) PROVE DiskTyped'
  <2>1. DOMAIN disk' \in SUBSET (DOMAIN disk)
    BY <1>4 DEF Without
  <2>2. IsFiniteSet(DOMAIN disk')
    BY <1>1, <2>1, FS_Subset DEF DiskTyped
  <2>3. QED
    BY <1>1, <1>4, <2>1, <2>2 DEF Without, DiskTyped
<1>5. ASSUME NEW u \in Uploads, FailUpload(u) \/ CompletionFails(u)
      PROVE  DiskTyped'
  BY <1>4, <1>5 DEF FailUpload, CompletionFails
<1>6. ASSUME NEW t \in Removers, RemovalUnlinks(t) PROVE DiskTyped'
  BY <1>2, <1>4, <1>6 DEF RemovalUnlinks
<1>7. QED
  BY <1>2, <1>3, <1>5, <1>6, DiskWriters

(***************************************************************************)
(* Every step keeps ids and paths of the rows unique.  The insertions need *)
(* the paths to be new: discovery looks again at the commit, a request     *)
(* looked when it flushed each row and has held the write lock since.      *)
(***************************************************************************)
LEMMA RequestInsertsNew ==
    ASSUME TypesInvariant, NEW u \in Uploads, InsertLastRow(u)
    PROVE  \A i \in 1..Len(upload[u].dest) :
               upload[u].dest[i] \notin PathsOf(rows)
<1> SUFFICES ASSUME NEW i \in 1..Len(upload[u].dest)
             PROVE  upload[u].dest[i] \notin PathsOf(rows)
  OBVIOUS
<1>1. /\ upload[u].flushed + 1 = Len(upload[u].dest)
      /\ upload[u].dest[upload[u].flushed + 1] \notin PathsOf(rows)
  BY DEF InsertLastRow, CanInsert
<1>2. CASE i = upload[u].flushed + 1
  BY <1>1, <1>2
<1>3. CASE i # upload[u].flushed + 1
  <2>1. upload[u].flushed > 0 /\ i \in 1..upload[u].flushed
    BY <1>1, <1>3, RequestTyped
  <2>2. QED
    BY <2>1 DEF TypesInvariant, HeldRowsFree
<1>4. QED
  BY <1>2, <1>3

LEMMA RowHidden ==
    ASSUME NEW r \in Row, NEW h \in BOOLEAN
    PROVE  /\ [r EXCEPT !.hidden = h] \in Row
           /\ [r EXCEPT !.hidden = h].id = r.id
           /\ [r EXCEPT !.hidden = h].path = r.path
           /\ [r EXCEPT !.hidden = h].by = r.by
           /\ [r EXCEPT !.hidden = h].hidden = h
BY DEF Row

LEMMA RowsStayTyped ==
    TypesInvariant /\ [Next]_vars => rows' \subseteq Row /\ RowsDistinct'
<1> SUFFICES ASSUME TypesInvariant, [Next]_vars
             PROVE  rows' \subseteq Row /\ RowsDistinct'
  OBVIOUS
<1>1. rows \subseteq Row /\ RowsDistinct
  BY DEF TypesInvariant
<1>2. CASE UNCHANGED rows
  BY <1>1, <1>2 DEF RowsDistinct
<1>3. ASSUME NEW u \in Uploads, InsertLastRow(u)
      PROVE  rows' \subseteq Row /\ RowsDistinct'
  <2> DEFINE d == upload[u].dest
  <2>1. rows' = Inserted(d, u) /\ RoomFor(Len(d))
    BY <1>3 DEF InsertLastRow
  <2>2. /\ Len(d) \in Nat /\ DOMAIN d = 1..Len(d)
        /\ \A i \in 1..Len(d) : d[i] \in Paths
    BY RequestTyped, LibraryAssumption
  <2>3. \A i \in 1..Len(d) : d[i] \notin PathsOf(rows)
    BY <1>3, RequestInsertsNew
  <2>4. \A i, j \in 1..Len(d) : d[i] = d[j] => i = j
    BY <2>2 DEF TypesInvariant, OwnNames, OwnDest
  <2> HIDE DEF d
  <2>5. /\ Inserted(d, u) \subseteq Row
        /\ \A r, s \in Inserted(d, u) :
              r.id = s.id \/ r.path = s.path => r = s
    BY <1>1, <2>1, <2>2, <2>3, <2>4, InsertedTyped
  <2>6. QED
    BY <2>1, <2>5 DEF RowsDistinct
<1>4. CASE DiscoverCommits
  <2> DEFINE new == discovery.new
             ps == SetToSeq(new)
             n == Cardinality(new)
  <2>1. /\ new \subseteq Paths /\ IsFiniteSet(new) /\ RoomFor(n)
        /\ new \cap PathsOf(rows) = {} /\ rows' = Inserted(ps, None)
    BY <1>4 DEF DiscoverCommits, RowsFound, TypesInvariant, DiscoveryTyped
  <2> HIDE DEF new
  <2>2. /\ n \in Nat /\ DOMAIN ps = 1..n
        /\ \A i \in 1..n : ps[i] \in new
        /\ \A i, j \in 1..n : ps[i] = ps[j] => i = j
    BY <2>1, SetToSeqTyped
  <2> HIDE DEF ps, n
  <2>3. \A i \in 1..n : ps[i] \in Paths \ PathsOf(rows)
    BY <2>1, <2>2
  <2>4. /\ Inserted(ps, None) \subseteq Row
        /\ \A r, s \in Inserted(ps, None) :
              r.id = s.id \/ r.path = s.path => r = s
    BY <1>1, <2>1, <2>2, <2>3, InsertedTyped
  <2>5. QED
    BY <2>1, <2>4 DEF RowsDistinct
<1>5. ASSUME NEW t \in Removers, RemovalCommits(t)
      PROVE  rows' \subseteq Row /\ RowsDistinct'
  <2> DEFINE gone == removal[t].row
             after(s) == IF s.id = gone.id THEN [s EXCEPT !.hidden = TRUE]
                         ELSE s
  <2>1. \/ rows' = {s \in rows : s.id # gone.id}
        \/ rows' = {after(s) : s \in rows}
    BY <1>5 DEF RemovalCommits, RowsAfterRemoval
  <2>2. \A s \in rows : after(s) \in Row /\ after(s).id = s.id
                        /\ after(s).path = s.path
    BY <1>1, RowHidden
  <2> HIDE DEF after
  <2>3. QED
    BY <1>1, <2>1, <2>2 DEF RowsDistinct
<1>6. ASSUME NEW r \in rows, RestoreImage(r)
      PROVE  rows' \subseteq Row /\ RowsDistinct'
  <2> DEFINE shown == [r EXCEPT !.hidden = FALSE]
  <2>1. rows' = (rows \ {r}) \cup {shown}
    BY <1>6 DEF RestoreImage
  <2>2. shown \in Row /\ shown.id = r.id /\ shown.path = r.path
    BY <1>1, RowHidden
  <2> HIDE DEF shown
  <2>3. QED
    BY <1>1, <2>1, <2>2 DEF RowsDistinct
<1>7. QED
  BY <1>2, <1>3, <1>4, <1>5, <1>6, RowsWriters

(***************************************************************************)
(* Every step keeps the requests typed and their destinations different.   *)
(***************************************************************************)
LEMMA OwnRecord ==
    ASSUME TypesInvariant, NEW u \in Uploads, NEW new \in Upload,
           OwnDest(u, new.dest), upload' = [upload EXCEPT ![u] = new]
    PROVE  upload' \in [Uploads -> Upload] /\ OwnNames'
<1>1. /\ upload' \in [Uploads -> Upload] /\ upload'[u] = new
      /\ \A w \in Uploads \ {u} : upload'[w] = upload[w]
  BY DEF TypesInvariant
<1>2. \A w \in Uploads : OwnDest(w, upload'[w].dest)
  BY <1>1 DEF TypesInvariant, OwnNames
<1>3. QED
  BY <1>1, <1>2 DEF OwnNames

LEMMA FreshTyped ==
    /\ NoUpload \in Upload
    /\ NoUpload.dest = <<>> /\ NoUpload.flushed = 0
<1>1. MaxFiles \in Nat
  BY LibraryAssumption
<1>2. /\ <<>> \in BoundedSeq(Names, MaxFiles)
      /\ <<>> \in BoundedSeq(Paths, MaxFiles)
  BY <1>1, BoundedTyped
<1>3. 0 \in 0..MaxFiles
  BY <1>1
<1>4. QED
  BY <1>2, <1>3 DEF NoUpload, Upload

LEMMA EndedRecord ==
    ASSUME TypesInvariant, NEW u \in Uploads
    PROVE  /\ Ended(u) \in Upload
           /\ Ended(u).at = "ended" /\ Ended(u).flushed = 0
           /\ Ended(u).dest = upload[u].dest
<1> DEFINE d == upload[u].dest
<1>1. d \in BoundedSeq(Paths, MaxFiles)
  BY RequestTyped DEF Upload
<1>2. Ended(u) = [NoUpload EXCEPT !.at = "ended", !.dest = d]
  BY DEF Ended
<1> HIDE DEF d
<1>3. QED
  BY <1>1, <1>2, FreshTyped DEF Upload, d

LEMMA NextDestination ==
    ASSUME TypesInvariant, NEW u \in Uploads, OnHeadersFinished(u)
    PROVE  LET i == Len(upload[u].dest) + 1
               p == Destination(u, upload[u].names[i], i)
               d == Append(upload[u].dest, p)
           IN  d \in BoundedSeq(Paths, MaxFiles) /\ OwnDest(u, d)
<1> DEFINE old == upload[u].dest
           m == Len(old)
           n == upload[u].names[m + 1]
           p == Destination(u, n, m + 1)
           d == Append(old, p)
<1>1. /\ old \in Seq(Paths) /\ m \in 0..MaxFiles /\ MaxFiles \in Nat
      /\ DOMAIN old = 1..m
      /\ m + 1 <= Len(upload[u].names) /\ upload[u].names \in Seq(Names)
      /\ Len(upload[u].names) \in 0..MaxFiles
      /\ OwnDest(u, old)
  BY RequestTyped, LibraryAssumption DEF OnHeadersFinished
<1>2. m + 1 \in 1..Len(upload[u].names) /\ m + 1 \in 1..MaxFiles
  BY <1>1
<1>3. n \in Names
  BY <1>1, <1>2, ElementOfSeq
<1>4. \/ p = Base(n) /\ p \notin ToSet(old)
      \/ p = Suffixed(n, u, m + 1)
  BY DEF Destination
<1> HIDE DEF n
<1>5. /\ p \in Paths /\ p.name \in Names
      /\ p.suffix = None \/ p.suffix = <<u, m + 1>>
  BY <1>2, <1>3, <1>4 DEF Paths, Base, Suffixed
<1>6. \A i \in 1..m : old[i] # p
  <2> SUFFICES ASSUME NEW i \in 1..m PROVE old[i] # p
    OBVIOUS
  <2>1. CASE p \notin ToSet(old)
    BY <1>1, <2>1 DEF ToSet
  <2>2. CASE p = Suffixed(n, u, m + 1)
    <3>1. p.suffix = <<u, m + 1>> /\ p.suffix # None
      BY <1>2, <2>2, LibraryAssumption DEF Suffixed
    <3>2. \/ old[i].suffix = None
          \/ \E j \in 1..m : old[i].suffix = <<u, j>>
      BY <1>1 DEF OwnDest
    <3>3. \A j \in 1..m : <<u, j>> # <<u, m + 1>>
      BY <1>1
    <3>4. QED
      BY <3>1, <3>2, <3>3
  <2>3. QED
    BY <1>4, <2>1, <2>2
<1> HIDE DEF p
<1>7. /\ d \in Seq(Paths) /\ Len(d) = m + 1
      /\ \A i \in 1..m : d[i] = old[i]
      /\ d[m + 1] = p
  BY <1>1, <1>5, AppendProperties
<1> HIDE DEF d
<1>8. d \in BoundedSeq(Paths, MaxFiles)
  BY <1>2, <1>7, InBounded
<1>9. \A i \in 1..(m + 1) : i \in 1..m \/ i = m + 1
  BY <1>1
<1>10. ASSUME NEW i \in 1..(m + 1)
       PROVE  /\ d[i].name \in Names
              /\ \/ d[i].suffix = None
                 \/ \E j \in 1..(m + 1) : d[i].suffix = <<u, j>>
  <2>1. CASE i = m + 1
    BY <1>1, <1>5, <1>7, <2>1
  <2>2. CASE i \in 1..m
    <3>1. /\ old[i].name \in Names
          /\ \/ old[i].suffix = None
             \/ \E j \in 1..m : old[i].suffix = <<u, j>>
      BY <1>1, <2>2 DEF OwnDest
    <3>2. \A j \in 1..m : j \in 1..(m + 1)
      BY <1>1
    <3>3. QED
      BY <1>7, <2>2, <3>1, <3>2
  <2>3. QED
    BY <1>9, <2>1, <2>2
<1>11. \A i, j \in 1..(m + 1) : d[i] = d[j] => i = j
  <2>1. \A i, j \in 1..m : old[i] = old[j] => i = j
    BY <1>1 DEF OwnDest
  <2>2. QED
    BY <1>6, <1>7, <1>9, <2>1
<1>12. OwnDest(u, d)
  BY <1>7, <1>10, <1>11 DEF OwnDest
<1>13. QED
  BY <1>8, <1>12 DEF d, p, n

\* A request that goes on keeps its destinations.
LEMMA SmallStep ==
    ASSUME TypesInvariant, NEW u \in Uploads,
           Finish(u) \/ InsertRow(u) \/ InsertLastRow(u) \/ StreamEnds(u)
    PROVE  \E new \in Upload : /\ upload' = [upload EXCEPT ![u] = new]
                              /\ new.dest = upload[u].dest
<1>1. CASE Finish(u)
  <2> DEFINE k == upload[u].finished + 1
             r == [upload[u] EXCEPT !.finished = k]
  <2>1. k \in 0..MaxFiles /\ upload' = [upload EXCEPT ![u] = r]
    BY <1>1, RequestTyped, LibraryAssumption DEF Finish
  <2> HIDE DEF k
  <2>2. r \in Upload /\ r.dest = upload[u].dest
    BY <2>1, RequestTyped DEF Upload
  <2>3. QED
    BY <2>1, <2>2
<1>2. CASE InsertRow(u)
  <2> DEFINE k == upload[u].flushed + 1
             r == [upload[u] EXCEPT !.flushed = k]
  <2>1. k \in 0..MaxFiles /\ upload' = [upload EXCEPT ![u] = r]
    BY <1>2, RequestTyped, LibraryAssumption DEF InsertRow
  <2> HIDE DEF k
  <2>2. r \in Upload /\ r.dest = upload[u].dest
    BY <2>1, RequestTyped DEF Upload
  <2>3. QED
    BY <2>1, <2>2
<1>3. CASE StreamEnds(u)
  <2> DEFINE r == [upload[u] EXCEPT !.at = "validating"]
  <2>1. upload' = [upload EXCEPT ![u] = r]
    BY <1>3 DEF StreamEnds
  <2>2. r \in Upload /\ r.dest = upload[u].dest
    BY RequestTyped DEF Upload
  <2>3. QED
    BY <2>1, <2>2
<1>4. CASE InsertLastRow(u)
  <2> DEFINE r == [upload[u] EXCEPT !.at = "committed", !.flushed = 0]
  <2>1. upload' = [upload EXCEPT ![u] = r]
    BY <1>4, RequestTyped DEF InsertLastRow
  <2>2. MaxFiles \in Nat
    BY LibraryAssumption
  <2>3. 0 \in 0..MaxFiles
    BY <2>2
  <2>4. r \in Upload /\ r.dest = upload[u].dest
    BY <2>3, RequestTyped DEF Upload
  <2>5. QED
    BY <2>1, <2>4
<1>5. QED
  BY <1>1, <1>2, <1>3, <1>4

\* A request that ends keeps its destinations.
LEMMA LastStep ==
    ASSUME NEW u \in Uploads,
           CompleteJob(u) \/ FailUpload(u) \/ CompletionFails(u)
    PROVE  upload' = [upload EXCEPT ![u] = Ended(u)]
BY DEF CompleteJob, FailUpload, CompletionFails

LEMMA RequestsStayTyped ==
    TypesInvariant /\ [Next]_vars => upload' \in [Uploads -> Upload] /\ OwnNames'
<1> SUFFICES ASSUME TypesInvariant, [Next]_vars
             PROVE  upload' \in [Uploads -> Upload] /\ OwnNames'
  OBVIOUS
<1>1. CASE UNCHANGED upload
  BY <1>1 DEF TypesInvariant, OwnNames
<1>2. ASSUME NEW u \in Uploads, NEW names \in BoundedSeq(Names, MaxFiles),
             BeginUpload(u, names)
      PROVE  upload' \in [Uploads -> Upload] /\ OwnNames'
  <2> DEFINE new == [NoUpload EXCEPT !.at = "receiving", !.names = names]
  <2>1. new \in Upload /\ new.dest = <<>>
    BY FreshTyped DEF Upload
  <2>2. upload' = [upload EXCEPT ![u] = new]
    BY <1>2 DEF BeginUpload
  <2> HIDE DEF new
  <2>3. OwnDest(u, new.dest)
    BY <2>1 DEF OwnDest
  <2>4. QED
    BY <2>1, <2>2, <2>3, OwnRecord
<1>3. ASSUME NEW u \in Uploads, OnHeadersFinished(u)
      PROVE  upload' \in [Uploads -> Upload] /\ OwnNames'
  <2> DEFINE i == Len(upload[u].dest) + 1
             d == Append(upload[u].dest,
                         Destination(u, upload[u].names[i], i))
             new == [upload[u] EXCEPT !.dest = d]
  <2>1. d \in BoundedSeq(Paths, MaxFiles) /\ OwnDest(u, d)
    BY <1>3, NextDestination
  <2>2. upload' = [upload EXCEPT ![u] = new]
    BY <1>3, RequestTyped DEF OnHeadersFinished
  <2> HIDE DEF d
  <2>3. new \in Upload /\ new.dest = d
    BY <2>1, RequestTyped DEF Upload
  <2> HIDE DEF new
  <2>4. QED
    BY <2>1, <2>2, <2>3, OwnRecord
<1>4. ASSUME NEW u \in Uploads,
             Finish(u) \/ InsertRow(u) \/ InsertLastRow(u) \/ StreamEnds(u)
      PROVE  upload' \in [Uploads -> Upload] /\ OwnNames'
  <2>1. PICK new \in Upload : /\ upload' = [upload EXCEPT ![u] = new]
                              /\ new.dest = upload[u].dest
    BY <1>4, SmallStep
  <2>2. OwnDest(u, new.dest)
    BY <2>1, RequestTyped
  <2>3. QED
    BY <2>1, <2>2, OwnRecord
<1>5. ASSUME NEW u \in Uploads,
             CompleteJob(u) \/ FailUpload(u) \/ CompletionFails(u)
      PROVE  upload' \in [Uploads -> Upload] /\ OwnNames'
  <2>1. upload' = [upload EXCEPT ![u] = Ended(u)]
    BY <1>5, LastStep
  <2>2. QED
    BY <2>1, EndedRecord, RequestTyped, OwnRecord
<1>6. CASE Crash
  <2>1. \A w \in Uploads : upload'[w] \in Upload
                           /\ upload'[w].dest = upload[w].dest
    BY <1>6, EndedRecord, RequestTyped DEF Crash
  <2>2. \A w \in Uploads : OwnDest(w, upload'[w].dest)
    BY <2>1, RequestTyped
  <2>3. upload' \in [Uploads -> Upload]
    BY <1>6, <2>1 DEF Crash
  <2>4. QED
    BY <2>2, <2>3 DEF OwnNames
<1>7. QED
  BY <1>1, <1>2, <1>3, <1>4, <1>5, <1>6, UploadWriters DEF UploadStep

(***************************************************************************)
(* A request that has flushed rows holds the lock until it ends, and the   *)
(* committed rows leave its paths alone.                                   *)
(***************************************************************************)
LEMMA LockLeavesOthersUnflushed ==
    ASSUME TypesInvariant, NEW u \in Uploads, holder \in {None, u}
    PROVE  \A w \in Uploads \ {u} : upload[w].flushed = 0
<1> SUFFICES ASSUME NEW w \in Uploads \ {u} PROVE upload[w].flushed = 0
  OBVIOUS
<1>1. upload[w].flushed \in 0..MaxFiles
  BY RequestTyped
<1>2. ~(upload[w].flushed > 0)
  BY LibraryAssumption DEF TypesInvariant, HeldRowsFree
<1>3. QED
  BY <1>1, <1>2, LibraryAssumption

\* While a request receives, nothing is flushed.
LEMMA ReceivingStep ==
    ASSUME TypesInvariant, NEW u \in Uploads,
           OnHeadersFinished(u) \/ Finish(u) \/ StreamEnds(u)
    PROVE  /\ UNCHANGED <<holder, rows>>
           /\ \E new : /\ new.flushed = upload[u].flushed
                       /\ upload' = [upload EXCEPT ![u] = new]
<1>1. CASE OnHeadersFinished(u)
  <2> DEFINE d == Append(upload[u].dest,
                    Destination(u, upload[u].names[Len(upload[u].dest) + 1],
                                Len(upload[u].dest) + 1))
             new == [upload[u] EXCEPT !.dest = d]
  <2>1. /\ upload' = [upload EXCEPT ![u] = new]
        /\ UNCHANGED <<holder, rows>>
    BY <1>1, RequestTyped DEF OnHeadersFinished
  <2>2. new.flushed = upload[u].flushed
    BY RequestTyped DEF Upload
  <2>3. QED
    BY <2>1, <2>2
<1>2. CASE Finish(u)
  <2> DEFINE new == [upload[u] EXCEPT !.finished = upload[u].finished + 1]
  <2>1. /\ upload' = [upload EXCEPT ![u] = new]
        /\ UNCHANGED <<holder, rows>>
    BY <1>2 DEF Finish
  <2>2. new.flushed = upload[u].flushed
    BY RequestTyped DEF Upload
  <2>3. QED
    BY <2>1, <2>2
<1>3. CASE StreamEnds(u)
  <2> DEFINE new == [upload[u] EXCEPT !.at = "validating"]
  <2>1. /\ upload' = [upload EXCEPT ![u] = new]
        /\ UNCHANGED <<holder, rows>>
    BY <1>3 DEF StreamEnds
  <2>2. new.flushed = upload[u].flushed
    BY RequestTyped DEF Upload
  <2>3. QED
    BY <2>1, <2>2
<1>4. QED
  BY <1>1, <1>2, <1>3

LEMMA HeldRowsStayFree == TypesInvariant /\ [Next]_vars => HeldRowsFree'
<1> SUFFICES ASSUME TypesInvariant, [Next]_vars PROVE HeldRowsFree'
  OBVIOUS
<1>0. /\ HeldRowsFree /\ None \notin Uploads /\ upload \in [Uploads -> Upload]
      /\ \A w \in Uploads : upload[w].flushed \in 0..MaxFiles
      /\ MaxFiles \in Nat
  BY LibraryAssumption, RequestTyped DEF TypesInvariant
<1>1. ASSUME UNCHANGED <<upload, holder, rows>>
      PROVE  HeldRowsFree'
  BY <1>0, <1>1 DEF HeldRowsFree, PathsOf
<1>2. ASSUME UNCHANGED upload, holder = None
      PROVE  HeldRowsFree'
  BY <1>0, <1>2 DEF HeldRowsFree
<1>3. ASSUME NEW u \in Uploads, NEW new, new.flushed = 0,
             upload' = [upload EXCEPT ![u] = new], UNCHANGED <<holder, rows>>
      PROVE  HeldRowsFree'
  BY <1>0, <1>3 DEF HeldRowsFree, PathsOf
<1>4. ASSUME NEW u \in Uploads, NEW names \in BoundedSeq(Names, MaxFiles),
             BeginUpload(u, names)
      PROVE  HeldRowsFree'
  <2> DEFINE new == [NoUpload EXCEPT !.at = "receiving", !.names = names]
  <2>1. new.flushed = 0
    BY FreshTyped DEF Upload
  <2> HIDE DEF new
  <2>2. /\ upload' = [upload EXCEPT ![u] = new]
        /\ UNCHANGED <<holder, rows>>
    BY <1>4 DEF BeginUpload, new
  <2>3. QED
    BY <1>3, <2>1, <2>2
<1>5. ASSUME NEW u \in Uploads,
             OnHeadersFinished(u) \/ Finish(u) \/ StreamEnds(u)
      PROVE  HeldRowsFree'
  <2>1. upload[u].flushed = 0
    BY <1>0, <1>5 DEF HeldRowsFree, OnHeadersFinished, Finish, StreamEnds
  <2>2. /\ UNCHANGED <<holder, rows>>
        /\ \E new : /\ new.flushed = upload[u].flushed
                    /\ upload' = [upload EXCEPT ![u] = new]
    BY <1>5, ReceivingStep
  <2>3. QED
    BY <1>3, <2>1, <2>2
<1>6. ASSUME NEW u \in Uploads, InsertRow(u)
      PROVE  HeldRowsFree'
  <2> DEFINE k == upload[u].flushed + 1
             new == [upload[u] EXCEPT !.flushed = k]
  <2>1. /\ upload[u].at = "validating" /\ holder \in {None, u} /\ holder' = u
        /\ k < Len(upload[u].dest)
        /\ upload[u].dest[k] \notin PathsOf(rows)
        /\ upload' = [upload EXCEPT ![u] = new]
        /\ UNCHANGED rows
    BY <1>6 DEF InsertRow, CanInsert, WriterFree
  <2>2. k \in Nat /\ Len(upload[u].dest) \in Nat
        /\ \A i \in 1..k : i = k \/ i \in 1..upload[u].flushed
    BY <1>0, RequestTyped
  <2>3. \A i \in 1..k : upload[u].dest[i] \notin PathsOf(rows)
    <3> SUFFICES ASSUME NEW i \in 1..k
                 PROVE  upload[u].dest[i] \notin PathsOf(rows)
      OBVIOUS
    <3>1. CASE i = k
      BY <2>1, <3>1
    <3>2. CASE i \in 1..upload[u].flushed
      <4>1. upload[u].flushed > 0
        BY <1>0, <3>2
      <4>2. QED
        BY <1>0, <3>2, <4>1 DEF HeldRowsFree
    <3>3. QED
      BY <2>2, <3>1, <3>2
  <2> HIDE DEF k
  <2>4. new.flushed = k /\ new.at = "validating" /\ new.dest = upload[u].dest
    BY <2>1, RequestTyped DEF Upload
  <2> HIDE DEF new
  <2>5. \A w \in Uploads \ {u} : upload'[w].flushed = 0
    BY <1>0, <2>1, LockLeavesOthersUnflushed
  <2>6. upload'[u] = new
    BY <1>0, <2>1
  <2>7. PathsOf(rows)' = PathsOf(rows)
    BY <2>1 DEF PathsOf
  <2>8. QED
    BY <2>1, <2>2, <2>3, <2>4, <2>5, <2>6, <2>7 DEF HeldRowsFree
<1>7. ASSUME NEW u \in Uploads, InsertLastRow(u)
      PROVE  HeldRowsFree'
  <2> DEFINE new == [upload[u] EXCEPT !.at = "committed", !.flushed = 0]
  <2>1. holder \in {None, u} /\ upload' = [upload EXCEPT ![u] = new]
    BY <1>7, RequestTyped DEF InsertLastRow, CanInsert, WriterFree
  <2>2. new.flushed = 0
    BY RequestTyped DEF Upload
  <2> HIDE DEF new
  <2>3. \A w \in Uploads : upload'[w].flushed = 0
    BY <1>0, <2>1, <2>2, LockLeavesOthersUnflushed
  <2>4. QED
    BY <2>3 DEF HeldRowsFree
<1>11. ASSUME NEW u \in Uploads,
              CompleteJob(u) \/ FailUpload(u) \/ CompletionFails(u)
       PROVE  HeldRowsFree'
  <2>1. /\ upload' = [upload EXCEPT ![u] = Ended(u)] /\ UNCHANGED rows
        /\ \/ holder \in {None, u}
           \/ UNCHANGED holder
    BY <1>11, LastStep
    DEF CompleteJob, FailUpload, CompletionFails, JobFails, WriterFree
  <2>2. Ended(u).flushed = 0
    BY EndedRecord
  <2>3. CASE holder \in {None, u}
    <3>1. \A w \in Uploads : upload'[w].flushed = 0
      BY <1>0, <2>1, <2>2, <2>3, LockLeavesOthersUnflushed
    <3>2. QED
      BY <3>1 DEF HeldRowsFree
  <2>4. QED
    BY <1>3, <2>1, <2>2, <2>3
<1>8. CASE Crash
  <2>1. \A w \in Uploads : upload'[w].flushed = 0
    <3> SUFFICES ASSUME NEW w \in Uploads PROVE upload'[w].flushed = 0
      OBVIOUS
    <3>1. CASE upload[w].at \in Open
      BY <1>8, <3>1, EndedRecord DEF Crash, Open
    <3>2. CASE upload[w].at \notin Open
      BY <1>0, <1>8, <3>2 DEF Crash, HeldRowsFree, Open
    <3>3. QED
      BY <3>1, <3>2
  <2>2. QED
    BY <2>1 DEF HeldRowsFree
<1>9. CASE UNCHANGED <<upload, job, holder>>
  <2>1. ASSUME NEW u \in Uploads, InsertLastRow(u) PROVE HeldRowsFree'
    BY <1>7, <2>1
  <2>2. ASSUME \/ DiscoverCommits
               \/ \E t \in Removers : RemovalCommits(t)
               \/ \E r \in rows : RestoreImage(r)
        PROVE  HeldRowsFree'
    BY <1>2, <1>9, <2>2 DEF DiscoverCommits, RemovalCommits, RestoreImage
  <2>3. QED
    BY <1>1, <1>9, <2>1, <2>2, RowsWriters
<1>10. QED
  BY <1>4, <1>5, <1>6, <1>7, <1>8, <1>9, <1>11, UploadWriters DEF UploadStep

(***************************************************************************)
(* Discovery, the removal threads and the rest.                            *)
(***************************************************************************)
LEMMA ThreadsStayTyped ==
    TypesInvariant /\ [Next]_vars => DiscoveryTyped' /\ RemovalTyped'
<1> SUFFICES ASSUME TypesInvariant, [Next]_vars
             PROVE  DiscoveryTyped' /\ RemovalTyped'
  OBVIOUS
<1>1. DiscoveryTyped /\ RemovalTyped /\ rows \subseteq Row
  BY DEF TypesInvariant
<1>2. CASE UNCHANGED <<discovery, removal>>
  BY <1>1, <1>2 DEF DiscoveryTyped, RemovalTyped
<1>3. CASE DiscoveryStep
  <2>1. UNCHANGED removal
    BY <1>3 DEF DiscoveryStep, DiscoverReads, DiscoverWalks, DiscoverCommits,
                DiscoverFails
  <2>2. CASE DiscoverWalks
    <3>1. /\ discovery'.at = "insert"
          /\ discovery'.new = DOMAIN disk \ discovery.existing
      BY <2>2 DEF DiscoverWalks
    <3>2. DOMAIN disk \subseteq Paths /\ IsFiniteSet(DOMAIN disk)
      BY DEF TypesInvariant, DiskTyped
    <3>3. IsFiniteSet(discovery'.new)
      <4>1. discovery'.new \in SUBSET (DOMAIN disk)
        BY <3>1
      <4>2. QED
        BY <3>2, <4>1, FS_Subset
    <3>4. QED
      BY <1>1, <2>1, <3>1, <3>2, <3>3 DEF DiscoveryTyped, RemovalTyped
  <2>3. CASE DiscoverReads \/ DiscoverCommits \/ DiscoverFails
    <3>1. discovery'.at \in {Idle, "walk"}
      <4>1. NoDiscovery.at = Idle
        BY DEF NoDiscovery
      <4>2. \A e : [NoDiscovery EXCEPT !.at = "walk", !.existing = e].at = "walk"
        BY DEF NoDiscovery
      <4>3. QED
        BY Zenon, <2>3, <4>1, <4>2
        DEF DiscoverReads, DiscoverCommits, DiscoverFails
    <3>2. QED
      BY <1>1, <2>1, <3>1 DEF DiscoveryTyped, RemovalTyped, Idle
  <2>4. QED
    BY <1>3, <2>2, <2>3 DEF DiscoveryStep
<1>4. ASSUME NEW t \in Removers, NEW r \in rows, RemovalReads(t, r)
      PROVE  DiscoveryTyped' /\ RemovalTyped'
  BY <1>1, <1>4 DEF RemovalReads, DiscoveryTyped, RemovalTyped
<1>5. ASSUME NEW t \in Removers, RemovalUnlinks(t)
      PROVE  DiscoveryTyped' /\ RemovalTyped'
  <2>1. /\ UNCHANGED discovery /\ removal[t].at = "checked"
        /\ removal' = [removal EXCEPT ![t].at = "unlinked"]
    BY <1>5 DEF RemovalUnlinks
  <2>2. removal[t].row \in Row
    BY <1>1, <2>1 DEF RemovalTyped, Idle
  <2>3. QED
    BY <1>1, <2>1, <2>2 DEF DiscoveryTyped, RemovalTyped
<1>6. ASSUME NEW t \in Removers, RemovalCommits(t) \/ RemovalFails(t)
      PROVE  DiscoveryTyped' /\ RemovalTyped'
  BY <1>1, <1>6
  DEF RemovalCommits, RemovalFails, NoRemoval, DiscoveryTyped, RemovalTyped
<1>7. CASE Crash
  BY <1>1, <1>7
  DEF Crash, NoRemoval, NoDiscovery, DiscoveryTyped, RemovalTyped, Idle
<1>8. QED
  BY <1>2, <1>3, <1>4, <1>5, <1>6, <1>7
  DEF Next, vars, BeginUpload, UploadStep, OnHeadersFinished, Finish,
      StreamEnds, InsertRow, InsertLastRow, CompleteJob, FailUpload,
      CompletionFails, RestoreImage

LEMMA OthersStayTyped == TypesInvariant /\ [Next]_vars => OthersTyped'
<1> SUFFICES ASSUME TypesInvariant, [Next]_vars PROVE OthersTyped'
  OBVIOUS
<1>1. OthersTyped /\ RemovalTyped /\ MaxCrashes \in Nat
  BY LibraryAssumption DEF TypesInvariant
<1>2. CASE UNCHANGED <<job, holder, torn, crashes>>
  BY <1>1, <1>2 DEF OthersTyped
<1>3. ASSUME NEW u \in Uploads, UploadStep(u)
      PROVE  OthersTyped'
  <2>1. /\ \/ UNCHANGED job
           \/ \E s \in {"completed", "failed"} : job' = [job EXCEPT ![u] = s]
        /\ holder' \in {holder, None, u}
        /\ UNCHANGED <<torn, crashes>>
    BY <1>3 DEF UploadStep, OnHeadersFinished, Finish, StreamEnds, InsertRow,
                InsertLastRow, CompleteJob, FailUpload, CompletionFails,
                JobFails
  <2>2. job' \in [Uploads -> {None, "running", "completed", "failed"}]
    BY <1>1, <2>1 DEF OthersTyped
  <2>3. QED
    BY <1>1, <2>1, <2>2 DEF OthersTyped
<1>4. ASSUME NEW u \in Uploads, NEW names, BeginUpload(u, names)
      PROVE  OthersTyped'
  BY <1>1, <1>4 DEF BeginUpload, OthersTyped
<1>5. \A T \in SUBSET Removers : HalfRemoved(T) \subseteq Row
  BY <1>1 DEF HalfRemoved, RemovalTyped, Idle
<1>6. CASE Crash
  <2>1. torn' \subseteq Row
    BY <1>1, <1>5, <1>6 DEF Crash, OthersTyped
  <2>2. QED
    BY <1>1, <1>6, <2>1 DEF Crash, OthersTyped
<1>7. ASSUME NEW t \in Removers, RemovalCommits(t) \/ RemovalFails(t)
      PROVE  OthersTyped'
  BY <1>1, <1>5, <1>7 DEF RemovalCommits, RemovalFails, OthersTyped
<1>8. QED
  BY <1>2, <1>3, <1>4, <1>6, <1>7
  DEF Next, vars, DiscoveryStep, DiscoverReads, DiscoverWalks,
      DiscoverCommits, DiscoverFails, RemovalReads, RemovalUnlinks,
      RestoreImage

(***************************************************************************)
(* Before the first request the disk holds the mounted archives.           *)
(***************************************************************************)
LEMMA InitTyped == Init => TypesInvariant
<1> SUFFICES ASSUME Init PROVE TypesInvariant
  OBVIOUS
<1> DEFINE first == {Base(m) : m \in Mounted}
<1>1. DiskTyped
  <2>1. disk = [p \in first |-> MountedFile]
    BY DEF Init
  <2>2. first \subseteq Paths
    BY DEF Paths
  <2>3. MountedFile \in Content
    BY LibraryAssumption DEF MountedFile, Content
  <2>4. IsFiniteSet(first)
    <3>1. [m \in Mounted |-> Base(m)] \in Surjection(Mounted, first)
      BY DEF Surjection
    <3> HIDE DEF first
    <3>2. QED
      BY <3>1, FS_Surjection, LibraryAssumption
  <2> HIDE DEF first
  <2>5. QED
    BY <2>1, <2>2, <2>3, <2>4 DEF DiskTyped
<1>2. rows \subseteq Row /\ RowsDistinct
  BY DEF Init, RowsDistinct
<1>3. upload \in [Uploads -> Upload] /\ OwnNames /\ HeldRowsFree
  <2>1. \A u \in Uploads : upload[u] = NoUpload
    BY DEF Init
  <2>2. Len(<<>>) = 0
    BY EmptySeq
  <2>3. QED
    BY <2>1, <2>2, FreshTyped DEF Init, OwnNames, OwnDest, HeldRowsFree
<1>4. DiscoveryTyped /\ RemovalTyped /\ OthersTyped
  BY LibraryAssumption
  DEF Init, NoDiscovery, NoRemoval, DiscoveryTyped, RemovalTyped, OthersTyped,
      Idle
<1>5. QED
  BY <1>1, <1>2, <1>3, <1>4 DEF TypesInvariant

\* The types of the archives, and what they need, hold throughout.
THEOREM TypesInductive == Spec => []TypesInvariant
<1>1. TypesInvariant /\ [Next]_vars => TypesInvariant'
  BY DiskStaysTyped, RowsStayTyped, RequestsStayTyped, HeldRowsStayFree,
     ThreadsStayTyped, OthersStayTyped DEF TypesInvariant
<1>2. QED
  BY <1>1, InitTyped, PTL DEF Spec

\* The image archives are type correct: among other things no two rows ever
\* have one id or one path, whatever requests, discovery and removals insert
\* and delete, for any names, requests, threads and bounds.
THEOREM LibraryTypes == Spec => []TypeOK
<1>1. TypesInvariant => TypeOK
  BY DEF TypesInvariant, DiskTyped, RowsDistinct, DiscoveryTyped, RemovalTyped,
         OthersTyped, TypeOK
<1>2. QED
  BY <1>1, TypesInductive, PTL

-------------------------------------------------------------------------------
(* Uploaded archives stay, as long as images are removed one at a time. *)

OneRemoval == \A s, t \in Removers : s = t

\* The row a removal has read is still there until that removal commits: the
\* step that fails with a second removal of the same image.
RemovalCurrent ==
    \A t \in Removers : removal[t].at # Idle =>
        removal[t].row \in rows /\ ~removal[t].row.hidden

\* Uploaded archives lie in the upload directory, and are never hidden.
UploadRows == \A r \in rows : r.by # None => Managed(r.path) /\ ~r.hidden

MountedOnly == \A p \in DOMAIN disk : disk[p].by = None => p.name \in Mounted

Alone(u, p) == \A w \in Uploads \ {u} : ~Reserved(w, p)
OnDisk(u, p) == p \in DOMAIN disk /\ disk[p].by = u

\* Looked at when the row was flushed, and not again at the commit.
FlushedKept ==
    \A u \in Uploads : \A i \in 1..upload[u].flushed :
        Alone(u, upload[u].dest[i]) => OnDisk(u, upload[u].dest[i])

\* The request has committed its rows, and has not failed after that.
Standing(u) == upload[u].at = "committed" \/ job[u] = "completed"

Unlinked(r) == \E t \in Removers : removal[t].at = "unlinked"
                                   /\ removal[t].row = r

RowsKept ==
    \A r \in rows :
        /\ r.by # None /\ Standing(r.by)
        /\ r \notin torn /\ ~Unlinked(r) /\ Alone(r.by, r.path)
        => OnDisk(r.by, r.path)

FilesInvariant == /\ RemovalCurrent /\ UploadRows /\ MountedOnly
                  /\ FlushedKept /\ RowsKept

(***************************************************************************)
(* A name once reserved stays reserved, so a request that is alone with a  *)
(* name after a step was alone with it before.                             *)
(***************************************************************************)
LEMMA ReservedStays ==
    ASSUME LibraryInvariant, TypesInvariant, [Next]_vars
    PROVE  \A u, p : Alone(u, p)' => Alone(u, p)
<1> SUFFICES ASSUME NEW w \in Uploads
             PROVE  ToSet(upload[w].dest) \subseteq ToSet(upload'[w].dest)
  BY DEF Alone, Reserved
<1>0. upload \in [Uploads -> Upload]
  BY DEF TypesInvariant
<1>1. CASE UNCHANGED upload
  BY <1>1
<1>2. ASSUME NEW u \in Uploads, NEW names \in BoundedSeq(Names, MaxFiles),
             BeginUpload(u, names)
      PROVE  ToSet(upload[w].dest) \subseteq ToSet(upload'[w].dest)
  <2>1. CASE w = u
    <3>1. upload[w].dest = <<>>
      BY <1>2, <2>1 DEF BeginUpload, LibraryInvariant, DataReserved
    <3>2. ToSet(<<>>) = {}
      BY DEF ToSet
    <3>3. QED
      BY <3>1, <3>2
  <2>2. CASE w # u
    BY <1>0, <1>2, <2>2 DEF BeginUpload
  <2>3. QED
    BY <2>1, <2>2
<1>3. ASSUME NEW u \in Uploads, OnHeadersFinished(u)
      PROVE  ToSet(upload[w].dest) \subseteq ToSet(upload'[w].dest)
  <2> DEFINE i == Len(upload[u].dest) + 1
             p == Destination(u, upload[u].names[i], i)
             d == Append(upload[u].dest, p)
             new == [upload[u] EXCEPT !.dest = d]
  <2>1. upload' = [upload EXCEPT ![u] = new]
    BY <1>3, RequestTyped DEF OnHeadersFinished
  <2>2. ToSet(upload[u].dest) \subseteq ToSet(d)
    <3> DEFINE old == upload[u].dest
               m == Len(old)
    <3>1. /\ m \in Nat /\ DOMAIN old = 1..m /\ old \in Seq(Paths)
          /\ d \in BoundedSeq(Paths, MaxFiles) /\ MaxFiles \in Nat
      BY <1>3, NextDestination, RequestTyped, LibraryAssumption
    <3>2. p \in Paths
      <4>1. upload[u].names[i] \in Names /\ i \in 1..MaxFiles
        <5>1. /\ upload[u].names \in Seq(Names) /\ i \in 1..Len(upload[u].names)
              /\ Len(upload[u].names) \in 0..MaxFiles
          BY <1>3, <3>1, RequestTyped DEF OnHeadersFinished
        <5>2. QED
          BY <3>1, <5>1, ElementOfSeq
      <4>2. QED
        BY <4>1 DEF Destination, Paths
    <3> HIDE DEF p
    <3>3. QED
      BY <3>1, <3>2, AppendedTo
  <2> HIDE DEF d
  <2>3. new.dest = d
    BY RequestTyped DEF Upload
  <2> HIDE DEF new
  <2>4. QED
    BY <1>0, <2>1, <2>2, <2>3
<1>4. ASSUME NEW u \in Uploads,
             Finish(u) \/ InsertRow(u) \/ InsertLastRow(u) \/ StreamEnds(u)
      PROVE  ToSet(upload[w].dest) \subseteq ToSet(upload'[w].dest)
  <2>1. PICK new \in Upload : /\ upload' = [upload EXCEPT ![u] = new]
                              /\ new.dest = upload[u].dest
    BY <1>4, SmallStep
  <2>2. upload'[w].dest = upload[w].dest
    BY <1>0, <2>1
  <2>3. QED
    BY <2>2
<1>5. ASSUME NEW u \in Uploads,
             CompleteJob(u) \/ FailUpload(u) \/ CompletionFails(u)
      PROVE  ToSet(upload[w].dest) \subseteq ToSet(upload'[w].dest)
  <2>1. upload' = [upload EXCEPT ![u] = Ended(u)]
    BY <1>5, LastStep
  <2>2. upload'[w].dest = upload[w].dest
    BY <1>0, <2>1, EndedRecord
  <2>3. QED
    BY <2>2
<1>6. CASE Crash
  <2>1. upload'[w].dest = upload[w].dest
    BY <1>6, EndedRecord DEF Crash
  <2>2. QED
    BY <2>1
<1>7. QED
  BY <1>1, <1>2, <1>3, <1>4, <1>5, <1>6, UploadWriters DEF UploadStep

(***************************************************************************)
(* A file under a name that only this request has reserved is its own.     *)
(***************************************************************************)
LEMMA AloneIsOwn ==
    ASSUME LibraryInvariant, TypesInvariant, MountedOnly,
           NEW u \in Uploads, NEW i \in 1..Len(upload[u].dest),
           upload[u].dest[i] \in DOMAIN disk, Alone(u, upload[u].dest[i])
    PROVE  OnDisk(u, upload[u].dest[i])
<1> DEFINE p == upload[u].dest[i]
<1>1. disk[p].by \in Uploads \cup {None}
  BY DEF TypesInvariant, DiskTyped, Content
<1>2. p.name \in Names
  BY RequestTyped DEF OwnDest
<1>3. disk[p].by # None
  BY <1>2, LibraryAssumption DEF MountedOnly
<1>4. ASSUME NEW w \in Uploads \ {u} PROVE disk[p].by # w
  BY <1>4 DEF Alone, Reserved, LibraryInvariant, DataReserved
<1>5. QED
  BY <1>1, <1>3, <1>4 DEF OnDisk

(***************************************************************************)
(* One removal at a time finds its row as it has read it.                  *)
(***************************************************************************)
LEMMA RemovalStaysCurrent ==
    ASSUME OneRemoval, TypesInvariant, FilesInvariant, [Next]_vars
    PROVE  RemovalCurrent'
<1>0. RemovalCurrent /\ removal \in [Removers -> [at : {Idle, "checked", "unlinked"},
                                                row : Row \cup {None}]]
  BY DEF FilesInvariant, TypesInvariant, RemovalTyped
<1>1. ASSUME UNCHANGED removal, rows \subseteq rows'
      PROVE  RemovalCurrent'
  BY <1>0, <1>1 DEF RemovalCurrent
<1>2. ASSUME NEW t \in Removers, NEW r \in rows, RemovalReads(t, r)
      PROVE  RemovalCurrent'
  <2>1. UNCHANGED rows /\ ~r.hidden
        /\ removal' = [removal EXCEPT ![t] = [at |-> "checked", row |-> r]]
    BY <1>2 DEF RemovalReads
  <2>2. QED
    BY <1>0, <2>1 DEF RemovalCurrent
<1>3. ASSUME NEW t \in Removers, RemovalUnlinks(t)
      PROVE  RemovalCurrent'
  <2>1. UNCHANGED rows /\ removal[t].at = "checked"
        /\ removal' = [removal EXCEPT ![t].at = "unlinked"]
    BY <1>3 DEF RemovalUnlinks
  <2>2. QED
    BY <1>0, <2>1 DEF RemovalCurrent, Idle
<1>4. ASSUME NEW t \in Removers, RemovalCommits(t) \/ RemovalFails(t)
      PROVE  RemovalCurrent'
  <2>1. \A s \in Removers : removal'[s] = NoRemoval
    BY <1>0, <1>4 DEF RemovalCommits, RemovalFails, OneRemoval
  <2>2. QED
    BY <2>1 DEF RemovalCurrent, NoRemoval
<1>5. CASE Crash
  BY <1>5 DEF Crash, RemovalCurrent, NoRemoval
<1>6. ASSUME NEW r \in rows, RestoreImage(r)
      PROVE  RemovalCurrent'
  <2>1. /\ r.hidden /\ UNCHANGED removal
        /\ rows \ {r} \subseteq rows'
    BY <1>6 DEF RestoreImage
  <2>2. QED
    BY <1>0, <2>1 DEF RemovalCurrent
<1>7. ASSUME NEW u \in Uploads, InsertLastRow(u)
      PROVE  RemovalCurrent'
  BY <1>1, <1>7 DEF InsertLastRow, Inserted
<1>8. CASE DiscoverCommits
  BY <1>1, <1>8 DEF DiscoverCommits, RowsFound, Inserted
<1>9. CASE UNCHANGED <<rows, removal>>
  BY <1>1, <1>9
<1>10. QED
  BY <1>2, <1>3, <1>4, <1>5, <1>6, <1>7, <1>8, <1>9
  DEF Next, vars, BeginUpload, UploadStep, OnHeadersFinished, Finish,
      StreamEnds, InsertRow, CompleteJob, FailUpload, CompletionFails,
      DiscoveryStep, DiscoverReads, DiscoverWalks, DiscoverFails

(***************************************************************************)
(* The rows of uploads after a step: the ones before it, or the ones a     *)
(* request inserts.                                                        *)
(***************************************************************************)
LEMMA UploadRowsFrom ==
    ASSUME TypesInvariant, FilesInvariant, [Next]_vars,
           NEW r \in rows', r.by # None
    PROVE  \/ r \in rows
           \/ \E u \in Uploads : /\ InsertLastRow(u)
                                 /\ r.by = u /\ ~r.hidden
                                 /\ \E i \in 1..Len(upload[u].dest) :
                                       r.path = upload[u].dest[i]
<1>0. rows \subseteq Row /\ RowsDistinct /\ RemovalCurrent /\ UploadRows
  BY DEF TypesInvariant, FilesInvariant
<1>1. CASE UNCHANGED rows
  BY <1>1
<1>2. ASSUME NEW u \in Uploads, InsertLastRow(u), r \notin rows
      PROVE  /\ r.by = u /\ ~r.hidden
             /\ \E i \in 1..Len(upload[u].dest) : r.path = upload[u].dest[i]
  <2>1. rows' = Inserted(upload[u].dest, u)
    BY <1>2 DEF InsertLastRow
  <2>2. PICK i \in DOMAIN upload[u].dest :
           r = [id |-> LastId(rows) + i, path |-> upload[u].dest[i],
                hidden |-> FALSE, by |-> u]
    BY <1>2, <2>1 DEF Inserted
  <2>3. r.by = u /\ ~r.hidden /\ r.path = upload[u].dest[i]
    BY <2>2
  <2>4. QED
    BY <2>2, <2>3, RequestTyped
<1>3. ASSUME DiscoverCommits PROVE r \in rows
  BY <1>3 DEF DiscoverCommits, RowsFound, Inserted
<1>4. ASSUME NEW t \in Removers, RemovalCommits(t) PROVE r \in rows
  <2> DEFINE gone == removal[t].row
  <2>1. gone \in rows
    BY <1>0, <1>4 DEF RemovalCommits, RemovalCurrent, Idle
  <2>2. CASE Managed(gone.path)
    BY <1>4, <2>2 DEF RemovalCommits, RowsAfterRemoval
  <2>3. CASE ~Managed(gone.path)
    <3>1. PICK s \in rows : r = IF s.id = gone.id
                                THEN [s EXCEPT !.hidden = TRUE] ELSE s
      BY <1>4, <2>3 DEF RemovalCommits, RowsAfterRemoval
    <3>2. CASE s.id = gone.id
      <4>1. s = gone
        BY <1>0, <2>1, <3>2 DEF RowsDistinct
      <4>2. r.by = s.by
        BY <1>0, <3>1, <3>2, RowHidden
      <4>3. QED
        BY <1>0, <2>1, <2>3, <4>1, <4>2 DEF UploadRows
    <3>3. QED
      BY <3>1, <3>2
  <2>4. QED
    BY <2>2, <2>3
<1>5. ASSUME NEW s \in rows, RestoreImage(s) PROVE r \in rows
  <2>1. /\ s.hidden
        /\ rows' = (rows \ {s}) \cup {[s EXCEPT !.hidden = FALSE]}
    BY <1>5 DEF RestoreImage
  <2>2. [s EXCEPT !.hidden = FALSE].by = s.by
    BY <1>0, RowHidden
  <2>3. s.by = None
    BY <1>0, <2>1 DEF UploadRows
  <2>4. QED
    BY <2>1, <2>2, <2>3
<1>6. QED
  BY <1>1, <1>2, <1>3, <1>4, <1>5, RowsWriters

LEMMA UploadRowsStay ==
    ASSUME TypesInvariant, FilesInvariant, [Next]_vars
    PROVE  UploadRows'
<1> SUFFICES ASSUME NEW r \in rows', r.by # None
             PROVE  Managed(r.path) /\ ~r.hidden
  BY DEF UploadRows, Managed
<1>1. CASE r \in rows
  BY <1>1 DEF FilesInvariant, UploadRows
<1>2. ASSUME NEW u \in Uploads, ~r.hidden,
             NEW i \in 1..Len(upload[u].dest), r.path = upload[u].dest[i]
      PROVE  Managed(r.path) /\ ~r.hidden
  BY <1>2, RequestTyped DEF OwnDest, Managed
<1>3. QED
  BY <1>1, <1>2, UploadRowsFrom

LEMMA MountedStay ==
    ASSUME TypesInvariant, FilesInvariant, [Next]_vars
    PROVE  MountedOnly'
<1>0. MountedOnly /\ None \notin Uploads
  BY LibraryAssumption DEF FilesInvariant
<1>1. CASE UNCHANGED disk
  BY <1>0, <1>1 DEF MountedOnly
<1>2. ASSUME NEW u \in Uploads, Finish(u) PROVE MountedOnly'
  <2> DEFINE c == [by |-> u, index |-> upload[u].finished + 1]
  <2>1. PICK q : disk' = Holding(q, c)
    BY <1>2 DEF Finish
  <2>2. c.by = u
    OBVIOUS
  <2> HIDE DEF c
  <2>3. QED
    BY <1>0, <2>1, <2>2 DEF MountedOnly, Holding
<1>3. ASSUME NEW ps, disk' = Without(ps) PROVE MountedOnly'
  BY <1>0, <1>3 DEF MountedOnly, Without
<1>4. QED
  BY <1>1, <1>2, <1>3, DiskWriters
  DEF FailUpload, CompletionFails, RemovalUnlinks

(***************************************************************************)
(* What a step does to a file that one request alone has reserved: it      *)
(* stays, unless that request is still running, or its row is removed.     *)
(***************************************************************************)
Fails(u) == FailUpload(u) \/ CompletionFails(u)

LEMMA FileStays ==
    ASSUME LibraryInvariant, TypesInvariant, [Next]_vars,
           NEW u \in Uploads, NEW p, OnDisk(u, p), Alone(u, p),
           ~Finish(u), ~Fails(u),
           \A t \in Removers : RemovalUnlinks(t) => removal[t].row.path # p
    PROVE  OnDisk(u, p)'
<1>1. CASE UNCHANGED disk
  BY <1>1 DEF OnDisk
<1>2. ASSUME NEW w \in Uploads, Finish(w) PROVE OnDisk(u, p)'
  <2> DEFINE i == upload[w].finished + 1
             c == [by |-> w, index |-> i]
  <2>1. /\ disk' = Holding(upload[w].dest[i], c)
        /\ i \in 1..Len(upload[w].dest)
    BY <1>2, RequestTyped DEF Finish
  <2>2. upload[w].dest[i] \in ToSet(upload[w].dest)
    BY <2>1, RequestTyped DEF ToSet
  <2>3. upload[w].dest[i] # p
    BY <1>2, <2>2 DEF Alone, Reserved
  <2> HIDE DEF c, i
  <2>4. QED
    BY <2>1, <2>3 DEF Holding, OnDisk
<1>3. ASSUME NEW w \in Uploads, Fails(w) PROVE OnDisk(u, p)'
  <2>1. disk' = Without(ToSet(upload[w].dest)) /\ p \notin ToSet(upload[w].dest)
    BY <1>3 DEF Fails, FailUpload, CompletionFails, UnlinkedBy, Alone, Reserved
  <2>2. QED
    BY <2>1 DEF Without, OnDisk
<1>4. ASSUME NEW t \in Removers, RemovalUnlinks(t) PROVE OnDisk(u, p)'
  <2>1. \/ UNCHANGED disk
        \/ disk' = Without({removal[t].row.path})
    BY <1>4 DEF RemovalUnlinks
  <2>2. QED
    BY <1>1, <1>4, <2>1 DEF Without, OnDisk
<1>5. QED
  BY <1>1, <1>2, <1>3, <1>4, DiskWriters DEF Fails

\* The rows a request has flushed after a step.
LEMMA FlushedFrom ==
    ASSUME TypesInvariant, [Next]_vars, NEW u \in Uploads,
           NEW i \in 1..upload'[u].flushed
    PROVE  /\ ~Finish(u) /\ ~Fails(u)
           /\ i \in 1..Len(upload[u].dest)
           /\ upload'[u].dest[i] = upload[u].dest[i]
           /\ upload[u].at = "validating"
           /\ \/ i \in 1..upload[u].flushed
              \/ /\ upload[u].dest[i] \in DOMAIN disk
                 /\ UNCHANGED disk
<1>0. /\ upload \in [Uploads -> Upload] /\ upload[u] \in Upload
      /\ Len(upload[u].dest) \in Nat
      /\ upload[u].flushed \in 0..MaxFiles /\ MaxFiles \in Nat
      /\ \A j \in 1..upload[u].flushed :
            /\ upload[u].at = "validating"
            /\ j \in 1..Len(upload[u].dest)
  BY RequestTyped, LibraryAssumption DEF TypesInvariant, HeldRowsFree
<1>1. CASE upload'[u] = upload[u]
  <2>1. upload[u].at = "validating" /\ i \in 1..upload[u].flushed
    BY <1>0, <1>1
  <2>2. ~Finish(u)
    BY <2>1 DEF Finish
  <2>3. ~Fails(u)
    <3>1. Fails(u) => upload'[u].at = "ended"
      BY <1>0, EndedRecord DEF Fails, FailUpload, CompletionFails
    <3>2. QED
      BY <1>1, <2>1, <3>1
  <2>4. QED
    BY <1>0, <1>1, <2>1, <2>2, <2>3
<1>2. CASE InsertRow(u)
  <2> DEFINE k == upload[u].flushed + 1
             new == [upload[u] EXCEPT !.flushed = k]
  <2>1. /\ upload[u].at = "validating" /\ k < Len(upload[u].dest)
        /\ upload[u].dest[k] \in DOMAIN disk
        /\ upload'[u] = new
        /\ UNCHANGED disk
    BY <1>0, <1>2 DEF InsertRow, CanInsert
  <2>2. k \in Nat
    BY <1>0
  <2> HIDE DEF k
  <2>3. new.flushed = k /\ new.dest = upload[u].dest /\ new.at = upload[u].at
    BY <1>0 DEF Upload
  <2>4. i \in 1..k /\ i \in 1..Len(upload[u].dest)
    BY <1>0, <2>1, <2>2, <2>3
  <2>5. i \in 1..upload[u].flushed \/ i = k
    BY <1>0, <2>4 DEF k
  <2>6. ~Finish(u)
    BY <2>1 DEF Finish
  <2>7. ~Fails(u)
    <3>1. Fails(u) => upload'[u].at = "ended"
      BY <1>0, EndedRecord DEF Fails, FailUpload, CompletionFails
    <3>2. QED
      BY <2>1, <2>3, <3>1
  <2>8. QED
    BY <2>1, <2>3, <2>4, <2>5, <2>6, <2>7
\* Every other step of this request leaves it without flushed rows.
<1>3. CASE upload'[u].flushed = 0
  <2>1. 1..0 = {}
    OBVIOUS
  <2>2. QED
    BY <1>3, <2>1
<1>4. upload'[u] = upload[u] \/ InsertRow(u) \/ upload'[u].flushed = 0
  <2>1. CASE UNCHANGED upload
    BY <2>1
  <2>2. ASSUME NEW w \in Uploads, NEW names \in BoundedSeq(Names, MaxFiles),
               BeginUpload(w, names)
        PROVE  upload'[u] = upload[u] \/ upload'[u].flushed = 0
    <3> DEFINE new == [NoUpload EXCEPT !.at = "receiving", !.names = names]
    <3>1. new.flushed = 0 /\ upload' = [upload EXCEPT ![w] = new]
      BY <2>2, FreshTyped DEF BeginUpload, Upload
    <3> HIDE DEF new
    <3>2. QED
      BY <1>0, <3>1
  <2>8. ASSUME NEW w \in Uploads, InsertLastRow(w)
        PROVE  upload'[u] = upload[u] \/ upload'[u].flushed = 0
    <3> DEFINE new == [upload[w] EXCEPT !.at = "committed", !.flushed = 0]
    <3>1. upload' = [upload EXCEPT ![w] = new] /\ new.flushed = 0
      BY <2>8, RequestTyped DEF InsertLastRow, Upload
    <3> HIDE DEF new
    <3>2. QED
      BY <1>0, <3>1
  <2>3. ASSUME NEW w \in Uploads,
               CompleteJob(w) \/ FailUpload(w) \/ CompletionFails(w)
        PROVE  upload'[u] = upload[u] \/ upload'[u].flushed = 0
    <3>1. upload' = [upload EXCEPT ![w] = Ended(w)]
      BY <2>3, LastStep
    <3>2. QED
      BY <1>0, <3>1, EndedRecord
  <2>4. CASE Crash
    <3>1. CASE upload[u].at \in Open
      BY <2>4, <3>1, EndedRecord DEF Crash, Open
    <3>2. CASE upload[u].at \notin Open
      BY <2>4, <3>2 DEF Crash, Open
    <3>3. QED
      BY <3>1, <3>2
  <2>5. ASSUME NEW w \in Uploads,
               OnHeadersFinished(w) \/ Finish(w) \/ StreamEnds(w)
        PROVE  upload'[u] = upload[u] \/ upload'[u].flushed = 0
    <3>1. \A v \in Uploads \ {w} : upload'[v] = upload[v]
      BY <1>0, <2>5 DEF OnHeadersFinished, Finish, StreamEnds
    <3>2. CASE w # u
      BY <3>1, <3>2
    <3>3. CASE w = u
      <4>1. holder' = holder /\ upload[u].at = "receiving"
        BY <2>5, <3>3 DEF OnHeadersFinished, Finish, StreamEnds
      <4>2. upload[u].flushed = 0
        BY <1>0, <4>1
      <4>3. upload'[u].flushed = upload[u].flushed
        BY <1>0, <2>5, <3>3, ReceivingStep
      <4>4. QED
        BY <4>2, <4>3
    <3>4. QED
      BY <3>2, <3>3
  <2>6. ASSUME NEW w \in Uploads \ {u}, InsertRow(w)
        PROVE  upload'[u] = upload[u]
    BY <1>0, <2>6 DEF InsertRow
  <2>7. QED
    BY <2>1, <2>2, <2>3, <2>4, <2>5, <2>6, <2>8, UploadWriters DEF UploadStep
<1>5. QED
  BY <1>1, <1>2, <1>3, <1>4

(***************************************************************************)
(* Files of flushed rows stay: the request holds the write lock, so no     *)
(* row, and hence no removal, has got one of their paths.                  *)
(***************************************************************************)
LEMMA FlushedStayKept ==
    ASSUME LibraryInvariant, TypesInvariant, FilesInvariant, [Next]_vars
    PROVE  FlushedKept'
<1> SUFFICES ASSUME NEW u \in Uploads, NEW i \in 1..upload'[u].flushed,
                    NEW q, q = upload'[u].dest[i], Alone(u, q)'
             PROVE  OnDisk(u, q)'
  BY DEF FlushedKept, Alone, OnDisk, Reserved
<1>1. /\ ~Finish(u) /\ ~Fails(u)
      /\ i \in 1..Len(upload[u].dest)
      /\ upload[u].dest[i] = q
      /\ i \in 1..upload[u].flushed \/ (q \in DOMAIN disk /\ UNCHANGED disk)
  BY FlushedFrom
<1>2. Alone(u, q)
  BY ReservedStays
<1>3. OnDisk(u, q)
  <2>1. CASE i \in 1..upload[u].flushed
    BY <1>1, <1>2, <2>1 DEF FilesInvariant, FlushedKept
  <2>2. CASE q \in DOMAIN disk
    BY <1>1, <1>2, <2>2, AloneIsOwn DEF FilesInvariant
  <2>3. QED
    BY <1>1, <2>1, <2>2
<1>4. CASE i \in 1..upload[u].flushed
  <2>1. q \notin PathsOf(rows)
    <3>1. upload[u].flushed > 0
      BY <1>4, RequestTyped, LibraryAssumption
    <3>2. QED
      BY <1>1, <1>4, <3>1 DEF TypesInvariant, HeldRowsFree
  <2>2. \A t \in Removers : RemovalUnlinks(t) => removal[t].row.path # q
    BY <2>1 DEF RemovalUnlinks, FilesInvariant, RemovalCurrent, PathsOf, Idle
  <2>3. QED
    BY <1>1, <1>2, <1>3, <2>2, FileStays
<1>5. CASE UNCHANGED disk
  BY <1>3, <1>5 DEF OnDisk
<1>6. QED
  BY <1>1, <1>4, <1>5

(***************************************************************************)
(* A request with rows that stands after a step stood before it.           *)
(***************************************************************************)
LEMMA StandingStays ==
    ASSUME LibraryInvariant, TypesInvariant, [Next]_vars, NEW r \in rows,
           NEW u \in Uploads, r.by = u, Standing(u)'
    PROVE  Standing(u) /\ ~Finish(u) /\ ~Fails(u)
<1>0. /\ upload \in [Uploads -> Upload]
      /\ job \in [Uploads -> {None, "running", "completed", "failed"}]
      /\ upload[u].at \in {"committed", "ended"}
      /\ upload[u].at = "committed" => job[u] = "running"
      /\ job[u] = "completed" => upload[u].at = "ended"
  BY DEF TypesInvariant, OthersTyped, LibraryInvariant, RowsFollow, JobFollows,
         Open
<1>1. Standing(u)
  <2>1. CASE UNCHANGED <<upload, job>>
    BY <2>1 DEF Standing
  <2>2. ASSUME NEW w \in Uploads, NEW names \in BoundedSeq(Names, MaxFiles),
               BeginUpload(w, names)
        PROVE  Standing(u)
    BY <1>0, <2>2 DEF BeginUpload, Standing
  <2>3. ASSUME NEW w \in Uploads,
               \/ OnHeadersFinished(w) \/ Finish(w) \/ StreamEnds(w)
               \/ InsertRow(w) \/ InsertLastRow(w)
        PROVE  Standing(u)
    BY <1>0, <2>3
    DEF OnHeadersFinished, Finish, StreamEnds, InsertRow, InsertLastRow,
        CanInsert, Standing
  <2>4. ASSUME NEW w \in Uploads,
               CompleteJob(w) \/ FailUpload(w) \/ CompletionFails(w)
        PROVE  Standing(u)
    <3>1. CASE w = u
      <4>1. upload'[u].at = "ended" /\ job'[u] = "completed"
        BY <1>0, <2>4, <3>1, LastStep, EndedRecord DEF Standing
      <4>2. QED
        BY <1>0, <2>4, <3>1, <4>1
        DEF CompleteJob, FailUpload, CompletionFails, JobFails, Standing
    <3>2. CASE w # u
      <4>1. upload'[u] = upload[u]
        BY <1>0, <2>4, <3>2, LastStep
      <4>2. job'[u] = job[u]
        BY <1>0, <2>4, <3>2
        DEF CompleteJob, FailUpload, CompletionFails, JobFails
      <4>3. QED
        BY <4>1, <4>2 DEF Standing
    <3>3. QED
      BY <3>1, <3>2
  <2>5. CASE Crash
    <3>1. upload'[u] = upload[u] \/ upload'[u].at = "ended"
      BY <2>5, EndedRecord DEF Crash
    <3>2. QED
      BY <2>5, <3>1 DEF Crash, Standing
  <2>6. QED
    BY <2>1, <2>2, <2>3, <2>4, <2>5, UploadWriters DEF UploadStep
<1>2. ~Finish(u) /\ ~FailUpload(u)
  BY <1>0 DEF Finish, FailUpload
<1>3. ~CompletionFails(u)
  <2> SUFFICES ASSUME CompletionFails(u) PROVE FALSE
    OBVIOUS
  <2>1. upload'[u].at = "ended"
    BY <1>0, LastStep, EndedRecord
  <2>2. job'[u] # "completed"
    BY <1>0 DEF CompletionFails, JobFails
  <2>3. QED
    BY <2>1, <2>2 DEF Standing
<1>4. QED
  BY <1>1, <1>2, <1>3 DEF Fails

(***************************************************************************)
(* Files of committed rows stay, unless the row's own removal unlinks them.*)
(***************************************************************************)
LEMMA RowsStayKept ==
    ASSUME OneRemoval, LibraryInvariant, TypesInvariant, FilesInvariant,
           [Next]_vars
    PROVE  RowsKept'
<1> SUFFICES ASSUME NEW r \in rows', r.by # None, Standing(r.by)',
                    r \notin torn', ~Unlinked(r)', Alone(r.by, r.path)'
             PROVE  OnDisk(r.by, r.path)'
  BY DEF RowsKept
<1>0. /\ RemovalCurrent /\ UploadRows /\ RowsDistinct /\ rows \subseteq Row
      /\ removal \in [Removers -> [at : {Idle, "checked", "unlinked"},
                                  row : Row \cup {None}]]
  BY DEF FilesInvariant, TypesInvariant, RemovalTyped
<1>1. Alone(r.by, r.path)
  BY ReservedStays
<1>2. CASE r \in rows
  <2>1. r.by \in Uploads
    BY <1>0, <1>2 DEF Row
  <2>2. Standing(r.by) /\ ~Finish(r.by) /\ ~Fails(r.by)
    BY <1>2, <2>1, StandingStays
  \* A removal under way has this row, or another one with another path.
  <2>3. ASSUME NEW t \in Removers, RemovalUnlinks(t)
        PROVE  removal[t].row.path # r.path
    <3>1. removal[t].row \in rows /\ removal'[t].at = "unlinked"
          /\ removal'[t].row = removal[t].row
      BY <1>0, <2>3 DEF RemovalUnlinks, RemovalCurrent, Idle
    <3>2. removal[t].row # r
      BY <3>1 DEF Unlinked
    <3>3. QED
      BY <1>0, <1>2, <3>1, <3>2 DEF RowsDistinct
  <2>4. ~Unlinked(r)
    <3> SUFFICES ASSUME NEW t \in Removers, removal[t].at = "unlinked",
                        removal[t].row = r
                 PROVE  FALSE
      BY DEF Unlinked
    <3>1. CASE UNCHANGED removal
      BY <3>1 DEF Unlinked
    <3>2. ASSUME NEW s \in Removers, NEW q \in rows, RemovalReads(s, q)
          PROVE  FALSE
      BY <3>2 DEF RemovalReads, OneRemoval, Idle
    <3>3. ASSUME NEW s \in Removers, RemovalUnlinks(s) PROVE FALSE
      BY <3>3 DEF RemovalUnlinks, OneRemoval
    <3>0. Managed(r.path)
      BY <1>0, <1>2 DEF UploadRows
    <3>4. ASSUME NEW s \in Removers, RemovalCommits(s) PROVE FALSE
      <4>1. s = t
        BY DEF OneRemoval
      <4>3. rows' = {x \in rows : x.id # r.id}
        BY <3>0, <3>4, <4>1 DEF RemovalCommits, RowsAfterRemoval
      <4>4. QED
        BY <4>3
    <3>5. CASE Crash \/ \E s \in Removers : RemovalFails(s)
      <4>1. r \in HalfRemoved(Removers) /\ r \in HalfRemoved({t})
        BY <3>0 DEF HalfRemoved
      <4>2. Crash \/ RemovalFails(t)
        BY <3>5 DEF OneRemoval
      <4>3. r \in torn'
        BY <4>1, <4>2 DEF Crash, RemovalFails
      <4>4. QED
        BY <4>3
    <3>6. QED
      BY <3>1, <3>2, <3>3, <3>4, <3>5
      DEF Next, vars, BeginUpload, UploadStep, OnHeadersFinished, Finish,
          StreamEnds, InsertRow, InsertLastRow, CompleteJob, FailUpload,
          CompletionFails, DiscoveryStep, DiscoverReads, DiscoverWalks,
          DiscoverCommits, DiscoverFails, RestoreImage
  <2>5. r \notin torn
    <3>1. torn \cap rows' \subseteq torn'
      BY DEF Next, vars, BeginUpload, UploadStep, OnHeadersFinished, Finish,
             StreamEnds, InsertRow, InsertLastRow, CompleteJob, FailUpload,
             CompletionFails, DiscoveryStep, DiscoverReads, DiscoverWalks,
             DiscoverCommits, DiscoverFails, RemovalReads, RemovalUnlinks,
             RemovalCommits, RemovalFails, RestoreImage, Crash
    <3>2. QED
      BY <3>1
  <2>6. OnDisk(r.by, r.path)
    BY <1>1, <1>2, <2>2, <2>4, <2>5 DEF FilesInvariant, RowsKept
  <2>7. PICK u \in Uploads, p \in {r.path} : u = r.by
    BY <2>1
  <2>8. OnDisk(u, p)'
    BY <1>1, <2>2, <2>3, <2>6, <2>7, FileStays
  <2>9. QED
    BY <2>7, <2>8
<1>3. ASSUME NEW u \in Uploads, InsertLastRow(u), r.by = u,
             NEW i \in 1..Len(upload[u].dest), r.path = upload[u].dest[i]
      PROVE  OnDisk(r.by, r.path)'
  <2>1. /\ UNCHANGED disk
        /\ upload[u].flushed + 1 = Len(upload[u].dest)
        /\ upload[u].dest[upload[u].flushed + 1] \in DOMAIN disk
    BY <1>3 DEF InsertLastRow, CanInsert
  <2>2. OnDisk(u, upload[u].dest[i])
    <3>1. CASE i = upload[u].flushed + 1
      BY <1>1, <1>3, <2>1, <3>1, AloneIsOwn DEF FilesInvariant
    <3>2. CASE i # upload[u].flushed + 1
      <4>1. i \in 1..upload[u].flushed
        BY <2>1, <3>2, RequestTyped
      <4>2. QED
        BY <1>1, <1>3, <4>1 DEF FilesInvariant, FlushedKept
    <3>3. QED
      BY <3>1, <3>2
  <2>3. QED
    BY <1>3, <2>1, <2>2 DEF OnDisk
<1>4. QED
  BY <1>2, <1>3, UploadRowsFrom

LEMMA InitFiles == Init => FilesInvariant
<1> SUFFICES ASSUME Init PROVE FilesInvariant
  OBVIOUS
<1>1. RemovalCurrent /\ UploadRows /\ RowsKept
  BY DEF Init, NoRemoval, RemovalCurrent, UploadRows, RowsKept
<1>2. MountedOnly
  BY DEF Init, MountedOnly, Base
<1>3. FlushedKept
  <2>1. \A u \in Uploads : upload[u].flushed = 0
    BY FreshTyped DEF Init
  <2>2. 1..0 = {}
    OBVIOUS
  <2>3. QED
    BY <2>1, <2>2 DEF FlushedKept
<1>4. QED
  BY <1>1, <1>2, <1>3 DEF FilesInvariant

\* Files, rows and removals stay in step, with one removal at a time.
THEOREM FilesInductive ==
    ASSUME OneRemoval
    PROVE  Spec => []FilesInvariant
<1>1. /\ FilesInvariant /\ LibraryInvariant /\ TypesInvariant /\ [Next]_vars
      => FilesInvariant'
  BY RemovalStaysCurrent, UploadRowsStay, MountedStay, FlushedStayKept,
     RowsStayKept DEF FilesInvariant
<1>2. QED
  BY <1>1, InitFiles, LibraryInductive, TypesInductive, PTL DEF Spec

\* An upload that was reported as completed and is alone with its stored names
\* keeps its archives, whatever other requests, failing ones too, discovery and
\* crashes do, for any requests, names, mounted
\* roots and bounds, as long as images are removed one at a time.  (Two removals
\* of one image beside an upload of its name break it.)
THEOREM LoneUploadsAreKept ==
    ASSUME OneRemoval
    PROVE  Spec => []LoneUploadKeepsFiles
<1>1. FilesInvariant => LoneUploadKeepsFiles
  BY DEF FilesInvariant, RowsKept, LoneUploadKeepsFiles, BeingRemoved, Unlinked,
         Standing, Alone, OnDisk
<1>2. QED
  BY <1>1, FilesInductive, PTL

\* Only restore_image shows a removed image again: discovery finds the archive
\* but not a new path, and the removal of another image has another row.  A
\* second removal of one image could come after its id has been given away.
THEOREM HiddenImagesStay ==
    ASSUME OneRemoval
    PROVE  Spec => HiddenStaysHidden
<1> DEFINE Stays(r) == r.hidden => r \in rows' \/ RestoreImage(r)
<1>1. ASSUME TypesInvariant, FilesInvariant, [Next]_vars
      PROVE  \A r \in rows : Stays(r)
  <2> SUFFICES ASSUME NEW r \in rows, r.hidden, r \notin rows'
               PROVE  RestoreImage(r)
    OBVIOUS
  <2>1. ASSUME rows \subseteq rows' PROVE FALSE
    BY <2>1
  <2>2. ASSUME NEW u \in Uploads, InsertLastRow(u) PROVE FALSE
    BY <2>1, <2>2 DEF InsertLastRow, Inserted
  <2>3. ASSUME DiscoverCommits PROVE FALSE
    BY <2>1, <2>3 DEF DiscoverCommits, RowsFound, Inserted
  <2>4. ASSUME NEW t \in Removers, RemovalCommits(t) PROVE FALSE
    <3> DEFINE gone == removal[t].row
    <3>1. gone \in rows /\ ~gone.hidden
      BY <1>1, <2>4 DEF RemovalCommits, FilesInvariant, RemovalCurrent, Idle
    <3>2. r.id # gone.id
      BY <1>1, <3>1 DEF TypesInvariant, RowsDistinct
    <3>3. r \in rows'
      BY <2>4, <3>2 DEF RemovalCommits, RowsAfterRemoval
    <3>4. QED
      BY <3>3
  <2>5. ASSUME NEW s \in rows, RestoreImage(s) PROVE s = r
    BY <2>5 DEF RestoreImage
  <2>6. QED
    BY <1>1, <2>1, <2>2, <2>3, <2>4, <2>5, RowsWriters
<1>2. /\ TypesInvariant /\ FilesInvariant /\ [Next]_vars
      => [\A r \in rows : Stays(r)]_vars
  BY <1>1
<1>3. QED
  BY <1>2, FilesInductive, TypesInductive, PTL DEF Spec, HiddenStaysHidden
===============================================================================
