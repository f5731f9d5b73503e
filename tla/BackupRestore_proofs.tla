-------------------------- MODULE BackupRestore_proofs --------------------------
(***************************************************************************)
(* Proofs about backup and restore, for any scans, images, stages and      *)
(* bounds.  A READY marker is always in a directory whose import was not    *)
(* refused; a backup has the file of every row it has; and, as long as at  *)
(* most one swap raises or is killed, what is served is one data set, but  *)
(* for a database that a foreign log was replayed into.                    *)
(***************************************************************************)
EXTENDS BackupRestore, FiniteSetTheorems, TLAPS

\* The types.
Piece == [from: Worlds \cup {Nobody}, has: SUBSET Items,
          sessions: SUBSET Worlds]
DataSet == [Part -> Piece]
Copy == [data: DataSet, gone: SUBSET Items]
Unpacked == [state: States,
             data: DataSet, left: SUBSET Part,
             calls: SUBSET {"restore", "cancel"}]
Exported == [copied: 0..4, data: DataSet, gone: SUBSET Items]
Swapped == [token: Tokens \cup {"none"}, done: 0..5, away: BOOLEAN,
            rollback: DataSet, before: SUBSET Items]

Typed == /\ live \in DataSet
         /\ view \in Piece
         /\ world \in Nat
         /\ export \in Exported
         /\ tickets \subseteq Copy /\ held \subseteq Copy
         /\ stages \in [Tokens -> Unpacked]
         /\ swap \in Swapped

\* A swap has a stage, and takes the parts one by one.
SwapHasStage == up = "swapping" => swap.token \in Tokens
AwayBeforeEnd == swap.away => swap.done < 4

Types == Typed /\ SwapHasStage /\ AwayBeforeEnd

\* Each stage is used up by at most one restore, and none is imported after
\* MaxRestores of them.
InUse == {t \in Tokens : stages[t].state # "none"}
WorldsLeft == world + Cardinality(InUse) <= MaxRestores + Cardinality(Tokens)

\* What a confirmation may still come for was staged, and may have been
\* cancelled since; what a swap installs is staged; and what is marked READY
\* is there, and unpacked.
ConfirmsStaged == \A t \in Tokens : "restore" \in stages[t].calls
                              => stages[t].state \notin {"extracting", "partial"}
SwapsStaged == IF up = "swapping" THEN stages[swap.token].state = "staged"
               ELSE swap.token = "none"
MarkersStaged == /\ pending \in Seq(Tokens)
                 /\ IsInjective(pending)
                 /\ \A n \in DOMAIN pending :
                       stages[pending[n]].state \notin {"none", "extracting"}

\* The bounds of the model, and the process.
Counts == /\ up \in {"running", "leaving", "down", "swapping"}
          /\ changes \in 0..MaxChanges
          /\ exported \in 0..MaxExports
          /\ troubles \in Seq({"raised", "killed", "late"})

Stages == WorldsLeft /\ ConfirmsStaged /\ SwapsStaged /\ MarkersStaged

IndInv == Types /\ Stages /\ Counts

-------------------------------------------------------------------------------
(* The parts, and the records that are constants. *)

LEMMA PartsAre ==
    /\ Part = {"database", "auth.key", "raw", "uploads"}
    /\ Len(Parts) = 4
    /\ Parts[1] = "database" /\ Parts[2] = "auth.key"
    /\ Parts[3] = "raw" /\ Parts[4] = "uploads"
    /\ \A n \in 1..4 : Parts[n] \in Part
  BY DEF Part, Parts, ToSet

LEMMA WorldsAre == Cardinality(Tokens) \in Nat /\ 0 \in Worlds /\ Worlds \subseteq Nat
<1>1. Cardinality(Tokens) \in Nat
  BY BackupAssumption, FS_CardinalityType
<1> QED BY <1>1, BackupAssumption DEF Worlds

LEMMA InUseCounted ==
    /\ IsFiniteSet(InUse) /\ Cardinality(InUse) \in Nat
    /\ Cardinality(InUse) <= Cardinality(Tokens)
<1>1. InUse \in SUBSET Tokens
  BY DEF InUse
<1> QED BY <1>1, BackupAssumption, FS_Subset, FS_CardinalityType

\* The data set that is live, and the one a swap installs, are counted.
LEMMA WorldsReached ==
    ASSUME Types, Stages
    PROVE  /\ world \in Worlds
           /\ up = "swapping" => world + 1 \in Worlds
<1>1. /\ world \in Nat /\ MaxRestores \in Nat
      /\ world + Cardinality(InUse) <= MaxRestores + Cardinality(Tokens)
  BY BackupAssumption DEF Types, Typed, Stages, WorldsLeft
<1>2. ASSUME up = "swapping" PROVE Cardinality(InUse) # 0
  <2>1. swap.token \in InUse
    BY <1>2 DEF InUse, Types, SwapHasStage, Stages, SwapsStaged
  <2> QED BY <2>1, InUseCounted, FS_EmptySet
<1> QED BY <1>1, <1>2, InUseCounted, WorldsAre DEF Worlds

LEMMA EmptyIsDataSet == Absent \in Piece /\ Empty \in DataSet
  BY DEF Absent, Empty, Piece, DataSet, Nobody

LEMMA NoStageTyped == NoStage \in Unpacked /\ NoExport \in Exported
                      /\ NoSwap \in Swapped
  BY EmptyIsDataSet DEF NoStage, Unpacked, States, NoExport, Exported, NoSwap,
     Swapped

LEMMA FileOfIsPart == \A i : FileOf(i) \in {"raw", "uploads"} /\ FileOf(i) \in Part
  BY PartsAre DEF FileOf

LEMMA WithPart ==
    ASSUME NEW D \in DataSet, NEW p \in Part, NEW c \in Piece
    PROVE  [D EXCEPT ![p] = c] \in DataSet
  BY DEF DataSet

LEMMA WithHas ==
    ASSUME NEW c \in Piece, NEW S \in SUBSET Items
    PROVE  [c EXCEPT !.has = S] \in Piece
  BY DEF Piece

LEMMA WithSessions ==
    ASSUME NEW c \in Piece, NEW S \in SUBSET Worlds
    PROVE  [c EXCEPT !.sessions = S] \in Piece
  BY DEF Piece

LEMMA SweptTyped ==
    ASSUME Typed, NEW old
    PROVE  Swept(old) \in [Tokens -> Unpacked]
<1>1. \A c \in SUBSET {"restore", "cancel"} :
         [NoStage EXCEPT !.calls = c] \in Unpacked
  BY NoStageTyped DEF Unpacked
<1>2. \A t \in Tokens : stages[t].calls \in SUBSET {"restore", "cancel"}
  BY DEF Typed, Unpacked
<1>3. \A t \in Tokens : Gone(t) \in Unpacked
  BY <1>1, <1>2 DEF Gone
<1> QED BY <1>3 DEF Swept, Typed

-------------------------------------------------------------------------------
(* Every step keeps the types. *)

LEMMA TypesInit == Init => Types
<1>1. [Absent EXCEPT !.from = 0] \in Piece
  BY EmptyIsDataSet, WorldsAre DEF Piece
<1>2. Init => live \in DataSet /\ view \in Piece
  BY <1>1, PartsAre DEF Init, DataSet
<1> QED
  BY <1>2, NoStageTyped DEF Init, Types, Typed, SwapHasStage, AwayBeforeEnd,
     NoSwap, Unpacked

LEMMA DataStepTypes ==
    ASSUME Types, UNCHANGED <<export, backupVars>>,
           live' \in DataSet, view' \in Piece
    PROVE  Types'
  BY DEF Types, Typed, SwapHasStage, AwayBeforeEnd, backupVars, exportVars,
     stageVars, processVars

LEMMA ItemTypes ==
    ASSUME Types, NEW i \in Scans \cup Images,
           UploadFile(i) \/ UploadRow(i) \/ ScanCompletes(i) \/ RemoveRow(i)
    PROVE  Types'
<1> DEFINE F == FileOf(i)
<1>1. /\ live \in DataSet /\ view \in Piece /\ F \in Part
      /\ live[F] \in Piece /\ i \in Items
  BY FileOfIsPart DEF Types, Typed, DataSet, Items
<1>2. [live EXCEPT ![F].has = @ \cup {i}] \in DataSet
  <2>1. live[F].has \cup {i} \in SUBSET Items
    BY <1>1 DEF Piece
  <2>2. [live[F] EXCEPT !.has = @ \cup {i}] \in Piece
    BY <1>1, <2>1, WithHas
  <2> QED BY <1>1, <2>2, WithPart
<1>3. \A S \in SUBSET Items : [view EXCEPT !.has = S] \in Piece
  BY <1>1, WithHas
<1>4. /\ view.has \cup {i} \in SUBSET Items
      /\ view.has \ {i} \in SUBSET Items
  BY <1>1 DEF Piece
<1>5. CASE UploadFile(i)
  BY <1>5, <1>1, <1>2, DataStepTypes DEF UploadFile, WithFile
<1>6. CASE UploadRow(i)
  BY <1>6, <1>1, <1>3, <1>4, DataStepTypes DEF UploadRow, Commit
<1>7. CASE ScanCompletes(i)
  BY <1>7, <1>1, <1>2, <1>3, <1>4, DataStepTypes
     DEF ScanCompletes, WithFile, Commit
<1>8. CASE RemoveRow(i)
  BY <1>8, <1>1, <1>3, <1>4, DataStepTypes DEF RemoveRow, Commit
<1> QED BY <1>5, <1>6, <1>7, <1>8

LEMMA WorkTypes ==
    ASSUME Types, Stages, WorkBegins \/ WorkEnds \/ SignIn \/ Checkpoint
    PROVE  Types'
<1>1. /\ live \in DataSet /\ view \in Piece
      /\ "job" \in Items /\ "database" \in Part
  BY PartsAre DEF Types, Typed, Items
<1>2. \A S \in SUBSET Items : [view EXCEPT !.has = S] \in Piece
  BY <1>1, WithHas
<1>3. /\ view.has \cup {"job"} \in SUBSET Items
      /\ view.has \ {"job"} \in SUBSET Items
  BY <1>1 DEF Piece
<1>4. CASE WorkBegins
  BY <1>4, <1>1, <1>2, <1>3, DataStepTypes DEF WorkBegins, Commit
<1>5. CASE WorkEnds
  BY <1>5, <1>1, <1>2, <1>3, DataStepTypes DEF WorkEnds, Commit
<1>6. CASE SignIn
  <2>1. view.sessions \cup {world} \in SUBSET Worlds
    BY <1>1, WorldsReached DEF Piece
  <2>2. [view EXCEPT !.sessions = @ \cup {world}] \in Piece
    BY <1>1, <2>1, WithSessions
  <2> QED BY <1>6, <1>1, <2>2, DataStepTypes DEF SignIn
<1>7. CASE Checkpoint
  BY <1>7, <1>1, WithPart, DataStepTypes DEF Checkpoint
<1> QED
  BY <1>4, <1>5, <1>6, <1>7

LEMMA RemoveFileTypes ==
    ASSUME Types, NEW i \in Scans \cup Images, RemoveFile(i)
    PROVE  Types'
<1> DEFINE F == FileOf(i)
<1>1. /\ live \in DataSet /\ F \in Part /\ live[F] \in Piece /\ i \in Items
  BY FileOfIsPart, PartsAre DEF Types, Typed, DataSet, Items
<1>2. live' \in DataSet
  <2>1. live[F].has \ {i} \in SUBSET Items
    BY <1>1 DEF Piece
  <2>2. [live[F] EXCEPT !.has = @ \ {i}] \in Piece
    BY <1>1, <2>1, WithHas
  <2> QED BY <1>1, <2>2, WithPart DEF RemoveFile
<1>3. export' \in Exported
  <2>1. export \in Exported /\ export.gone \cup {i} \in SUBSET Items
    BY <1>1 DEF Types, Typed, Exported
  <2>2. PICK S \in SUBSET Items : S = export.gone \cup {i}
    BY <2>1
  <2>3. [export EXCEPT !.gone = S] \in Exported
    BY <2>1 DEF Exported
  <2>4. export' = export \/ export' = [export EXCEPT !.gone = S]
    BY <2>2 DEF RemoveFile
  <2> QED BY <2>1, <2>3, <2>4
<1> QED
  BY <1>2, <1>3 DEF RemoveFile, Types, Typed, SwapHasStage, AwayBeforeEnd,
     backupVars, exportVars, stageVars, processVars

LEMMA CopyingTyped ==
    ASSUME Types, NEW n \in 1..4, NEW D \in DataSet
    PROVE  Copying(n, D) \in DataSet
<1>1. CopyOrder[n] \in Part
  BY PartsAre DEF CopyOrder
<1>2. CopyOf(CopyOrder[n]) \in Piece
  BY <1>1 DEF CopyOf, Types, Typed, DataSet
<1> QED BY <1>1, <1>2, WithPart DEF Copying

LEMMA ExportTypes ==
    ASSUME Types, ExportBegins \/ ExportCopies \/ ExportEnds \/ ExportFails
    PROVE  Types'
<1> USE DEF exportVars, stageVars, processVars, dataVars, backupVars
<1>1. CASE ExportBegins
  <2>1. PICK old \in StaleSets : stages' = Swept(old)
    BY <1>1 DEF ExportBegins, CleanupStale
  <2>2. stages' \in [Tokens -> Unpacked]
    BY <2>1, SweptTyped DEF Types
  <2>3. Copying(1, Empty) \in DataSet
    BY CopyingTyped, EmptyIsDataSet
  <2>4. export' \in Exported
    BY <1>1, <2>3 DEF ExportBegins, Exported, Types, Typed, Piece
  <2> QED
    BY <1>1, <2>2, <2>4 DEF ExportBegins, Types, Typed, SwapHasStage,
       AwayBeforeEnd
<1>2. CASE ExportCopies
  <2>1. export \in Exported /\ export.copied + 1 \in 1..4
    BY <1>2, PartsAre DEF ExportCopies, Types, Typed, Exported
  <2>2. Copying(export.copied + 1, export.data) \in DataSet
    BY <2>1, CopyingTyped DEF Exported
  <2>3. export' \in Exported
    <3>1. PICK n \in 0..4, D \in DataSet :
            /\ n = export.copied + 1 /\ D = Copying(n, export.data)
      BY <2>1, <2>2
    <3>2. export' = [export EXCEPT !.copied = n, !.data = D]
      BY <1>2, <3>1 DEF ExportCopies
    <3>3. [export EXCEPT !.copied = n] \in Exported
      BY <2>1 DEF Exported
    <3> QED BY <3>2, <3>3, <2>1 DEF Exported
  <2> QED
    BY <1>2, <2>3 DEF ExportCopies, Types, Typed, SwapHasStage, AwayBeforeEnd
<1>3. CASE ExportEnds
  <2>1. [data |-> export.data, gone |-> export.gone] \in Copy
    BY DEF Types, Typed, Exported, Copy
  <2> QED
    BY <1>3, <2>1, NoStageTyped DEF ExportEnds, Types, Typed, SwapHasStage,
       AwayBeforeEnd
<1>4. CASE ExportFails
  BY <1>4, NoStageTyped DEF ExportFails, Types, Typed, SwapHasStage,
     AwayBeforeEnd
<1> QED BY <1>1, <1>2, <1>3, <1>4

LEMMA TicketTypes ==
    ASSUME Types, NEW b \in tickets, Download(b) \/ TicketRemoved(b)
    PROVE  Types'
  BY DEF Download, TicketRemoved, Types, Typed, SwapHasStage, AwayBeforeEnd,
     dataVars, stageVars, processVars

\* A step that changes stages and markers only.
LEMMA StageStepTypes ==
    ASSUME Types, UNCHANGED <<dataVars, exportVars, world, swap>>,
           export' = export \/ export' = NoExport,
           up' # "swapping" \/ up' = up,
           stages' \in [Tokens -> Unpacked]
    PROVE  Types'
  BY NoStageTyped DEF Types, Typed, SwapHasStage, AwayBeforeEnd, dataVars,
     exportVars

LEMMA StageTypes ==
    ASSUME Types, NEW t \in Tokens,
           \/ ImportValidated(t) \/ ImportFails(t)
           \/ CancelChecks(t) \/ CancelLists(t)
           \/ CancelLeaves(t) \/ CancelRemoves(t)
           \/ RestoreChecks(t) \/ RestoreConfirms(t)
    PROVE  Types'
<1> USE DEF exportVars, processVars, dataVars
<1>1. stages[t] \in Unpacked /\ up \in {"running", "leaving", "down", "swapping"} \cup {up}
  BY DEF Types, Typed
<1>2. \A s \in Unpacked : [stages EXCEPT ![t] = s] \in [Tokens -> Unpacked]
  BY DEF Types, Typed
<1>3. /\ \A x \in States :
             [stages[t] EXCEPT !.state = x] \in Unpacked
      /\ \A c \in SUBSET {"restore", "cancel"} :
             /\ [stages[t] EXCEPT !.calls = c] \in Unpacked
             /\ [NoStage EXCEPT !.calls = c] \in Unpacked
  BY <1>1, NoStageTyped DEF Unpacked
<1>4. /\ stages[t].calls \cup {"cancel"} \in SUBSET {"restore", "cancel"}
      /\ stages[t].calls \cup {"restore"} \in SUBSET {"restore", "cancel"}
      /\ stages[t].calls \ {"cancel"} \in SUBSET {"restore", "cancel"}
      /\ stages[t].calls \ {"restore"} \in SUBSET {"restore", "cancel"}
  BY <1>1 DEF Unpacked
<1>5. CASE ImportValidated(t)
  <2>1. [stages[t] EXCEPT !.state = "staged", !.left = Part] \in Unpacked
    BY <1>1 DEF Unpacked, States
  <2> QED
    BY <1>5, <1>2, <2>1, StageStepTypes DEF ImportValidated, SetStage
<1>6. CASE ImportFails(t)
  BY <1>6, <1>2, <1>3, NoStageTyped, StageStepTypes
  DEF ImportFails, SetStage, States
<1>7. CASE CancelChecks(t)
  BY <1>7, <1>2, <1>3, <1>4, StageStepTypes DEF CancelChecks, SetStage
<1>8. CASE CancelLists(t) \/ CancelLeaves(t) \/ CancelRemoves(t)
  <2>1. CASE CancelLists(t)
    BY <2>1, <1>2, <1>3, StageStepTypes DEF CancelLists, SetStage, States
  <2>2. CASE CancelLeaves(t)
    <3>1. [stages[t] EXCEPT !.state = "hollow", !.calls = @ \ {"cancel"}]
             \in Unpacked
      BY <1>1, <1>4 DEF Unpacked, States
    <3> QED BY <2>2, <3>1, <1>2, StageStepTypes DEF CancelLeaves, SetStage
  <2>3. CASE CancelRemoves(t)
    BY <2>3, <1>2, <1>3, <1>4, StageStepTypes DEF CancelRemoves, SetStage
  <2> QED BY <1>8, <2>1, <2>2, <2>3
<1>9. CASE RestoreChecks(t)
  BY <1>9, <1>2, <1>3, <1>4, StageStepTypes DEF RestoreChecks, SetStage
<1>10. CASE RestoreConfirms(t)
  <2>1. stages' \in [Tokens -> Unpacked]
    BY <1>10, <1>2, <1>3, <1>4 DEF RestoreConfirms, SetStage
  <2>2. up' # "swapping" \/ up' = up
    BY <1>10 DEF RestoreConfirms
  <2> QED BY <1>10, <2>1, <2>2, StageStepTypes DEF RestoreConfirms
<1> QED BY <1>5, <1>6, <1>7, <1>8, <1>9, <1>10

LEMMA ImportBeginsTypes ==
    ASSUME Types, NEW t \in Tokens, NEW b \in held, ImportBegins(t, b)
    PROVE  Types'
<1>1. PICK old \in StaleSets :
        stages' = [Swept(old) EXCEPT ![t].state = "extracting",
                                     ![t].data = b.data]
  BY DEF ImportBegins
<1>2. Swept(old) \in [Tokens -> Unpacked] /\ b.data \in DataSet
  BY SweptTyped DEF Types, Typed, Copy
<1>3. [Swept(old) EXCEPT ![t].state = "extracting"] \in [Tokens -> Unpacked]
  BY <1>2 DEF Unpacked, States
<1>4. stages' \in [Tokens -> Unpacked]
  <2>1. PICK r \in [Tokens -> Unpacked] :
          /\ r = [Swept(old) EXCEPT ![t].state = "extracting"]
          /\ stages' = [r EXCEPT ![t].data = b.data]
    BY <1>1, <1>3
  <2>2. [r[t] EXCEPT !.data = b.data] \in Unpacked
    BY <1>2 DEF Unpacked
  <2> QED BY <2>1, <2>2
<1> QED
  BY <1>4, StageStepTypes DEF ImportBegins, dataVars, exportVars, processVars

LEMMA ProcessTypes ==
    ASSUME Types, Exit \/ Crash \/ Start
    PROVE  Types'
<1>1. CASE Exit \/ Crash
  <2>1. stages' \in [Tokens -> Unpacked]
    <3>1. ASSUME NEW t \in Tokens
          PROVE  [stages[t] EXCEPT
                    !.state = IF @ \in CutShort THEN "partial" ELSE @,
                    !.calls = {}] \in Unpacked
      <4>1. stages[t] \in Unpacked
        BY DEF Types, Typed
      <4>2. PICK st \in States :
              st = IF stages[t].state \in CutShort THEN "partial"
                   ELSE stages[t].state
        BY <4>1 DEF Unpacked, States
      <4>3. [stages[t] EXCEPT !.state = st, !.calls = {}] \in Unpacked
        BY <4>1 DEF Unpacked
      <4> QED
        BY <4>1, <4>2, <4>3 DEF Unpacked
    <3>2. stages' = [t \in Tokens |->
                        [stages[t] EXCEPT
                           !.state = IF @ \in CutShort THEN "partial" ELSE @,
                           !.calls = {}]]
      BY <1>1 DEF Exit, Crash, Ends
    <3> HIDE DEF Unpacked
    <3> QED BY <3>1, <3>2
  <2> QED BY <1>1, <2>1, StageStepTypes DEF Exit, Crash, Ends, dataVars,
             exportVars
<1>2. CASE Start
  BY <1>2, SweptTyped, StageStepTypes DEF Start, CleanupStale, Types,
     dataVars, exportVars
<1> QED BY <1>1, <1>2

-------------------------------------------------------------------------------
(* The swap. *)

LEMMA CurrentIsPart ==
    ASSUME Types, swap.done < Len(Parts)
    PROVE  Current \in Part /\ swap.done + 1 \in 1..4
  BY PartsAre DEF Types, Typed, Swapped, Current

LEMMA InstalledTyped ==
    ASSUME Types, Stages, up = "swapping", NEW p \in Part
    PROVE  Installed(p) \in Piece /\ Installed(p).from = world + 1
<1>1. stages[swap.token].data[p] \in Piece
  BY DEF Types, Typed, SwapHasStage, Unpacked, DataSet
<1> QED BY <1>1, WorldsReached DEF Installed, Piece

LEMMA SwapOverTyped ==
    ASSUME Types, NEW old, SwapOver(old)
    PROVE  stages' \in [Tokens -> Unpacked] /\ swap' = NoSwap
  BY SweptTyped DEF SwapOver, Types

LEMMA SwapTypes ==
    ASSUME Types, Stages,
                  \/ SwapBegins \/ MoveAway \/ Install
                  \/ SessionsDeleted \/ SwapEnds \/ SwapRaises \/ SwapKilled
    PROVE  Types'
<1> USE DEF exportVars, stageVars, dataVars
<1>0. /\ live \in DataSet /\ view \in Piece /\ world \in Nat
      /\ swap \in Swapped /\ "database" \in Part
      /\ live["database"] \in Piece
  BY PartsAre DEF Types, Typed, DataSet
<1>1. CASE SwapBegins
  <2>1. PICK t \in Tokens :
          swap' = [NoSwap EXCEPT !.token = t, !.before = view.has]
    BY <1>1 DEF SwapBegins
  <2>2. swap' \in Swapped /\ swap'.token = t /\ ~swap'.away
    BY <2>1, <1>0, NoStageTyped DEF Swapped, Piece, NoSwap
  <2> QED
    BY <1>0, <1>1, <2>2 DEF SwapBegins, Types, Typed, SwapHasStage,
       AwayBeforeEnd
<1>2. CASE MoveAway
  <2>1. Current \in Part /\ swap.done < 4
    BY <1>2, CurrentIsPart, PartsAre DEF MoveAway
  <2>2. live' \in DataSet
    BY <1>0, <1>2, <2>1, EmptyIsDataSet, WithPart DEF MoveAway
  <2>3. PICK R \in DataSet : R = [swap.rollback EXCEPT ![Current] = live[Current]]
    BY <1>0, <2>1, WithPart DEF Swapped, DataSet
  <2>4. /\ swap' \in Swapped
        /\ swap'.token = swap.token /\ swap'.done = swap.done
    BY <1>0, <1>2, <2>3 DEF MoveAway, Swapped
  <2> QED
    BY <1>2, <2>1, <2>2, <2>4 DEF MoveAway, Types, Typed, SwapHasStage,
       AwayBeforeEnd
<1>3. CASE Install
  <2>1. swap.done < 4 /\ Current \in Part /\ swap.token \in Tokens
    BY <1>3, CurrentIsPart, PartsAre DEF Install, Types, AwayBeforeEnd,
       SwapHasStage
  <2>2. live' \in DataSet /\ view' \in Piece
    BY <1>0, <1>3, <2>1, InstalledTyped, WithPart DEF Install
  <2>3. stages' \in [Tokens -> Unpacked]
    <3>1. [stages[swap.token] EXCEPT !.left = @ \ {Current}] \in Unpacked
      BY <2>1 DEF Types, Typed, Unpacked
    <3> QED BY <1>3, <2>1, <3>1 DEF Install, Types, Typed
  <2>4. /\ swap' \in Swapped
        /\ swap'.token = swap.token /\ ~swap'.away
    <3>1. swap.done + 1 \in 0..5
      BY <1>0, <2>1 DEF Swapped
    <3>2. swap' = [[swap EXCEPT !.away = FALSE] EXCEPT !.done = swap.done + 1]
      BY <1>0, <1>3 DEF Install, Swapped
    <3>3. [swap EXCEPT !.away = FALSE] \in Swapped
      BY <1>0 DEF Swapped
    <3> QED BY <3>1, <3>2, <3>3 DEF Swapped
  <2> QED
    BY <1>3, <2>2, <2>3, <2>4 DEF Install, Types, Typed, SwapHasStage,
       AwayBeforeEnd
<1>deleted. CASE SessionsDeleted
  <2>1. view' \in Piece
    BY <1>0, <1>deleted, WithSessions DEF SessionsDeleted, SignedOut
  <2>2. swap.done + 1 \in 0..5 /\ swap.done = 4
    BY <1>0, <1>deleted, PartsAre DEF SessionsDeleted
  <2>3. /\ swap' \in Swapped
        /\ swap'.token = swap.token /\ swap'.away = swap.away
    BY <1>0, <1>deleted, <2>2 DEF SessionsDeleted, Swapped
  <2>4. ~swap.away
    BY <2>2 DEF Types, AwayBeforeEnd
  <2> QED
    BY <1>deleted, <2>1, <2>3, <2>4 DEF SessionsDeleted, Types, Typed,
       SwapHasStage, AwayBeforeEnd
<1>4. CASE SwapEnds
  <2>2. live' \in DataSet /\ view' \in Piece
    BY <1>0, <1>4, WithPart DEF SwapEnds
  <2>3. PICK old \in StaleSets : SwapOver(old)
    BY <1>4 DEF SwapEnds
  <2>4. stages' \in [Tokens -> Unpacked] /\ swap' = NoSwap
    BY <2>3, SwapOverTyped
  <2> QED
    BY <1>0, <1>4, <2>2, <2>3, <2>4, NoStageTyped
       DEF SwapEnds, SwapOver, Types, Typed, SwapHasStage, AwayBeforeEnd,
           NoSwap
<1>5. CASE SwapRaises
  <2>1. \A p \in Part : Undone(p) \in Piece
    BY <1>0 DEF Undone, Swapped, DataSet
  <2>2. live' \in DataSet /\ view' \in Piece
    <3>1. [Undone("database") EXCEPT !.from = Nobody] \in Piece
      BY <1>0, <2>1 DEF Piece
    <3> QED BY <1>0, <1>5, <2>1, <3>1 DEF SwapRaises, DataSet
  <2>3. stages' \in [Tokens -> Unpacked] /\ swap' = NoSwap
    BY <1>5, SwapOverTyped DEF SwapRaises
  <2> QED
    BY <1>5, <2>2, <2>3, NoStageTyped
       DEF SwapRaises, SwapOver, Types, Typed, SwapHasStage, AwayBeforeEnd,
           NoSwap
<1>6. CASE SwapKilled
  BY <1>6, NoStageTyped DEF SwapKilled, Types, Typed, SwapHasStage,
     AwayBeforeEnd, NoSwap
<1> QED BY <1>1, <1>2, <1>3, <1>deleted, <1>4, <1>5, <1>6

-------------------------------------------------------------------------------
(* Every step keeps the stages, their markers and the bounds. *)

\* What is left of the markers keeps its order, and so names no stage twice.
LEMMA MarkersLeft ==
    ASSUME MarkersStaged, NEW old, NEW order \in StillReady(old)
    PROVE  /\ order \in Seq(Tokens) /\ IsInjective(order)
           /\ \A n \in DOMAIN order :
                 /\ order[n] \in Tokens \ old
                 /\ stages[order[n]].state \notin {"none", "extracting"}
<1> DEFINE kept == ToSet(pending) \ old
<1>1. /\ \A t \in kept : /\ t \in Tokens \ old
                         /\ stages[t].state \notin {"none", "extracting"}
      /\ kept \in SUBSET Tokens
  BY DEF MarkersStaged, ToSet
<1>2. Cardinality(kept) \in Nat
  BY <1>1, BackupAssumption, FS_Subset, FS_CardinalityType
<1>3. /\ order \in [1..Cardinality(kept) -> kept]
      /\ \A a, b \in DOMAIN order : a < b => Newer(order[a], order[b])
  BY DEF StillReady
<1>4. order \in Seq(Tokens)
  <2>1. PICK m \in Nat : m = Cardinality(kept)
    BY <1>2
  <2>2. order \in [1..m -> Tokens]
    BY <1>1, <1>3, <2>1
  <2> HIDE DEF kept
  <2> QED BY <2>2
<1>5. \A t : ~Newer(t, t)
  BY DEF Newer, MarkersStaged, IsInjective
<1>6. IsInjective(order)
  <2>1. DOMAIN order \subseteq Int
    BY <1>2, <1>3
  <2>2. ASSUME NEW a \in DOMAIN order, NEW b \in DOMAIN order,
               order[a] = order[b], a < b
        PROVE  FALSE
    <3>1. Newer(order[a], order[b])
      BY <1>3, <2>2
    <3> QED BY <1>5, <2>2, <3>1
  <2> QED BY <2>1, <2>2 DEF IsInjective
<1> QED BY <1>1, <1>3, <1>4, <1>6

LEMMA MarkersStay ==
    ASSUME MarkersStaged, NEW old, pending' \in StillReady(old),
           \A t \in Tokens \ old :
              stages[t].state \notin {"none", "extracting"}
                  => stages'[t].state \notin {"none", "extracting"}
    PROVE  MarkersStaged'
  BY MarkersLeft DEF MarkersStaged

\* A marker is written, or its directory touched, and becomes the newest.
LEMMA MarkerComes ==
    ASSUME MarkersStaged, NEW t \in Tokens, NEW others \in StillReady({t}),
           pending' = <<t>> \o others,
           \A u \in Tokens \ {t} : stages'[u] = stages[u],
           stages'[t].state \notin {"none", "extracting"}
    PROVE  MarkersStaged'
<1>1. /\ others \in Seq(Tokens) /\ IsInjective(others)
      /\ \A n \in DOMAIN others :
            /\ others[n] \in Tokens \ {t}
            /\ stages[others[n]].state \notin {"none", "extracting"}
  BY MarkersLeft
<1>2. /\ pending' \in Seq(Tokens)
      /\ Len(pending') = Len(others) + 1
      /\ \A n \in 1..Len(pending') :
            pending'[n] = IF n = 1 THEN t ELSE others[n - 1]
  BY <1>1
<1>3. /\ DOMAIN pending' = 1..(Len(others) + 1)
      /\ DOMAIN others = 1..Len(others) /\ Len(others) \in Nat
  BY <1>1, <1>2
<1>4. ASSUME NEW n \in DOMAIN pending', n # 1
      PROVE  /\ n - 1 \in DOMAIN others /\ pending'[n] = others[n - 1]
             /\ stages'[pending'[n]].state \notin {"none", "extracting"}
  <2>1. n - 1 \in DOMAIN others /\ pending'[n] = others[n - 1]
    BY <1>2, <1>3, <1>4
  <2> QED BY <1>1, <2>1
<1>5. ASSUME NEW n \in DOMAIN pending', n = 1
      PROVE  pending'[n] = t
  BY <1>2, <1>3, <1>5
<1>6. \A n \in DOMAIN pending' :
         stages'[pending'[n]].state \notin {"none", "extracting"}
  BY <1>4, <1>5
<1>7. IsInjective(pending')
  BY <1>1, <1>2, <1>3, <1>4 DEF IsInjective
<1> QED BY <1>2, <1>6, <1>7 DEF MarkersStaged

\* Stages are given up, and no restore ends.
LEMMA WorldsStay ==
    ASSUME Types, WorldsLeft, world' = world,
           \A t \in Tokens :
              stages'[t].state # "none" => stages[t].state # "none"
    PROVE  WorldsLeft'
<1>1. InUse' \subseteq InUse
  BY DEF InUse
<1>2. PICK m \in Nat : m = Cardinality(InUse')
  BY <1>1, InUseCounted, FS_Subset, FS_CardinalityType
<1>3. PICK n \in Nat : n = Cardinality(InUse) /\ m <= n
  BY <1>1, <1>2, InUseCounted, FS_Subset
<1> QED BY <1>2, <1>3, BackupAssumption, WorldsAre DEF WorldsLeft, Types, Typed

LEMMA StagesRest ==
    ASSUME Types, Stages, UNCHANGED <<stages, pending, world, swap>>,
           \/ up' = up
           \/ up # "swapping" /\ up' # "swapping"
    PROVE  Stages'
<1>1. WorldsLeft'
  BY WorldsStay DEF Stages
<1> QED BY <1>1 DEF Stages, ConfirmsStaged, SwapsStaged, MarkersStaged

\* Some stages go, with their markers, while no swap is under way.
LEMMA SweepKeeps ==
    ASSUME Types, Stages, NEW old \in SUBSET Tokens, stages' = Swept(old),
           pending' \in StillReady(old)
    PROVE  /\ ConfirmsStaged' /\ MarkersStaged'
           /\ world' = world => WorldsLeft'
<1>1. \A t \in Tokens : /\ t \in old => stages'[t].state = "none"
                        /\ t \notin old => stages'[t] = stages[t]
  BY DEF Swept, Gone, NoStage
<1>2. MarkersStaged'
  BY <1>1, MarkersStay DEF Stages
<1>3. ConfirmsStaged'
  BY <1>1 DEF Stages, ConfirmsStaged
<1>4. world' = world => WorldsLeft'
  BY <1>1, WorldsStay DEF Stages
<1> QED BY <1>2, <1>3, <1>4

LEMMA CleanupKeeps ==
    ASSUME Types, Stages, CleanupStale, UNCHANGED <<world, swap>>,
           up # "swapping" /\ up' # "swapping"
    PROVE  Stages'
<1>1. PICK old \in SUBSET Tokens : /\ stages' = Swept(old)
                                   /\ pending' \in StillReady(old)
  BY DEF CleanupStale, StaleSets
<1>2. ConfirmsStaged' /\ MarkersStaged' /\ WorldsLeft'
  BY <1>1, SweepKeeps
<1> QED BY <1>2 DEF Stages, SwapsStaged

\* One stage changes, while the backend serves.
LEMMA StageKeeps ==
    ASSUME Types, Types', Stages, NEW t \in Tokens,
           UNCHANGED <<world, swap>>, up # "swapping" /\ up' # "swapping",
           \A u \in Tokens \ {t} : stages'[u] = stages[u],
           stages'[t].state # "none" => stages[t].state # "none",
           "restore" \in stages'[t].calls
               => stages'[t].state \notin {"extracting", "partial"},
           MarkersStaged'
    PROVE  Stages'
<1>1. WorldsLeft'
  BY WorldsStay DEF Stages
<1>2. ConfirmsStaged'
  BY DEF Stages, ConfirmsStaged
<1> QED BY <1>1, <1>2 DEF Stages, SwapsStaged

LEMMA StageStagesKept ==
    ASSUME Types, Types', Stages, NEW t \in Tokens,
           \/ ImportValidated(t) \/ ImportFails(t)
           \/ CancelChecks(t) \/ CancelLists(t)
           \/ CancelLeaves(t) \/ CancelRemoves(t)
           \/ RestoreChecks(t) \/ RestoreConfirms(t)
    PROVE  Stages'
<1> USE DEF exportVars, processVars, dataVars
<1>1. /\ UNCHANGED <<world, swap>> /\ up # "swapping" /\ up' # "swapping"
      /\ \A u \in Tokens \ {t} : stages'[u] = stages[u]
  BY DEF ImportValidated, ImportFails, CancelChecks, CancelLists, CancelLeaves,
         CancelRemoves, RestoreChecks, RestoreConfirms, Serving, SetStage,
         Types, Typed
<1>2. stages[t] \in Unpacked /\ stages \in [Tokens -> Unpacked]
  BY DEF Types, Typed
<1>mark. ASSUME UNCHANGED pending,
                stages[t].state \notin {"none", "extracting"}
                    => stages'[t].state \notin {"none", "extracting"}
         PROVE  MarkersStaged'
  BY <1>1, <1>mark DEF Stages, MarkersStaged
<1>3. CASE ImportValidated(t)
  <2>1. /\ stages[t].state = "extracting" /\ stages'[t].state = "staged"
        /\ UNCHANGED pending
    BY <1>2, <1>3 DEF ImportValidated, SetStage, Unpacked
  <2> QED BY <1>1, <1>mark, <2>1, StageKeeps
<1>4. CASE ImportFails(t)
  <2>1. /\ stages[t].state = "extracting" /\ UNCHANGED pending
        /\ stages'[t].calls \in {{}, stages[t].calls}
    BY <1>2, <1>4 DEF ImportFails, SetStage, Unpacked, NoStage
  <2>2. "restore" \notin stages[t].calls
    BY <2>1 DEF Stages, ConfirmsStaged
  <2> QED BY <1>1, <1>mark, <2>1, <2>2, StageKeeps
<1>5. CASE CancelChecks(t)
  <2>1. /\ stages'[t].state = stages[t].state /\ UNCHANGED pending
        /\ stages'[t].calls = stages[t].calls \cup {"cancel"}
    BY <1>2, <1>5 DEF CancelChecks, SetStage, Unpacked
  <2> QED BY <1>1, <1>mark, <2>1, StageKeeps DEF Stages, ConfirmsStaged
<1>lists. CASE CancelLists(t)
  <2>1. /\ stages[t].state # "none" /\ UNCHANGED pending
        /\ stages'[t].state \in {"emptying", "sweeping"}
    BY <1>2, <1>lists DEF CancelLists, SetStage, Unpacked
  <2> QED BY <1>1, <1>mark, <2>1, StageKeeps
<1>leaves. CASE CancelLeaves(t)
  <2>1. stages[t].state = "emptying" /\ stages'[t].state = "hollow"
    BY <1>2, <1>leaves DEF CancelLeaves, SetStage, Unpacked
  <2>2. CASE UNCHANGED pending
    BY <1>1, <1>mark, <2>1, <2>2, StageKeeps
  <2>3. CASE \E others \in Unmarked(t) : pending' = <<t>> \o others
    <3>1. MarkersStaged'
      BY <1>1, <2>1, <2>3, MarkerComes DEF Stages, Unmarked
    <3> QED BY <1>1, <2>1, <3>1, StageKeeps
  <2> QED BY <1>leaves, <2>2, <2>3 DEF CancelLeaves
<1>6. CASE CancelRemoves(t)
  <2>1. stages'[t].state = "none" /\ pending' \in StillReady({t})
    BY <1>2, <1>6 DEF CancelRemoves, SetStage, NoStage, Unmarked
  <2>2. MarkersStaged'
    BY <1>1, <2>1, MarkersStay DEF Stages
  <2> QED BY <1>1, <2>1, <2>2, StageKeeps
<1>7. CASE RestoreChecks(t)
  <2>1. /\ stages[t].state = "staged" /\ stages'[t].state = "staged"
        /\ UNCHANGED pending
    BY <1>2, <1>7 DEF RestoreChecks, Whole, SetStage, Unpacked
  <2> QED BY <1>1, <1>mark, <2>1, StageKeeps
<1>8. CASE RestoreConfirms(t)
  <2>1. /\ stages'[t].state = stages[t].state
        /\ "restore" \notin stages'[t].calls
        /\ stages[t].state \notin {"extracting", "partial"}
    BY <1>2, <1>8
    DEF RestoreConfirms, SetStage, Unpacked, Stages, ConfirmsStaged
  <2>2. CASE UNCHANGED pending
    BY <1>1, <1>mark, <2>1, <2>2, StageKeeps
  <2>3. CASE /\ stages[t].state # "none"
             /\ \E others \in Unmarked(t) : pending' = <<t>> \o others
    <3>1. MarkersStaged'
      BY <1>1, <2>1, <2>3, MarkerComes DEF Stages, Unmarked
    <3> QED BY <1>1, <2>1, <3>1, StageKeeps
  <2> QED BY <1>8, <2>1, <2>2, <2>3 DEF RestoreConfirms
<1> QED BY <1>3, <1>4, <1>5, <1>lists, <1>leaves, <1>6, <1>7, <1>8

LEMMA ImportStagesKept ==
    ASSUME Types, Stages, NEW t \in Tokens, NEW b \in held, ImportBegins(t, b)
    PROVE  Stages'
<1>1. PICK old \in SUBSET Tokens :
        /\ old \in StaleSets
        /\ stages' = [Swept(old) EXCEPT ![t].state = "extracting",
                                        ![t].data = b.data]
        /\ pending' \in StillReady(old)
  BY DEF ImportBegins, StaleSets
<1>2. /\ stages[t].state = "none" /\ stages[t].calls = {} /\ t \notin old
      /\ world' = world /\ world < MaxRestores /\ swap' = swap
      /\ up # "swapping" /\ up' = up
  BY <1>1 DEF ImportBegins, Serving, StaleSets, processVars
<1>3. /\ Swept(old) \in [Tokens -> Unpacked]
      /\ Swept(old)[t] = stages[t] /\ stages[t] \in Unpacked
  BY <1>2, SweptTyped DEF Types, Typed, Swept
<1>4. /\ \A u \in Tokens \ {t} :
            /\ u \in old => stages'[u].state = "none"
            /\ u \notin old => stages'[u] = stages[u]
      /\ stages'[t].calls = {}
  BY <1>1, <1>2, <1>3 DEF Swept, Unpacked, Gone, NoStage
<1>5. MarkersStaged'
  BY <1>1, <1>2, <1>4, MarkersStay DEF Stages
<1>6. ConfirmsStaged'
  BY <1>4 DEF Stages, ConfirmsStaged
<1>7. WorldsLeft'
  <2>1. InUse' \subseteq Tokens
    BY DEF InUse
  <2>2. PICK m \in Nat : m = Cardinality(InUse') /\ m <= Cardinality(Tokens)
    BY <2>1, BackupAssumption, FS_Subset, FS_CardinalityType
  <2> QED BY <1>2, <2>2, BackupAssumption, WorldsAre
          DEF WorldsLeft, Types, Typed
<1> QED BY <1>2, <1>5, <1>6, <1>7 DEF Stages, SwapsStaged

LEMMA EndsStagesKept ==
    ASSUME Types, Stages, Exit \/ Crash
    PROVE  Stages'
<1>1. Ends /\ up # "swapping" /\ up' # "swapping" /\ UNCHANGED <<world, swap>>
  BY DEF Exit, Crash, Ends
<1>2. \A t \in Tokens :
         /\ stages'[t].state = IF stages[t].state \in CutShort
                               THEN "partial" ELSE stages[t].state
         /\ stages'[t].calls = {}
  <2> SUFFICES ASSUME NEW t \in Tokens
               PROVE  /\ stages'[t].state = IF stages[t].state \in CutShort
                                            THEN "partial" ELSE stages[t].state
                      /\ stages'[t].calls = {}
    OBVIOUS
  <2>1. stages[t] \in Unpacked
    BY DEF Types, Typed
  <2> QED BY <1>1, <2>1 DEF Ends, Unpacked
<1>3. WorldsLeft'
  BY <1>1, <1>2, WorldsStay DEF Stages, CutShort
<1>4. ConfirmsStaged'
  BY <1>2 DEF ConfirmsStaged
<1>5. MarkersStaged'
  <2>1. PICK old : pending' \in StillReady(old)
    BY <1>1 DEF Ends
  <2> QED BY <1>2, <2>1, MarkersStay DEF Stages
<1> QED BY <1>1, <1>3, <1>4, <1>5 DEF Stages, SwapsStaged

\* The steps of a swap, but the last.
LEMMA SwapStagesKept ==
    ASSUME Types, Types', Stages,
           \/ SwapBegins \/ MoveAway \/ Install \/ SessionsDeleted
           \/ SwapKilled
    PROVE  Stages'
<1> USE DEF exportVars, stageVars, dataVars
<1>1. /\ UNCHANGED <<world, pending>>
      /\ \A t \in Tokens : /\ stages'[t].state = stages[t].state
                           /\ stages'[t].calls = stages[t].calls
  <2>1. CASE Install
    <3>1. /\ stages \in [Tokens -> Unpacked] /\ swap.token \in Tokens
          /\ stages[swap.token] \in Unpacked
      BY <2>1 DEF Install, Types, Typed, SwapHasStage
    <3>2. PICK s : s = [stages[swap.token] EXCEPT !.left = @ \ {Current}]
      OBVIOUS
    <3>3. /\ s.state = stages[swap.token].state
          /\ s.calls = stages[swap.token].calls
      BY <3>1, <3>2 DEF Unpacked
    <3>4. \A t \in Tokens :
            stages'[t] = IF t = swap.token THEN s ELSE stages[t]
      BY <2>1, <3>1, <3>2 DEF Install
    <3> QED BY <2>1, <3>3, <3>4 DEF Install
  <2> QED BY <2>1 DEF SwapBegins, MoveAway, SessionsDeleted, SwapKilled
<1>2. WorldsLeft'
  BY <1>1, WorldsStay DEF Stages
<1>3. ConfirmsStaged' /\ MarkersStaged'
  BY <1>1 DEF Stages, ConfirmsStaged, MarkersStaged
<1>4. SwapsStaged'
  <2>1. CASE SwapBegins
    <3>1. PICK t \in Tokens : /\ Whole(t)
                              /\ swap' = [NoSwap EXCEPT !.token = t,
                                                        !.before = view.has]
      BY <2>1 DEF SwapBegins
    <3>2. swap'.token = t /\ stages[t].state = "staged" /\ up' = "swapping"
      BY <2>1, <3>1 DEF NoSwap, Whole, SwapBegins
    <3> QED BY <1>1, <3>2 DEF SwapsStaged
  <2>2. CASE MoveAway \/ Install \/ SessionsDeleted
    <3>1. swap'.token = swap.token /\ up = "swapping" /\ up' = "swapping"
      BY <2>2 DEF MoveAway, Install, SessionsDeleted, Types, Typed, Swapped
    <3>2. swap.token \in Tokens
      BY <3>1 DEF Types, SwapHasStage
    <3> QED BY <1>1, <3>1, <3>2 DEF Stages, SwapsStaged
  <2>3. CASE SwapKilled
    BY <2>3 DEF SwapKilled, SwapsStaged, NoSwap
  <2> QED BY <2>1, <2>2, <2>3
<1> QED BY <1>2, <1>3, <1>4 DEF Stages

\* The last one uses its stage up.
LEMMA SwapOverStagesKept ==
    ASSUME Types, Stages, SwapEnds \/ SwapRaises
    PROVE  Stages'
<1>1. /\ up = "swapping" /\ up' # "swapping"
      /\ swap.token \in Tokens /\ swap.token \in InUse
  BY DEF SwapEnds, SwapRaises, Types, SwapHasStage, Stages, SwapsStaged, InUse
<1>2. PICK old \in SUBSET Tokens : SwapOver(old)
  BY DEF SwapEnds, SwapRaises, StaleSets
<1>3. PICK gone \in SUBSET Tokens : /\ gone = RestoreDirs(old)
                                    /\ swap.token \in gone
  BY <1>1 DEF RestoreDirs
<1>4. /\ stages' = Swept(gone) /\ pending' \in StillReady(gone)
      /\ swap'.token = "none"
  BY <1>2, <1>3 DEF SwapOver, NoSwap
<1>5. /\ ConfirmsStaged' /\ MarkersStaged'
      /\ world' = world => WorldsLeft'
  BY <1>4, SweepKeeps
<1>6. CASE SwapRaises
  BY <1>1, <1>4, <1>5, <1>6 DEF SwapRaises, Stages, SwapsStaged
<1>7. CASE SwapEnds
  <2>1. InUse' \subseteq InUse \ {swap.token}
    BY <1>3, <1>4 DEF InUse, Swept, Gone, NoStage
  <2>2. PICK n \in Nat : n = Cardinality(InUse)
    BY InUseCounted
  <2>3. /\ IsFiniteSet(InUse \ {swap.token})
        /\ Cardinality(InUse \ {swap.token}) = n - 1
    BY <1>1, <2>2, InUseCounted, FS_RemoveElement
  <2>4. PICK m \in Nat : m = Cardinality(InUse') /\ m <= n - 1
    BY <2>1, <2>3, FS_Subset, FS_CardinalityType
  <2>5. world' = world + 1
    BY <1>7 DEF SwapEnds
  <2>6. WorldsLeft'
    BY <2>2, <2>4, <2>5, BackupAssumption, WorldsAre
    DEF Stages, WorldsLeft, Types, Typed
  <2> QED BY <1>1, <1>4, <1>5, <2>6 DEF Stages, SwapsStaged
<1> QED BY <1>6, <1>7

LEMMA CountsKept ==
    ASSUME Types, Counts, [Next]_vars
    PROVE  Counts'
<1> USE BackupAssumption
    DEF dataVars, exportVars, stageVars, processVars, backupVars
<1>1. CASE UNCHANGED vars
  BY <1>1 DEF vars, Counts
<1>2. ASSUME NEW i \in Scans \cup Images,
             \/ UploadFile(i) \/ UploadRow(i) \/ ScanCompletes(i)
             \/ RemoveFile(i) \/ RemoveRow(i)
      PROVE  Counts'
  BY <1>2 DEF UploadFile, UploadRow, ScanCompletes, RemoveFile, RemoveRow,
              Changes, Counts
<1>3. CASE WorkBegins \/ WorkEnds \/ SignIn \/ Checkpoint
  BY <1>3 DEF WorkBegins, WorkEnds, SignIn, Checkpoint, Changes, Counts
<1>4. CASE ExportBegins \/ ExportCopies \/ ExportEnds \/ ExportFails
  BY <1>4 DEF ExportBegins, ExportCopies, ExportEnds, ExportFails, Counts
<1>5. ASSUME NEW b \in tickets, Download(b) \/ TicketRemoved(b)
      PROVE  Counts'
  BY <1>5 DEF Download, TicketRemoved, Counts
<1>6. ASSUME NEW t \in Tokens, NEW b \in held, ImportBegins(t, b)
      PROVE  Counts'
  BY <1>6 DEF ImportBegins, Counts
<1>7. ASSUME NEW t \in Tokens,
             \/ ImportValidated(t) \/ ImportFails(t)
             \/ CancelChecks(t) \/ CancelLists(t)
             \/ CancelLeaves(t) \/ CancelRemoves(t)
             \/ RestoreChecks(t) \/ RestoreConfirms(t)
      PROVE  Counts'
  BY <1>7 DEF ImportValidated, ImportFails, CancelChecks, CancelRemoves,
              CancelLists, CancelLeaves, RestoreChecks, RestoreConfirms,
              Counts
<1>8. CASE Exit \/ Crash \/ Start
  BY <1>8 DEF Exit, Crash, Ends, Start, Counts
<1>9. CASE \/ SwapBegins \/ MoveAway \/ Install
           \/ SessionsDeleted \/ SwapEnds
  BY <1>9 DEF SwapBegins, MoveAway, Install, SessionsDeleted, SwapEnds,
              SwapOver, Counts
<1>10. CASE SwapRaises \/ SwapKilled
  <2>1. \A word \in {"raised", "killed", "late"} :
           Append(troubles, word) \in Seq({"raised", "killed", "late"})
    BY DEF Counts
  <2> QED BY <1>10, <2>1 DEF SwapRaises, SwapKilled, SwapOver, Counts
<1> QED BY <1>1, <1>2, <1>3, <1>4, <1>5, <1>6, <1>7, <1>8, <1>9, <1>10 DEF Next

LEMMA StagesNext ==
    ASSUME Types, Types', Stages, [Next]_vars
    PROVE  Stages'
<1> USE DEF dataVars, exportVars, stageVars, processVars, backupVars
<1>1. CASE UNCHANGED vars
  BY <1>1, StagesRest DEF vars
<1>2. ASSUME NEW i \in Scans \cup Images,
             \/ UploadFile(i) \/ UploadRow(i) \/ ScanCompletes(i)
             \/ RemoveFile(i) \/ RemoveRow(i)
      PROVE  Stages'
  BY <1>2, StagesRest DEF UploadFile, UploadRow, ScanCompletes, RemoveFile,
                          RemoveRow
<1>3. CASE WorkBegins \/ WorkEnds \/ SignIn \/ Checkpoint
  BY <1>3, StagesRest DEF WorkBegins, WorkEnds, SignIn, Checkpoint
<1>4. CASE ExportBegins
  BY <1>4, CleanupKeeps DEF ExportBegins, Serving
<1>5. CASE ExportCopies \/ ExportEnds \/ ExportFails
  BY <1>5, StagesRest DEF ExportCopies, ExportEnds, ExportFails
<1>6. ASSUME NEW b \in tickets, Download(b) \/ TicketRemoved(b)
      PROVE  Stages'
  BY <1>6, StagesRest DEF Download, TicketRemoved
<1>7. CASE Start
  BY <1>7, CleanupKeeps DEF Start
<1> QED BY <1>1, <1>2, <1>3, <1>4, <1>5, <1>6, <1>7, StageStagesKept,
           ImportStagesKept, EndsStagesKept, SwapStagesKept,
           SwapOverStagesKept DEF Next

LEMMA StagesInit == Init => Stages /\ Counts
<1> SUFFICES ASSUME Init PROVE Stages /\ Counts
  OBVIOUS
<1>1. \A t \in Tokens : stages[t] = NoStage
  BY DEF Init
<1>2. InUse = {}
  BY <1>1 DEF InUse, NoStage
<1>3. WorldsLeft
  BY <1>2, FS_EmptySet, WorldsAre, BackupAssumption DEF Init, WorldsLeft
<1>4. ConfirmsStaged /\ SwapsStaged
  BY <1>1 DEF Init, ConfirmsStaged, SwapsStaged, NoStage, NoSwap
<1>5. MarkersStaged
  BY DEF Init, MarkersStaged, IsInjective
<1> QED BY <1>3, <1>4, <1>5, BackupAssumption DEF Stages, Counts, Init

LEMMA TypesNext == Types /\ Stages /\ [Next]_vars => Types'
<1> SUFFICES ASSUME Types, Stages, [Next]_vars PROVE Types'
  OBVIOUS
<1>1. CASE UNCHANGED vars
  BY <1>1 DEF vars, Types, Typed, SwapHasStage, AwayBeforeEnd
<1> QED
  BY <1>1, ItemTypes, WorkTypes, RemoveFileTypes, ExportTypes, TicketTypes,
     StageTypes, ImportBeginsTypes, ProcessTypes, SwapTypes DEF Next

LEMMA BackupInvariant == Safe => []IndInv
<1>1. IndInv /\ [Next]_vars => IndInv'
  BY TypesNext, StagesNext, CountsKept DEF IndInv
<1>2. Init => IndInv
  BY TypesInit, StagesInit DEF IndInv
<1> QED BY <1>1, <1>2, PTL DEF Safe

\* Everything is as it is declared, in every reachable state: no data set is
\* named that cannot have been live, and a READY marker, on which the next
\* start depends, is never in the directory of an import that has not been
\* checked, nor in none (cleanup_path, cancel_import and replace_with_restore).
THEOREM BackupTypes == Safe => []TypeOK
<1>1. ASSUME IndInv PROVE TypeOK
  <2>1. Types /\ Stages /\ Counts /\ Len(Parts) = 4 /\ world \in Worlds
    BY <1>1, PartsAre, WorldsReached DEF IndInv
  <2>2. Piece = Content /\ DataSet = [Part -> Content]
    BY DEF Piece, Content, DataSet
  <2>3. /\ Copy = Backup
        /\ Unpacked = Stage
    BY <2>2 DEF Copy, Backup, Unpacked, Stage
  <2>4. /\ ToSet(pending) \subseteq Tokens /\ IsInjective(pending)
        /\ \A t \in ToSet(pending) :
              stages[t].state \notin {"none", "extracting"}
    BY <2>1 DEF Stages, MarkersStaged, ToSet
  <2>5. /\ swap.token \in Tokens \cup {"none"} /\ swap.done \in 0..5
        /\ swap.rollback \in DataSet
        /\ export.copied \in 0..4 /\ export.data \in DataSet
    BY <2>1 DEF Types, Typed, Swapped, Exported
  <2>6. (up = "swapping") = (swap.token # "none")
    BY <2>1, BackupAssumption DEF Types, SwapHasStage, Stages, SwapsStaged
  <2> QED
    BY <2>1, <2>2, <2>3, <2>4, <2>5, <2>6 DEF TypeOK, Types, Typed, Counts
<1> QED BY <1>1, BackupInvariant, PTL

-------------------------------------------------------------------------------
(***************************************************************************)
(* A backup is complete.  For each row in the snapshot of an export that   *)
(* is under way, the file was already gone, or has been copied, or is      *)
(* still there to be copied.                                               *)
(***************************************************************************)
Place(p) == IF p = "raw" THEN 3 ELSE 4

FileComes(i) == IF export.copied < Place(FileOf(i)) THEN HasFile(i)
                ELSE i \in export.data[FileOf(i)].has

ExportHolds == Exporting => \A i \in export.data["database"].has \ {"job"} :
                               i \in export.gone \/ FileComes(i)
ExportServes == Exporting => Serving

CompleteInvariant == Types /\ ExportServes /\ ExportHolds /\ BackupComplete

LEMMA CompleteInit == Init => CompleteInvariant
  BY TypesInit DEF Init, CompleteInvariant, ExportServes, ExportHolds,
     BackupComplete, Exporting, NoExport

\* A step that leaves the export, and no file away.
LEMMA FilesStay ==
    ASSUME CompleteInvariant, UNCHANGED <<export, tickets, held, up>>,
           \A i : HasFile(i) => HasFile(i)'
    PROVE  (ExportServes /\ ExportHolds /\ BackupComplete)'
<1>1. (ExportServes /\ BackupComplete)'
  BY DEF CompleteInvariant, ExportServes, BackupComplete, Exporting, Serving
<1>2. ExportHolds'
  BY FileOfIsPart DEF CompleteInvariant, ExportHolds, FileComes, Exporting,
     FileOf
<1> QED BY <1>1, <1>2

\* A step after which nothing is being exported.
LEMMA NoneExporting ==
    ASSUME CompleteInvariant, UNCHANGED <<tickets, held>>, ~Exporting'
    PROVE  (ExportServes /\ ExportHolds /\ BackupComplete)'
  BY DEF CompleteInvariant, ExportServes, ExportHolds, BackupComplete

LEMMA OthersComplete ==
    ASSUME CompleteInvariant, NEW i \in Scans \cup Images,
           \/ UploadFile(i) \/ UploadRow(i) \/ ScanCompletes(i)
           \/ RemoveFile(i) \/ RemoveRow(i)
    PROVE  (ExportServes /\ ExportHolds /\ BackupComplete)'
<1> USE DEF backupVars, exportVars, processVars
<1>1. /\ live \in DataSet /\ FileOf(i) \in Part
      /\ live[FileOf(i)] \in Piece
  BY FileOfIsPart DEF CompleteInvariant, Types, Typed, DataSet
<1>2. CASE UploadFile(i)
  <2>1. live' = [live EXCEPT ![FileOf(i)] =
                    [live[FileOf(i)] EXCEPT !.has = @ \cup {i}]]
    BY <1>2 DEF UploadFile, WithFile
  <2>2. \A j : HasFile(j) => HasFile(j)'
    BY <1>1, <2>1, FileOfIsPart DEF HasFile, DataSet, Piece, FileOf
  <2> QED BY <1>2, <2>2, FilesStay DEF UploadFile
<1>3. CASE UploadRow(i)
  BY <1>3, FilesStay DEF UploadRow, HasFile, FileOf
<1>4. CASE ScanCompletes(i)
  BY <1>4, NoneExporting DEF ScanCompletes, Exporting
<1>5. CASE RemoveRow(i)
  BY <1>5, FilesStay DEF RemoveRow, HasFile, FileOf
<1>6. CASE RemoveFile(i) /\ ~Exporting
  BY <1>6, NoneExporting DEF RemoveFile, Exporting
<1>7. CASE RemoveFile(i) /\ Exporting
  <2>1. live' = [live EXCEPT ![FileOf(i)] =
                    [live[FileOf(i)] EXCEPT !.has = @ \ {i}]]
    BY <1>7 DEF RemoveFile
  <2>2. \A j : j # i /\ HasFile(j) => HasFile(j)'
    BY <1>1, <2>1, FileOfIsPart DEF HasFile, DataSet, Piece, FileOf
  <2>3. /\ export'.copied = export.copied /\ export'.data = export.data
        /\ export'.gone = export.gone \cup {i}
    BY <1>7 DEF RemoveFile, CompleteInvariant, Types, Typed, Exported
  <2>4. ExportHolds'
    BY <2>2, <2>3, FileOfIsPart
       DEF CompleteInvariant, ExportHolds, FileComes, Exporting, FileOf
  <2>5. (ExportServes /\ BackupComplete)'
    BY <1>7 DEF RemoveFile, CompleteInvariant, ExportServes, BackupComplete,
       Serving
  <2> QED BY <2>4, <2>5
<1> QED BY <1>2, <1>3, <1>4, <1>5, <1>6, <1>7

LEMMA WorkComplete ==
    ASSUME CompleteInvariant, WorkBegins \/ WorkEnds \/ SignIn \/ Checkpoint
    PROVE  (ExportServes /\ ExportHolds /\ BackupComplete)'
<1>1. CASE Checkpoint
  <2>1. \A j : HasFile(j) => HasFile(j)'
    BY <1>1, FileOfIsPart, PartsAre DEF Checkpoint, HasFile, FileOf,
       CompleteInvariant, Types, Typed, DataSet
  <2> QED BY <1>1, <2>1, FilesStay DEF Checkpoint, backupVars, exportVars,
             processVars
<1>2. CASE WorkBegins \/ WorkEnds \/ SignIn
  BY <1>2, FilesStay DEF WorkBegins, WorkEnds, SignIn, HasFile, FileOf,
     backupVars, exportVars, processVars
<1> QED BY <1>1, <1>2

LEMMA CopyingSets ==
    ASSUME NEW n \in 1..4, NEW D \in DataSet
    PROVE  \A p \in Part : Copying(n, D)[p] =
                             IF p = CopyOrder[n] THEN CopyOf(p) ELSE D[p]
  BY PartsAre DEF Copying, CopyOrder, DataSet

LEMMA ExportComplete ==
    ASSUME CompleteInvariant,
           ExportBegins \/ ExportCopies \/ ExportEnds \/ ExportFails
    PROVE  (ExportServes /\ ExportHolds /\ BackupComplete)'
<1> USE DEF exportVars, processVars, dataVars, backupVars
<1>1. CASE ExportBegins
  <2>1. \A p \in Part : Copying(1, Empty)[p] =
                          IF p = "database" THEN view ELSE Empty[p]
    BY CopyingSets, EmptyIsDataSet, PartsAre DEF CopyOrder, CopyOf
  <2>2. /\ export'.copied = 1
        /\ export'.data["database"] = view
        /\ export'.gone = {i \in view.has \ {"job"} : ~HasFile(i)}
    BY <1>1, <2>1, PartsAre DEF ExportBegins
  <2>3. UNCHANGED live
    BY <1>1 DEF ExportBegins
  <2>4. ExportHolds'
    BY <2>2, <2>3, FileOfIsPart DEF ExportHolds, FileComes, Place, HasFile,
       FileOf
  <2>5. (ExportServes /\ BackupComplete)'
    BY <1>1 DEF ExportBegins, CompleteInvariant, ExportServes,
       BackupComplete, Serving
  <2> QED BY <2>4, <2>5
<1>2. CASE ExportCopies
  <2> DEFINE n == export.copied + 1
  <2>1. /\ export \in Exported /\ n \in 2..4 /\ export.copied = n - 1
        /\ export.data \in DataSet
    BY <1>2, PartsAre DEF ExportCopies, Exporting, CompleteInvariant, Types,
       Typed, Exported
  <2>2. /\ export'.copied = n /\ export'.gone = export.gone
        /\ export'.data = Copying(n, export.data)
    BY <1>2, <2>1 DEF ExportCopies, Exported
  <2>3. UNCHANGED <<live, view, up, tickets, held>>
    BY <1>2 DEF ExportCopies
  <2>4. /\ CopyOrder[n] # "database"
        /\ \A p \in {"raw", "uploads"} : CopyOrder[n] = p <=> n = Place(p)
    BY <2>1, PartsAre DEF CopyOrder, Place
  <2> HIDE DEF n
  <2>5. /\ export'.data["database"] = export.data["database"]
        /\ \A p \in {"raw", "uploads"} : export'.data[p] =
               IF n = Place(p) THEN live[p] ELSE export.data[p]
    BY <2>1, <2>2, <2>4, CopyingSets, PartsAre DEF CopyOf
  <2>6. ExportHolds'
    <3> SUFFICES ASSUME NEW i \in export.data["database"].has \ {"job"},
                        i \notin export.gone
                 PROVE  FileComes(i)'
      BY <2>2, <2>5 DEF ExportHolds
    <3>1. FileComes(i)
      BY <1>2 DEF ExportCopies, CompleteInvariant, ExportHolds
    <3>2. FileOf(i)' = FileOf(i) /\ Place(FileOf(i)) \in Nat
          /\ FileOf(i) \in {"raw", "uploads"}
      BY FileOfIsPart DEF FileOf, Place
    <3> QED
      BY <2>1, <2>2, <2>3, <2>5, <3>1, <3>2 DEF FileComes, HasFile
  <2>7. (ExportServes /\ BackupComplete)'
    BY <1>2, <2>3 DEF ExportCopies, CompleteInvariant, ExportServes,
       BackupComplete, Serving
  <2> QED BY <2>6, <2>7
<1>3. CASE ExportEnds
  <2>1. export.copied = 4
    BY <1>3, PartsAre DEF ExportEnds
  <2>2. \A i \in export.data["database"].has \ {"job"} :
           \/ i \in export.gone
           \/ i \in export.data["raw"].has \/ i \in export.data["uploads"].has
    BY <2>1, FileOfIsPart DEF CompleteInvariant, ExportHolds, Exporting,
       FileComes, Place
  <2>3. BackupComplete'
    BY <1>3, <2>2 DEF ExportEnds, CompleteInvariant, BackupComplete
  <2>4. ~Exporting'
    BY <1>3 DEF ExportEnds, Exporting, NoExport
  <2> QED BY <2>3, <2>4 DEF ExportServes, ExportHolds
<1>4. CASE ExportFails
  BY <1>4, NoneExporting DEF ExportFails, Exporting, NoExport
<1> QED BY <1>1, <1>2, <1>3, <1>4

LEMMA CompleteNext ==
    Stages /\ CompleteInvariant /\ [Next]_vars => CompleteInvariant'
<1> SUFFICES ASSUME Stages, CompleteInvariant, [Next]_vars
             PROVE  (ExportServes /\ ExportHolds /\ BackupComplete)'
  BY TypesNext DEF CompleteInvariant
<1> USE DEF dataVars, exportVars, stageVars, processVars
<1>1. CASE UNCHANGED vars
  BY <1>1, FilesStay DEF vars, HasFile, FileOf
<1>2. CASE \E b \in tickets : Download(b) \/ TicketRemoved(b)
  <2>1. UNCHANGED <<dataVars, export, up>>
    BY <1>2 DEF Download, TicketRemoved
  <2>2. BackupComplete'
    BY <1>2 DEF Download, TicketRemoved, CompleteInvariant, BackupComplete
  <2> QED
    BY <2>1, <2>2, FileOfIsPart DEF CompleteInvariant, ExportServes,
       ExportHolds, FileComes, Exporting, Serving, HasFile, FileOf
<1>3. CASE \E t \in Tokens :
             \/ \E b \in held : ImportBegins(t, b)
             \/ ImportValidated(t) \/ ImportFails(t)
             \/ CancelChecks(t) \/ CancelLists(t)
             \/ CancelLeaves(t) \/ CancelRemoves(t)
             \/ RestoreChecks(t)
  BY <1>3, FilesStay DEF ImportBegins, ImportValidated, ImportFails,
     CancelChecks, CancelLists, CancelLeaves, CancelRemoves, RestoreChecks, HasFile, FileOf
<1>4. CASE \E t \in Tokens : RestoreConfirms(t)
  <2>1. UNCHANGED <<dataVars, export, tickets, held>> /\ Serving'
    BY <1>4 DEF RestoreConfirms, Serving
  <2>2. (ExportServes /\ BackupComplete)'
    BY <2>1 DEF CompleteInvariant, ExportServes, BackupComplete
  <2>3. ExportHolds'
    BY <2>1, FileOfIsPart DEF CompleteInvariant, ExportHolds, FileComes,
       Exporting, HasFile, FileOf
  <2> QED BY <2>2, <2>3
<1>5. CASE Exit \/ Crash
  <2>1. export' = NoExport /\ UNCHANGED <<tickets, held>>
    BY <1>5 DEF Exit, Crash, Ends
  <2>2. ~Exporting'
    BY <2>1 DEF Exporting, NoExport
  <2> QED BY <2>1, <2>2, NoneExporting
<1>6. CASE Start \/ SwapBegins \/ MoveAway \/ Install \/ SessionsDeleted
  <2>1. ~Serving
    BY <1>6 DEF Start, SwapBegins, MoveAway, Install, SessionsDeleted, Serving
  <2> QED
    BY <1>6, <2>1, NoneExporting DEF Start, SwapBegins, MoveAway, Install,
       SessionsDeleted, CompleteInvariant, ExportServes, Exporting
<1>7. CASE SwapEnds \/ SwapRaises \/ SwapKilled
  <2>1. ~Serving /\ UNCHANGED <<export, tickets, held>>
    BY <1>7 DEF SwapEnds, SwapRaises, SwapKilled, SwapOver, Serving
  <2> QED
    BY <2>1, NoneExporting DEF CompleteInvariant, ExportServes, Exporting
<1> QED
  BY <1>1, <1>2, <1>3, <1>4, <1>5, <1>6, <1>7, OthersComplete, WorkComplete,
     ExportComplete DEF Next

\* A backup, downloaded or not, has the file of every row that it has, unless
\* the file was gone or was removed while it was made (create_encrypted_backup
\* beside uploads, scans and removals).
THEOREM BackupsAreComplete == Safe => []BackupComplete
<1>1. CompleteInvariant => BackupComplete
  BY DEF CompleteInvariant
<1>2. IndInv => Stages
  BY DEF IndInv
<1> QED BY CompleteInit, CompleteNext, BackupInvariant, <1>1, <1>2, PTL DEF Safe

-------------------------------------------------------------------------------
(***************************************************************************)
(* What is served is one data set.  While a swap is under way everything   *)
(* that it has moved is in its rollback directory, and everything else is  *)
(* still of the data set that was live; so long as no swap has failed.     *)
(* The database is excepted once a foreign log was replayed into it.       *)
(***************************************************************************)
Foreign == "late" \in ToSet(troubles)

Intact == /\ \A p \in Part \ {"database"} : live[p].from = world
          /\ Foreign \/ (live["database"].from = world /\ view.from = world)
          /\ view.sessions \subseteq {world}
          /\ live["database"].sessions \subseteq {world}

TroublesTyped == troubles \in Seq({"raised", "killed", "late"})
TroubleComes == Len(troubles) < MaxTroubles

Moved == swap.done + (IF swap.away THEN 1 ELSE 0)

Done == \A n \in 1..4 : n <= swap.done => live[Parts[n]].from = world + 1
SignsOut == swap.done = 5 => view = SignedOut(live["database"])

CanUndo ==
    /\ \A n \in 1..4 :
          /\ n <= Moved => swap.rollback[Parts[n]].from = world
          /\ n > Moved => /\ swap.rollback[Parts[n]] = Absent
                          /\ live[Parts[n]].from = world
    /\ IF Moved = 0 THEN live["database"].sessions \subseteq {world}
       ELSE swap.rollback["database"].sessions \subseteq {world}

ServesOne == Serving => Intact
StartsWithOne == up = "down" => Intact \/ (pending # <<>> /\ ~TroubleComes)
SwapsToOne == up = "swapping" => /\ pending # <<>>
                                 /\ Done /\ SignsOut
                                 /\ TroubleComes => CanUndo

WholeInvariant == /\ Types /\ TroublesTyped
                  /\ ServesOne /\ StartsWithOne /\ SwapsToOne

LEMMA WholeInit == Init => WholeInvariant
<1> SUFFICES ASSUME Init PROVE WholeInvariant
  OBVIOUS
<1>1. \A p \in Part : live[p] = [Absent EXCEPT !.from = 0]
  BY DEF Init
<1>2. Intact
  BY <1>1, PartsAre DEF Init, Intact, Absent, Foreign
<1> QED
  BY <1>2, TypesInit DEF Init, WholeInvariant, TroublesTyped, ServesOne,
     StartsWithOne, SwapsToOne

\* A step of the running program, or its end.
LEMMA IntactStays ==
    ASSUME WholeInvariant, Types', Serving, Serving' \/ up' = "down",
           UNCHANGED troubles, Intact'
    PROVE  WholeInvariant'
<1>1. TroublesTyped'
  BY DEF WholeInvariant, TroublesTyped
<1>2. up' # "swapping"
  BY DEF Serving
<1>3. (ServesOne /\ StartsWithOne /\ SwapsToOne)'
  BY <1>2 DEF ServesOne, StartsWithOne, SwapsToOne
<1> QED BY <1>1, <1>3 DEF WholeInvariant

LEMMA ServingKeeps ==
    ASSUME WholeInvariant, Types', Serving, Serving' \/ up' = "down",
           UNCHANGED <<live, view, world, troubles>>
    PROVE  WholeInvariant'
<1>1. Intact'
  BY DEF WholeInvariant, ServesOne, Intact, Foreign
<1> QED BY <1>1, IntactStays

LEMMA ItemKeeps ==
    ASSUME WholeInvariant, Types', NEW i \in Scans \cup Images,
           \/ UploadFile(i) \/ UploadRow(i) \/ ScanCompletes(i)
           \/ RemoveFile(i) \/ RemoveRow(i)
    PROVE  WholeInvariant'
<1> USE DEF backupVars, exportVars, processVars
<1>1. /\ live \in DataSet /\ FileOf(i) \in Part /\ FileOf(i) # "database"
      /\ live[FileOf(i)] \in Piece /\ view \in Piece /\ "database" \in Part
  BY FileOfIsPart, PartsAre DEF WholeInvariant, Types, Typed, DataSet
<1>2. /\ Serving /\ Intact /\ UNCHANGED <<world, up, troubles>>
  BY DEF UploadFile, UploadRow, ScanCompletes, RemoveFile, RemoveRow,
     WholeInvariant, ServesOne
<1>3. \/ live' = live
      \/ \E S : live' = [live EXCEPT ![FileOf(i)] =
                                  [live[FileOf(i)] EXCEPT !.has = S]]
  BY DEF UploadFile, UploadRow, ScanCompletes, RemoveFile, RemoveRow, WithFile
<1>4. view' = view \/ \E S : view' = [view EXCEPT !.has = S]
  BY DEF UploadFile, UploadRow, ScanCompletes, RemoveFile, RemoveRow, Commit
<1>5. /\ \A p \in Part : live'[p].from = live[p].from
      /\ live'["database"] = live["database"]
  BY <1>1, <1>3 DEF DataSet, Piece
<1>6. view'.from = view.from /\ view'.sessions = view.sessions
  BY <1>1, <1>4 DEF Piece
<1>7. Intact'
  BY <1>1, <1>2, <1>5, <1>6 DEF Intact, Foreign
<1> QED BY <1>2, <1>7, IntactStays DEF Serving

LEMMA WorkKeeps ==
    ASSUME WholeInvariant, Types',
           WorkBegins \/ WorkEnds \/ SignIn \/ Checkpoint
    PROVE  WholeInvariant'
<1> USE DEF backupVars, exportVars, processVars
<1>1. /\ live \in DataSet /\ view \in Piece /\ "database" \in Part
      /\ Serving /\ Intact /\ UNCHANGED <<world, up, troubles>>
  BY PartsAre DEF WholeInvariant, Types, Typed, ServesOne, WorkBegins,
     WorkEnds, SignIn, Checkpoint
<1>2. CASE WorkBegins \/ WorkEnds
  <2>1. live' = live /\ \E S : view' = [view EXCEPT !.has = S]
    BY <1>2 DEF WorkBegins, WorkEnds, Commit
  <2>2. view'.from = view.from /\ view'.sessions = view.sessions
    BY <1>1, <2>1 DEF Piece
  <2>3. Intact'
    BY <1>1, <2>1, <2>2 DEF Intact, Foreign
  <2> QED BY <1>1, <2>3, IntactStays DEF Serving
<1>3. CASE SignIn
  <2>1. /\ live' = live
        /\ view'.from = view.from
        /\ view'.sessions = view.sessions \cup {world}
    BY <1>1, <1>3 DEF SignIn, Piece
  <2>2. Intact'
    BY <1>1, <2>1 DEF Intact, Foreign
  <2> QED BY <1>1, <2>2, IntactStays DEF Serving
<1>4. CASE Checkpoint
  <2>1. view' = view /\ live' = [live EXCEPT !["database"] = view]
    BY <1>4 DEF Checkpoint
  <2>2. Intact'
    BY <1>1, <2>1 DEF Intact, DataSet, Foreign
  <2> QED BY <1>1, <2>2, IntactStays DEF Serving
<1> QED BY <1>2, <1>3, <1>4

\* Requests that change no live data, and the end of the process.
LEMMA RequestKeeps ==
    ASSUME WholeInvariant, Types',
           \/ ExportBegins \/ ExportCopies \/ ExportEnds \/ ExportFails
           \/ \E b \in tickets : Download(b) \/ TicketRemoved(b)
           \/ \E t \in Tokens :
                 \/ \E b \in held : ImportBegins(t, b)
                 \/ ImportValidated(t) \/ ImportFails(t)
                 \/ CancelChecks(t) \/ CancelLists(t)
                 \/ CancelLeaves(t) \/ CancelRemoves(t)
                 \/ RestoreChecks(t) \/ RestoreConfirms(t)
           \/ Exit \/ Crash
    PROVE  WholeInvariant'
<1> USE DEF dataVars, exportVars, stageVars, processVars, backupVars
<1>1. Serving /\ UNCHANGED <<live, view, world, troubles>>
  BY DEF ExportBegins, ExportCopies, ExportEnds, ExportFails, Download,
     TicketRemoved, ImportBegins, ImportValidated, ImportFails, CancelChecks,
     CancelLists, CancelLeaves, CancelRemoves, RestoreChecks, RestoreConfirms, Exit, Crash, Ends, Serving
<1>2. Serving' \/ up' = "down"
  BY <1>1 DEF ExportBegins, ExportCopies, ExportEnds, ExportFails, Download,
     TicketRemoved, ImportBegins, ImportValidated, ImportFails, CancelChecks,
     CancelLists, CancelLeaves, CancelRemoves, RestoreChecks, RestoreConfirms, Exit, Crash, Ends, Serving
<1> QED BY <1>1, <1>2, ServingKeeps

LEMMA StartKeeps ==
    ASSUME WholeInvariant, Types', Start
    PROVE  WholeInvariant'
<1>1. Intact /\ UNCHANGED <<live, view, world, troubles>>
  BY DEF Start, WholeInvariant, StartsWithOne, dataVars
<1>2. Intact'
  BY <1>1 DEF Intact, Foreign
<1>3. TroublesTyped' /\ up' = "running"
  BY <1>1 DEF Start, WholeInvariant, TroublesTyped
<1> QED
  BY <1>2, <1>3 DEF WholeInvariant, ServesOne, StartsWithOne, SwapsToOne

LEMMA SwapFacts ==
    ASSUME WholeInvariant, up = "swapping"
    PROVE  /\ live \in DataSet /\ swap \in Swapped /\ world \in Nat
           /\ Moved \in 0..5 /\ swap.done \in 0..5
           /\ Done /\ SignsOut /\ (TroubleComes => CanUndo) /\ pending # <<>>
<1>1. /\ live \in DataSet /\ swap \in Swapped /\ world \in Nat
      /\ AwayBeforeEnd /\ swap.done \in 0..5
  BY DEF WholeInvariant, Types, Typed, Swapped
<1>2. Moved \in 0..5
  BY <1>1 DEF Moved, AwayBeforeEnd
<1> QED BY <1>1, <1>2 DEF WholeInvariant, SwapsToOne

\* Where a trouble may still come, none has come before.
LEMMA FirstTrouble ==
    ASSUME MaxTroubles <= 1, TroublesTyped, TroubleComes
    PROVE  ~Foreign
<1>1. troubles = <<>>
  BY BackupAssumption DEF TroublesTyped, TroubleComes, BackupAssumption
<1> QED BY <1>1 DEF Foreign, ToSet

\* A step of the swap, after which it is still under way.
LEMMA StillSwaps ==
    ASSUME WholeInvariant, Types', up' = "swapping", UNCHANGED troubles,
           pending' # <<>>, Done', SignsOut', TroubleComes => CanUndo'
    PROVE  WholeInvariant'
<1>1. TroublesTyped' /\ (TroubleComes' <=> TroubleComes)
  BY DEF WholeInvariant, TroublesTyped, TroubleComes
<1>2. (ServesOne /\ StartsWithOne)'
  BY DEF ServesOne, StartsWithOne, Serving
<1>3. SwapsToOne'
  BY <1>1 DEF SwapsToOne
<1> QED BY <1>1, <1>2, <1>3 DEF WholeInvariant

LEMMA SwapBeginsKeeps ==
    ASSUME MaxTroubles <= 1, WholeInvariant, Types', SwapBegins
    PROVE  WholeInvariant'
<1>1. /\ up' = "swapping" /\ pending' # <<>> /\ up = "down"
      /\ UNCHANGED <<live, world, troubles>>
      /\ swap'.done = 0 /\ ~swap'.away /\ swap'.rollback = Empty
  BY DEF SwapBegins, stageVars, NoSwap
<1>2. Done' /\ SignsOut'
  BY <1>1 DEF Done, SignsOut
<1>3. ASSUME TroubleComes PROVE CanUndo'
  <2>1. Intact /\ ~Foreign
    BY <1>1, <1>3, FirstTrouble DEF WholeInvariant, StartsWithOne
  <2>2. Moved' = 0
    BY <1>1 DEF Moved
  <2>3. \A n \in 1..4 : Empty[Parts[n]] = Absent /\ live[Parts[n]].from = world
    BY <2>1, PartsAre DEF Empty, Intact
  <2> QED BY <1>1, <2>1, <2>2, <2>3 DEF CanUndo, Intact
<1> QED BY <1>1, <1>2, <1>3, StillSwaps

LEMMA MoveAwayKeeps ==
    ASSUME WholeInvariant, Types', MoveAway
    PROVE  WholeInvariant'
<1> DEFINE m == swap.done + 1
<1>1. /\ up = "swapping" /\ up' = "swapping" /\ swap.done < 4 /\ ~swap.away
      /\ UNCHANGED <<world, troubles, pending>>
  BY PartsAre DEF MoveAway, stageVars
<1>2. /\ live \in DataSet /\ swap \in Swapped /\ world \in Nat
      /\ swap.done \in 0..5
      /\ Done /\ (TroubleComes => CanUndo) /\ pending # <<>>
  BY <1>1, SwapFacts
<1>3. m \in 1..4 /\ Current = Parts[m] /\ Parts[m] \in Part
  BY <1>1, <1>2, PartsAre DEF Current
<1>4. /\ live' = [live EXCEPT ![Parts[m]] = Absent]
      /\ swap'.done = swap.done /\ swap'.away
      /\ swap'.rollback = [swap.rollback EXCEPT ![Parts[m]] = live[Parts[m]]]
  BY <1>2, <1>3 DEF MoveAway, Swapped
<1>5. \A n \in 1..4 : n # m => Parts[n] # Parts[m]
  BY <1>3, PartsAre
<1>6. \A n \in 1..4 :
         /\ live'[Parts[n]] = IF n = m THEN Absent ELSE live[Parts[n]]
         /\ swap'.rollback[Parts[n]] = IF n = m THEN live[Parts[m]]
                                       ELSE swap.rollback[Parts[n]]
  BY <1>2, <1>3, <1>4, <1>5, PartsAre DEF DataSet, Swapped
<1>7. Done' /\ SignsOut'
  BY <1>1, <1>2, <1>4, <1>6 DEF Done, SignsOut
<1>8. ASSUME TroubleComes PROVE CanUndo'
  <2>1. Moved = swap.done /\ Moved' = m
    BY <1>1, <1>2, <1>4 DEF Moved
  <2>2. \A n \in 1..4 :
           /\ n <= m => swap'.rollback[Parts[n]].from = world
           /\ n > m => /\ swap'.rollback[Parts[n]] = Absent
                       /\ live'[Parts[n]].from = world
    BY <1>2, <1>3, <1>6, <1>8, <2>1 DEF CanUndo
  <2>3. swap'.rollback["database"].sessions \subseteq {world}
    BY <1>2, <1>3, <1>6, <1>8, <2>1, PartsAre DEF CanUndo
  <2> QED BY <1>1, <1>3, <2>1, <2>2, <2>3 DEF CanUndo
<1> QED BY <1>1, <1>2, <1>7, <1>8, StillSwaps

LEMMA InstallKeeps ==
    ASSUME WholeInvariant, Types', Stages, Install
    PROVE  WholeInvariant'
<1> DEFINE m == swap.done + 1
<1>1. /\ up = "swapping" /\ up' = "swapping" /\ swap.away
      /\ UNCHANGED <<world, troubles, pending>>
  BY DEF Install
<1>2. /\ live \in DataSet /\ swap \in Swapped /\ world \in Nat
      /\ swap.done \in 0..5 /\ swap.done < 4
      /\ Done /\ (TroubleComes => CanUndo) /\ pending # <<>>
  BY <1>1, SwapFacts DEF WholeInvariant, Types, AwayBeforeEnd
<1>3. m \in 1..4 /\ Current = Parts[m] /\ Parts[m] \in Part
  BY <1>2, PartsAre DEF Current
<1>4. /\ live' = [live EXCEPT ![Parts[m]] = Installed(Parts[m])]
      /\ swap'.done = m /\ ~swap'.away /\ swap'.rollback = swap.rollback
  BY <1>2, <1>3 DEF Install, Swapped
<1>5. \A n \in 1..4 : n # m => Parts[n] # Parts[m]
  BY <1>3, PartsAre
<1>6. \A n \in 1..4 : live'[Parts[n]] = IF n = m THEN Installed(Parts[m])
                                        ELSE live[Parts[n]]
  BY <1>2, <1>3, <1>4, <1>5, PartsAre DEF DataSet
<1>7. Done' /\ SignsOut'
  <2>1. Installed(Parts[m]).from = world + 1
    BY <1>1, <1>3, InstalledTyped DEF WholeInvariant
  <2> QED BY <1>1, <1>2, <1>3, <1>4, <1>6, <2>1 DEF Done, SignsOut
<1>8. ASSUME TroubleComes PROVE CanUndo'
  <2>1. Moved = m /\ Moved' = m /\ m # 0
    BY <1>1, <1>3, <1>4 DEF Moved
  <2> QED BY <1>1, <1>2, <1>3, <1>4, <1>6, <1>8, <2>1 DEF CanUndo
<1> QED BY <1>1, <1>2, <1>7, <1>8, StillSwaps

LEMMA SessionsDeletedKeeps ==
    ASSUME WholeInvariant, Types', SessionsDeleted
    PROVE  WholeInvariant'
<1>1. /\ up = "swapping" /\ up' = "swapping" /\ swap.done = 4
      /\ UNCHANGED <<live, world, troubles, pending>>
      /\ view' = SignedOut(live["database"])
  BY PartsAre DEF SessionsDeleted, stageVars
<1>2. /\ swap \in Swapped /\ AwayBeforeEnd
      /\ Done /\ (TroubleComes => CanUndo) /\ pending # <<>>
  BY <1>1, SwapFacts DEF WholeInvariant, Types
<1>3. /\ swap'.done = 5 /\ swap'.away = swap.away /\ ~swap.away
      /\ swap'.rollback = swap.rollback
  BY <1>1, <1>2 DEF SessionsDeleted, Swapped, AwayBeforeEnd
<1>4. Done' /\ SignsOut'
  BY <1>1, <1>2, <1>3 DEF Done, SignsOut, SignedOut
<1>5. ASSUME TroubleComes PROVE CanUndo'
  <2>1. Moved = 4 /\ Moved' = 5
    BY <1>1, <1>3 DEF Moved
  <2> QED BY <1>1, <1>2, <1>3, <1>5, <2>1 DEF CanUndo
<1> QED BY <1>1, <1>2, <1>4, <1>5, StillSwaps

LEMMA SwapEndsKeeps ==
    ASSUME WholeInvariant, Types', SwapEnds
    PROVE  WholeInvariant'
<1>1. /\ up = "swapping" /\ up' = "running" /\ swap.done = 5
      /\ world' = world + 1 /\ UNCHANGED troubles
      /\ live' = [live EXCEPT !["database"] = view]
      /\ view' = view
  BY PartsAre DEF SwapEnds
<1>2. /\ live \in DataSet /\ "database" \in Part /\ live["database"] \in Piece
      /\ Done /\ view = SignedOut(live["database"])
  BY <1>1, SwapFacts, PartsAre DEF DataSet, SignsOut
<1>3. \A p \in Part : live[p].from = world + 1
  BY <1>1, <1>2, PartsAre DEF Done
<1>4. view.from = world + 1 /\ view.sessions = {}
  BY <1>2, <1>3 DEF SignedOut, Piece
<1>5. Intact'
  BY <1>1, <1>2, <1>3, <1>4 DEF Intact, DataSet
<1>6. TroublesTyped'
  BY <1>1 DEF WholeInvariant, TroublesTyped
<1> QED
  BY <1>1, <1>5, <1>6 DEF WholeInvariant, ServesOne, StartsWithOne, SwapsToOne

\* What is undone is what was moved.
LEMMA TouchedIsMoved ==
    ASSUME swap \in Swapped, NEW n \in 1..4
    PROVE  Touched(Parts[n]) <=> n <= Moved
<1>1. swap.done \in 0..5 /\ swap.away \in BOOLEAN
  BY DEF Swapped
<1>2. /\ DOMAIN Parts = 1..4
      /\ \A m \in 1..4 : Parts[m] = Parts[n] <=> m = n
  BY PartsAre DEF Parts
<1>3. Touched(Parts[n]) <=> n <= swap.done \/ (swap.away /\ n = swap.done + 1)
  BY <1>2 DEF Touched
<1> QED BY <1>1, <1>3 DEF Moved

LEMMA SwapRaisesKeeps ==
    ASSUME WholeInvariant, Types', SwapRaises
    PROVE  WholeInvariant'
<1>1. /\ up = "swapping" /\ up' = "down" /\ TroubleComes
      /\ live' = [p \in Part |-> Undone(p)]
      /\ UNCHANGED world
      /\ \/ /\ view' = Undone("database")
            /\ troubles' = Append(troubles, "raised")
         \/ /\ view' = [Undone("database") EXCEPT !.from = Nobody]
            /\ troubles' = Append(troubles, "late")
  BY DEF SwapRaises, TroubleComes
<1>2. /\ CanUndo /\ world \in Nat /\ Moved \in 0..5
      /\ swap \in Swapped /\ live \in DataSet
  BY <1>1, SwapFacts
<1>3. \A n \in 1..4 : Undone(Parts[n]) = IF n <= Moved
                                         THEN swap.rollback[Parts[n]]
                                         ELSE live[Parts[n]]
  BY <1>2, TouchedIsMoved DEF Undone
<1>4. \A n \in 1..4 : Undone(Parts[n]).from = world
  BY <1>2, <1>3 DEF CanUndo
<1>5. \A p \in Part : Undone(p).from = world
  BY <1>4, PartsAre
<1>6. Undone("database").sessions \subseteq {world}
  BY <1>2, <1>3, PartsAre DEF CanUndo
<1>7. Undone("database") \in Piece /\ "database" \in Part
  BY <1>2, PartsAre DEF Undone, DataSet, Swapped
<1>8. TroublesTyped'
  BY <1>1 DEF WholeInvariant, TroublesTyped
<1>9. view'.sessions = Undone("database").sessions
  BY <1>1, <1>7 DEF Piece
<1>10. Foreign' \/ view'.from = world
  <2>1. CASE view' = Undone("database")
    BY <1>5, <1>7, <2>1
  <2>2. CASE troubles' = Append(troubles, "late")
    <3>1. troubles' \in Seq({"raised", "killed", "late"})
      BY <1>8 DEF TroublesTyped
    <3>2. Len(troubles') \in DOMAIN troubles' /\ troubles'[Len(troubles')] = "late"
      BY <2>2, <3>1 DEF WholeInvariant, TroublesTyped
    <3> QED BY <3>2 DEF Foreign, ToSet
  <2> QED BY <1>1, <2>1, <2>2
<1>11. Intact'
  BY <1>1, <1>5, <1>6, <1>7, <1>9, <1>10 DEF Intact
<1> QED
  BY <1>1, <1>8, <1>11 DEF WholeInvariant, ServesOne, StartsWithOne, SwapsToOne,
     Serving

LEMMA SwapKilledKeeps ==
    ASSUME MaxTroubles <= 1, WholeInvariant, Types', SwapKilled
    PROVE  WholeInvariant'
<1>1. /\ up = "swapping" /\ up' = "down"
      /\ UNCHANGED pending
      /\ troubles' = Append(troubles, "killed")
  BY DEF SwapKilled, stageVars
<1>2. TroublesTyped' /\ Len(troubles') >= 1
  BY <1>1 DEF WholeInvariant, TroublesTyped
<1>3. ~TroubleComes'
  BY <1>2, BackupAssumption DEF TroubleComes, TroublesTyped, BackupAssumption
<1>4. pending' # <<>>
  BY <1>1, SwapFacts
<1> QED
  BY <1>1, <1>2, <1>3, <1>4 DEF WholeInvariant, ServesOne, StartsWithOne,
     SwapsToOne, Serving

LEMMA WholeNext ==
    ASSUME MaxTroubles <= 1
    PROVE  Stages /\ WholeInvariant /\ [Next]_vars => WholeInvariant'
<1> SUFFICES ASSUME Stages, WholeInvariant, [Next]_vars PROVE WholeInvariant'
  OBVIOUS
<1>1. Types'
  BY TypesNext DEF WholeInvariant
<1>2. CASE UNCHANGED vars
  BY <1>1, <1>2 DEF vars, WholeInvariant, TroublesTyped, ServesOne,
     StartsWithOne, SwapsToOne, Serving, Intact, Foreign, TroubleComes, Done,
     SignsOut, CanUndo, Moved
<1> QED
  BY <1>1, <1>2, ItemKeeps, WorkKeeps, RequestKeeps, StartKeeps,
     SwapBeginsKeeps, MoveAwayKeeps, InstallKeeps, SessionsDeletedKeeps,
     SwapEndsKeeps, SwapRaisesKeeps, SwapKilledKeeps DEF Next

\* With at most one swap that raises or is killed, what is served is one data
\* set, database, key and files, and nobody signed in before a restore is
\* afterwards (replace_with_restore, its except and its finally clause).  Of
\* the database this is not said once a swap was undone after the sessions of
\* the installed database had been deleted, and left its log behind.
THEOREM RestoreIsWhole == MaxTroubles <= 1 => (Safe => []ServedWhole)
<1> SUFFICES ASSUME MaxTroubles <= 1 PROVE Safe => []ServedWhole
  OBVIOUS
<1>1. WholeInvariant => ServedWhole
  BY DEF WholeInvariant, ServesOne, Intact, Foreign, ServedWhole
<1>2. Stages /\ WholeInvariant /\ [Next]_vars => WholeInvariant'
  BY WholeNext
<1>3. IndInv => Stages
  BY DEF IndInv
<1> QED BY WholeInit, BackupInvariant, <1>1, <1>2, <1>3, PTL DEF Safe
===============================================================================
