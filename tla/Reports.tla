-------------------------------- MODULE Reports --------------------------------
(***************************************************************************)
(* Groups (app/groups.py), and the export and import of reports            *)
(* (app/reports.py, the handlers of app/main.py).  Handlers run in threads *)
(* and an export reads its tables one SELECT after the other, with no      *)
(* transaction around them; an import runs on the event loop from the      *)
(* first row it reads to its commit.                                       *)
(*                                                                         *)
(* A scan's findings and packages are one number, its content, given when  *)
(* the scan completes; a report row keeps apart the content it says        *)
(* ("finished_at" and so on) and the one it found in "findings".  Names    *)
(* of images follow from their keys, and names of groups are left out.     *)
(* Changes by other handlers are whole: ScanManager and ImageLibrary have  *)
(* their steps.  Texts and sizes are left out, and with them the limits of *)
(* an import: bytes of the file, findings, packages, lengths of texts.     *)
(***************************************************************************)
EXTENDS Integers, FiniteSets, FiniteSetsExt

CONSTANTS Groups,         \* ids of rows of "image_groups"
          Archives,       \* ids of the images that have an archive
          Uploaded,       \* those whose archive is deleted with them
          Exporters,      \* threads that serve exports
          Importers,      \* import requests
          MaxMembers,     \* bound: memberships at first
          MaxContents,    \* bound: scans that complete
          MaxExports,     \* bound: exports
          MaxChanges      \* bound: changes by other handlers

ASSUME ReportsAssumption == /\ Archives \subseteq 1..MaxContents
                            /\ IsFiniteSet(Archives) /\ IsFiniteSet(Groups)
                            /\ Uploaded \subseteq Archives
                            /\ MaxMembers \in Nat /\ MaxContents \in Nat
                            /\ MaxExports \in Nat /\ MaxChanges \in Nat

\* A row of "images".  The key of an archive is a hash of its id and name; the
\* path of a report-only image holds the key that it was exported with.
\* An id is given out again only when it was the greatest.
ImageIds == 1..(2 * Max(Archives \cup {0}) + MaxChanges)
Image == [exists: BOOLEAN, report: BOOLEAN, key: Archives \cup {0},
          hidden: BOOLEAN]
NoImage == [exists |-> FALSE, report |-> FALSE, key |-> 0, hidden |-> FALSE]

\* A row of "scans"; an import marks the scans that it makes.
Contents == 0..MaxContents
Stamps == 0..MaxExports
Fingerprint == [key: Archives, content: Contents, found: Contents,
                stamp: Stamps]
NotImported == [key |-> 0, content |-> 0, found |-> 0, stamp |-> 0]
Scan == [id: Nat, image: ImageIds, status: {"active", "completed"},
         content: Contents, found: Contents,
         marker: Fingerprint \cup {NotImported}]

VARIABLES images,     \* [ImageIds -> row or NoImage]
          scans,      \* the rows of "scans"
          groups,     \* the rows of "image_groups"
          members,    \* the rows of "image_group_members"
          export,     \* [Exporters -> what each has read]
          files,      \* the JSON files that have been exported
          import,     \* [Importers -> what each has read]
          contents,   \* scans completed so far
          exports,    \* exports so far
          changes     \* changes so far

library == <<images, scans, groups, members>>
vars == <<images, scans, groups, members, export, files, import, contents,
          exports, changes>>

Row == [scan: Nat, image: ImageIds, key: Archives, done: BOOLEAN,
        content: Contents]
Stages == {"idle", "count", "latest", "unscanned", "scans", "findings"}
\* calm is no state of the program: nothing was removed, and no membership
\* was changed, since the export began.
Export == [stage: Stages, groups: SUBSET Groups, counted: SUBSET ImageIds,
           member_count: Nat, picked: SUBSET Nat, listed: Nat,
           rows: SUBSET Row, calm: BOOLEAN]
NoExport == [stage |-> "idle", groups |-> {}, counted |-> {},
             member_count |-> 0, picked |-> {}, listed |-> 0, rows |-> {},
             calm |-> TRUE]

NoImport == [reading |-> FALSE, file |-> {}, existing |-> {}]

Exists(i) == images[i].exists
Visible(i) == Exists(i) /\ ~images[i].hidden
NextId(ids) == 1 + Max(ids \cup {0})
ScansOf(i) == {s \in scans : s.image = i}

\* Types; ids are unique, and foreign keys point to rows.
TypeOK == /\ images \in [ImageIds -> Image]
          /\ scans \subseteq Scan
          /\ \A s, t \in scans : s.id = t.id => s = t
          /\ \A s \in scans : Exists(s.image)
          /\ groups \subseteq Groups
          /\ members \subseteq groups \X ImageIds
          /\ \A m \in members : Exists(m[2])
          /\ export \in [Exporters -> Export]
          /\ DOMAIN import = Importers
          /\ contents \in 0..MaxContents /\ exports \in 0..MaxExports
          /\ changes \in 0..MaxChanges

\* Archives with or without a completed scan, one of which may have been
\* imported as well (its file has the stamp 0), in any of the groups.
ArchiveImage(i) == [exists |-> TRUE, report |-> FALSE, key |-> i,
                    hidden |-> FALSE]
ReportImage(k) == [exists |-> TRUE, report |-> TRUE, key |-> k,
                   hidden |-> FALSE]
OldScan(i, k, marker) == [id |-> i, image |-> i, status |-> "completed",
                          content |-> k, found |-> k, marker |-> marker]
OldMarker(k) == [key |-> k, content |-> k, found |-> k, stamp |-> 0]
FirstReport == NextId(Archives)

Init == /\ \E scanned \in SUBSET Archives :
              \E imported \in {{}} \cup {{k} : k \in scanned} :
                 /\ images = [i \in ImageIds |->
                       IF i \in Archives THEN ArchiveImage(i)
                       ELSE IF i = FirstReport /\ imported # {}
                            THEN ReportImage(CHOOSE k \in imported : TRUE)
                            ELSE NoImage]
                 /\ scans = {OldScan(i, i, NotImported) : i \in scanned}
                       \cup {OldScan(FirstReport, k, OldMarker(k)) :
                                k \in imported}
        /\ groups = Groups
        /\ members \in SUBSET (Groups \X {i \in ImageIds : Exists(i)})
        /\ Cardinality(members) <= MaxMembers
        /\ export = [t \in Exporters |-> NoExport]
        /\ files = {}
        /\ import = [q \in Importers |-> NoImport]
        /\ contents = Max(Archives \cup {0}) /\ exports = 0 /\ changes = 0

(***************************************************************************)
(* What other handlers do.                                                 *)
(***************************************************************************)
Change == /\ changes < MaxChanges /\ changes' = changes + 1
          /\ UNCHANGED <<files, import, exports>>

Disturb == export' = [t \in Exporters |-> [export[t] EXCEPT !.calm = FALSE]]

AdmitScan(i) ==
    /\ Change
    /\ Visible(i) /\ ~images[i].report
    /\ scans' = scans \cup
          {[id |-> NextId({s.id : s \in scans}), image |-> i,
            status |-> "active", content |-> 0, found |-> 0,
            marker |-> NotImported]}
    /\ UNCHANGED <<images, groups, members, export, contents>>

CompleteScan(s) ==
    /\ Change
    /\ s.status = "active" /\ contents < MaxContents
    /\ contents' = contents + 1
    /\ scans' = (scans \ {s}) \cup
          {[id |-> s.id, image |-> s.image, status |-> "completed",
            content |-> contents', found |-> contents', marker |-> s.marker]}
    /\ UNCHANGED <<images, groups, members, export>>

RemoveScan(s) ==
    /\ Change /\ Disturb
    /\ s.status = "completed"
    /\ scans' = scans \ {s}
    /\ UNCHANGED <<images, groups, members, contents>>

\* mutant
MembersLeft(i) == members

MembersWithout(i) == {m \in members : m[2] # i}

RemoveImage(i) ==
    /\ Change /\ Disturb
    /\ Visible(i)
    /\ \A s \in ScansOf(i) : s.status = "completed"
    /\ scans' = scans \ ScansOf(i)
    /\ IF images[i].report \/ i \in Uploaded
       THEN /\ images' = [images EXCEPT ![i] = NoImage]
            /\ members' = MembersWithout(i)
       ELSE /\ images' = [images EXCEPT ![i].hidden = TRUE]
            /\ UNCHANGED members
    /\ UNCHANGED <<groups, contents>>

RestoreImage(i) ==
    /\ Change /\ Disturb
    /\ Exists(i) /\ images[i].hidden
    /\ images' = [images EXCEPT ![i].hidden = FALSE]
    /\ UNCHANGED <<scans, groups, members, contents>>

CreateGroup(g) ==
    /\ Change
    /\ g \notin groups
    /\ groups' = groups \cup {g}
    /\ UNCHANGED <<images, scans, members, export, contents>>

DeleteGroup(g) ==
    /\ Change /\ Disturb
    /\ g \in groups
    /\ groups' = groups \ {g}
    /\ members' = {m \in members : m[1] # g}
    /\ UNCHANGED <<images, scans, contents>>

ReplaceMembers(g, chosen) ==
    /\ Change /\ Disturb
    /\ g \in groups /\ \A i \in chosen : Visible(i)
    /\ members' = {m \in members : m[1] # g} \cup ({g} \X chosen)
    /\ UNCHANGED <<images, scans, groups, contents>>

AddMembers(g, chosen) ==
    /\ Change /\ Disturb
    /\ g \in groups /\ chosen # {} /\ \A i \in chosen : Visible(i)
    /\ members' = members \cup ({g} \X chosen)
    /\ UNCHANGED <<images, scans, groups, contents>>

(***************************************************************************)
(* Export.  Each step is one SELECT.                                       *)
(***************************************************************************)
Step(t, from, record) ==
    /\ export[t].stage = from
    /\ export' = [export EXCEPT ![t] = record]
    /\ UNCHANGED <<library, import, contents, changes>>

Begins == exports < MaxExports /\ exports' = exports + 1 /\ UNCHANGED files
Reads == UNCHANGED <<files, exports>>

\* The memberships of visible images, and the distinct images in them.
Rows(gs) == {m \in members : m[1] \in gs /\ Visible(m[2])}
VisibleMembers(gs) == {m[2] : m \in Rows(gs)}

\* mutant
MemberRows(gs) == Cardinality(Rows(gs))

MemberCount(gs) == Cardinality(VisibleMembers(gs))

Completed(i) == {s \in ScansOf(i) : s.status = "completed"}
Latest(i) == Max({s.id : s \in Completed(i)})

\* group_export_selection: the groups, ...
SelectGroups(t, gs) ==
    /\ gs # {} /\ gs \subseteq groups
    /\ Begins
    /\ Step(t, "idle", [NoExport EXCEPT !.stage = "count", !.groups = gs])

\* ... the number of their members, which is not zero, ...
CountMembers(t) ==
    LET gs == export[t].groups
    IN /\ Reads
       /\ Step(t, "count",
               IF VisibleMembers(gs) = {} THEN NoExport
               ELSE [export[t] EXCEPT !.stage = "latest",
                                      !.counted = VisibleMembers(gs),
                                      !.member_count = MemberCount(gs)])

\* ... the latest completed scan of each, ...
SelectLatest(t) ==
    LET scanned == {i \in VisibleMembers(export[t].groups) :
                       Completed(i) # {}}
    IN /\ Reads
       /\ Step(t, "latest",
               IF scanned = {} THEN NoExport
               ELSE [export[t] EXCEPT !.stage = "unscanned",
                                      !.picked = {Latest(i) : i \in scanned}])

\* ... and the members that have none.
ListUnscanned(t) ==
    LET none == {i \in VisibleMembers(export[t].groups) :
                    Completed(i) = {}}
    IN /\ Reads
       /\ Step(t, "unscanned", [export[t] EXCEPT !.stage = "scans",
                                          !.listed = Cardinality(none)])

\* An export of scans by their ids has no selection.
SelectScans(t, ids) ==
    /\ ids # {}
    /\ Begins
    /\ Step(t, "idle", [NoExport EXCEPT !.stage = "scans", !.picked = ids])

\* report_payload: the scans that are still there, with their images, which
\* selectinload reads next, ...
ReadScans(t) ==
    LET rows == {[scan |-> s.id, image |-> s.image,
                  key |-> images[s.image].key,
                  done |-> s.status = "completed", content |-> s.content] :
                    s \in {x \in scans : x.id \in export[t].picked}}
    IN /\ Reads
       /\ Step(t, "scans", IF rows = {} THEN NoExport
                           ELSE [export[t] EXCEPT !.stage = "findings",
                                                  !.rows = rows])

\* ... then the findings, and next the packages, that have the scans' ids: one
\* step, so that a torn report has both of its scan or neither.
FoundNow(id) == Max({0} \cup {s.found : s \in {x \in scans : x.id = id}})

ReportOf(row) == [scan |-> row.scan, image |-> row.image, key |-> row.key,
                  done |-> row.done, content |-> row.content,
                  found |-> FoundNow(row.scan)]

ReadFindings(t) ==
    LET r == export[t]
    IN /\ files' = files \cup
             {[groups |-> r.groups, counted |-> r.counted,
               member_count |-> r.member_count,
               included_scan_count |-> Cardinality(r.picked),
               unscanned_member_count |-> r.member_count
                                             - Cardinality(r.picked),
               listed |-> r.listed,
               reports |-> {ReportOf(row) : row \in r.rows},
               stamp |-> 1 + Cardinality(files), calm |-> r.calm]}
       /\ Step(t, "findings", NoExport)
       /\ UNCHANGED exports

(***************************************************************************)
(* Import.                                                                 *)
(***************************************************************************)
\* Of the checks of an import, those of the status of each report and of the
\* selection (_validate_group_selection, normalize_import_payload).
Selected(f) == f.groups # {}
SelectionValid(f) ==
    /\ f.unscanned_member_count >= 0
    /\ f.included_scan_count + f.unscanned_member_count = f.member_count
    /\ f.included_scan_count = Cardinality(f.reports)
SelectionAccepted(f) == /\ \A r \in f.reports : r.done
                        /\ Selected(f) => SelectionValid(f)

MarkerOf(r, f) == [key |-> r.key, content |-> r.content, found |-> r.found,
                   stamp |-> f.stamp]
Markers(f) == {MarkerOf(r, f) : r \in f.reports}

\* mutant
LoopShared == TRUE

\* The event loop is not between the reads and the commit of an import.
LoopFree == \A q \in Importers : ~import[q].reading

\* The whole file has arrived, and is within the limits.
ImportReads(q, f) ==
    /\ ~import[q].reading /\ LoopFree
    /\ SelectionAccepted(f)
    /\ import' = [import EXCEPT ![q] =
          [reading |-> TRUE, file |-> {f},
           existing |-> Markers(f) \cap {s.marker : s \in scans}]]
    /\ UNCHANGED <<library, export, files, contents, exports, changes>>

\* The next ids, one for each element of S.
Numbered(S, used) ==
    CHOOSE f \in [S -> NextId(used)..(NextId(used) + Cardinality(S) - 1)] :
        \A x, y \in S : f[x] = f[y] => x = y

\* The markers of the file that the tables did not have when it was read.
NewMarkers(q) ==
    LET f == CHOOSE g \in import[q].file : TRUE
    IN Markers(f) \ import[q].existing

\* A report's image is found by its key, or is one of those that are inserted.
ReportImages == {i \in ImageIds : Exists(i) /\ images[i].report}
NewKeys(new) == {m.key : m \in new} \ {images[i].key : i \in ReportImages}
PlaceOf(new) == Numbered(NewKeys(new), {i \in ImageIds : Exists(i)})
HomeOf(key, new) == IF key \in NewKeys(new) THEN PlaceOf(new)[key]
                    ELSE CHOOSE i \in ReportImages : images[i].key = key

ScanOf(m, id, image) == [id |-> id, image |-> image, status |-> "completed",
                         content |-> m.content, found |-> m.found, marker |-> m]

\* A scan for every marker that is new, below an image for every key; reports
\* of one file that have one marker count once.
ImportCommits(q) ==
    /\ import[q].reading
    /\ LET new == NewMarkers(q)
           place == PlaceOf(new)
           id == Numbered(new, {s.id : s \in scans})
       IN /\ images' = [i \in ImageIds |->
                IF \E k \in NewKeys(new) : place[k] = i
                THEN ReportImage(CHOOSE k \in NewKeys(new) : place[k] = i)
                ELSE images[i]]
          /\ scans' = scans \cup
                {ScanOf(m, id[m], HomeOf(m.key, new)) : m \in new}
    /\ import' = [import EXCEPT ![q] = NoImport]
    /\ UNCHANGED <<groups, members, export, files, contents, exports,
                   changes>>

\* Its image is removed before the scan is inserted, or the table is locked.
ImportFails(q) == /\ import[q].reading
                  /\ import' = [import EXCEPT ![q] = NoImport]
                  /\ UNCHANGED <<library, export, files, contents, exports,
                                 changes>>

Next == \/ \E i \in ImageIds : \/ AdmitScan(i) \/ RemoveImage(i)
                               \/ RestoreImage(i)
        \/ \E s \in scans : CompleteScan(s) \/ RemoveScan(s)
        \/ \E g \in Groups : \/ CreateGroup(g) \/ DeleteGroup(g)
                             \/ \E chosen \in SUBSET ImageIds :
                                   \/ ReplaceMembers(g, chosen)
                                   \/ AddMembers(g, chosen)
        \/ \E t \in Exporters :
              \/ \E gs \in SUBSET Groups : SelectGroups(t, gs)
              \/ \E ids \in SUBSET {s.id : s \in scans} : SelectScans(t, ids)
              \/ CountMembers(t) \/ SelectLatest(t) \/ ListUnscanned(t)
              \/ ReadScans(t) \/ ReadFindings(t)
        \/ \E q \in Importers : \/ \E f \in files : ImportReads(q, f)
                                \/ ImportCommits(q) \/ ImportFails(q)

Spec == Init /\ [][Next]_vars

(***************************************************************************)
(* Properties.                                                             *)
(***************************************************************************)
\* A report with other findings than those of its scan: the scan was removed
\* between the reads.  Its file can be imported, and the scan that this makes
\* be exported again.
Torn(r) == r.found # r.content
TornBefore(r) ==
    \E g \in files : ~g.calm /\ \E p \in g.reports :
                        p.content = r.content /\ p.found = r.found

\* An export of groups during which nothing was removed and no membership
\* changed, whatever scans are admitted, completed or imported meanwhile, is
\* a snapshot whose selection adds up, as an import checks it: it has finished
\* scans only, counts every visible member once, has at most one report of
\* each, with the findings of its scan unless they came torn from another
\* file, and leaves out no more members than it says.
CalmExportsAddUp ==
    \A f \in files : f.calm /\ Selected(f) =>
        /\ SelectionAccepted(f)
        /\ f.member_count = Cardinality(f.counted)
        /\ f.listed <= f.unscanned_member_count
        /\ \A r \in f.reports : r.image \in f.counted
        /\ \A r \in f.reports : Torn(r) => TornBefore(r)
        /\ \A r, p \in f.reports : r.image = p.image => r = p

\* However often a file is imported, also by requests that overlap, and
\* whatever is removed meanwhile, each of its reports is there at most once:
\* "importing the same report again ... skips the duplicate".
ImportedOnce ==
    \A s, t \in scans :
        s.marker # NotImported /\ s.marker = t.marker => s = t
===============================================================================
