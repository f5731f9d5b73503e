----------------------------- MODULE Reports_proofs -----------------------------
(***************************************************************************)
(* Proofs about the export and import of reports, for any groups,          *)
(* archives, importers, exporters and bounds: a report is imported at most *)
(* once, however often its file arrives, also in requests that overlap;    *)
(* the rows keep their types and references; and the file of an export     *)
(* that nothing disturbed is a snapshot whose selection adds up.           *)
(***************************************************************************)
EXTENDS Reports, FiniteSetTheorems, WellFoundedInduction, TLAPS

ScanShape(s) ==
    \E i, m, st, c, f, k :
        s = [id |-> i, image |-> m, status |-> st, content |-> c,
             found |-> f, marker |-> k]

Marked == {s.marker : s \in scans} \ {NotImported}

\* Only one request is between its reads and its commit, and no marker of its
\* file has come since that it has not seen.
OneReader ==
    \A p, q \in Importers : import[p].reading /\ import[q].reading => p = q

SeesMarkers ==
    \A q \in Importers : import[q].reading =>
        \E f : /\ import[q].file = {f}
               /\ Markers(f) \cap Marked \subseteq import[q].existing

ImportInvariant ==
    /\ import = [q \in Importers |-> import[q]]
    /\ \A s \in scans : ScanShape(s)
    /\ ImportedOnce /\ OneReader /\ SeesMarkers

(***************************************************************************)
(* A step of another handler or of an export keeps the invariant when      *)
(* every marker that it leaves was there before, on one scan.              *)
(***************************************************************************)
LEMMA OthersKeep ==
    ASSUME ImportInvariant, UNCHANGED import,
           \A s \in scans' : ScanShape(s),
           \A s \in scans' : s.marker = NotImported \/ s \in scans
    PROVE  ImportInvariant'
<1>1. ImportedOnce'
  BY DEF ImportInvariant, ImportedOnce
<1>2. Marked' \subseteq Marked
  BY DEF Marked
<1>3. OneReader' /\ SeesMarkers'
  BY <1>2 DEF ImportInvariant, OneReader, SeesMarkers
<1>4. QED
  BY <1>1, <1>3 DEF ImportInvariant

LEMMA FewerScansKeep ==
    ASSUME ImportInvariant, UNCHANGED import, scans' \subseteq scans
    PROVE  ImportInvariant'
  BY OthersKeep DEF ImportInvariant

LEMMA AdmitKeeps ==
    ASSUME ImportInvariant, NEW i \in ImageIds, AdmitScan(i)
    PROVE  ImportInvariant'
<1> DEFINE new == [id |-> NextId({s.id : s \in scans}), image |-> i,
                   status |-> "active", content |-> 0, found |-> 0,
                   marker |-> NotImported]
<1>1. scans' = scans \cup {new} /\ UNCHANGED import
  BY DEF AdmitScan, Change
<1>2. ScanShape(new) /\ new.marker = NotImported
  BY DEF ScanShape
<1> HIDE DEF new
<1>3. \A s \in scans' : ScanShape(s)
  BY <1>1, <1>2 DEF ImportInvariant
<1>4. \A s \in scans' : s.marker = NotImported \/ s \in scans
  BY <1>1, <1>2
<1>5. QED
  BY <1>1, <1>3, <1>4, OthersKeep

LEMMA CompleteKeeps ==
    ASSUME ImportInvariant, NEW s \in scans, CompleteScan(s)
    PROVE  ImportInvariant'
<1> DEFINE new == [id |-> s.id, image |-> s.image, status |-> "completed",
                   content |-> contents', found |-> contents',
                   marker |-> s.marker]
<1>1. scans' = (scans \ {s}) \cup {new} /\ UNCHANGED import
  BY DEF CompleteScan, Change
<1>2. ScanShape(new) /\ new.marker = s.marker
  BY DEF ScanShape
<1> HIDE DEF new
<1>3. \A t \in scans' : ScanShape(t)
  BY <1>1, <1>2 DEF ImportInvariant
<1>4. ImportedOnce'
  BY <1>1, <1>2 DEF ImportInvariant, ImportedOnce
<1>5. Marked' = Marked
  BY <1>1, <1>2 DEF Marked
<1>6. OneReader' /\ SeesMarkers'
  BY <1>1, <1>5 DEF ImportInvariant, OneReader, SeesMarkers
<1>7. QED
  BY <1>1, <1>3, <1>4, <1>6 DEF ImportInvariant

(***************************************************************************)
(* Import.                                                                 *)
(***************************************************************************)
LEMMA ReadsKeep ==
    ASSUME ImportInvariant, NEW q \in Importers, NEW f \in files,
           ImportReads(q, f)
    PROVE  ImportInvariant'
<1> DEFINE r == [reading |-> TRUE, file |-> {f},
                 existing |-> Markers(f) \cap {s.marker : s \in scans}]
<1>1. /\ import' = [import EXCEPT ![q] = r] /\ UNCHANGED scans
      /\ \A p \in Importers : ~import[p].reading
  BY DEF ImportReads, LoopFree, library
<1>2. /\ import'[q] = r
      /\ \A p \in Importers \ {q} : import'[p] = import[p]
      /\ import' = [p \in Importers |-> import'[p]]
  BY <1>1 DEF ImportInvariant
<1>3. r.reading /\ r.file = {f} /\ Markers(f) \cap Marked \subseteq r.existing
  BY DEF Marked
<1> HIDE DEF r
<1>4. Marked' = Marked /\ ImportedOnce'
  BY <1>1 DEF Marked, ImportInvariant, ImportedOnce
<1>5. OneReader' /\ SeesMarkers'
  BY <1>1, <1>2, <1>3, <1>4 DEF OneReader, SeesMarkers
<1>6. QED
  BY <1>1, <1>2, <1>4, <1>5 DEF ImportInvariant

LEMMA NobodyReads ==
    ASSUME ImportInvariant, NEW q \in Importers, import[q].reading,
           import' = [import EXCEPT ![q] = NoImport]
    PROVE  /\ import' = [p \in Importers |-> import'[p]]
           /\ \A p \in Importers : ~import'[p].reading
<1>1. ~NoImport.reading
  BY DEF NoImport
<1>2. /\ import'[q] = NoImport
      /\ \A p \in Importers \ {q} : import'[p] = import[p]
      /\ import' = [p \in Importers |-> import'[p]]
  BY DEF ImportInvariant
<1>3. QED
  BY <1>1, <1>2 DEF ImportInvariant, OneReader

LEMMA ScanOfMarker ==
    ASSUME NEW m, NEW i, NEW image
    PROVE  ScanShape(ScanOf(m, i, image)) /\ ScanOf(m, i, image).marker = m
  BY DEF ScanShape, ScanOf

LEMMA CommitsKeep ==
    ASSUME ImportInvariant, NEW q \in Importers, ImportCommits(q)
    PROVE  ImportInvariant'
<1>1. import[q].reading /\ import' = [import EXCEPT ![q] = NoImport]
  BY DEF ImportCommits
<1> DEFINE new == NewMarkers(q)
<1>2. new \cap Marked = {}
  BY <1>1 DEF ImportInvariant, SeesMarkers, NewMarkers
<1>3. PICK id, home : scans' = scans \cup
                        {ScanOf(m, id[m], home[m]) : m \in new}
  <2> DEFINE g == Numbered(new, {s.id : s \in scans})
             h == [n \in new |-> HomeOf(n.key, new)]
  <2>1. \A m \in new : h[m] = HomeOf(m.key, new)
    OBVIOUS
  <2>2. scans' = scans \cup {ScanOf(m, g[m], HomeOf(m.key, new)) : m \in new}
    BY DEF ImportCommits
  <2> HIDE DEF g, h, new
  <2>3. scans' = scans \cup {ScanOf(m, g[m], h[m]) : m \in new}
    BY <2>1, <2>2
  <2>4. QED
    BY <2>3
<1> HIDE DEF new
<1>4. ASSUME NEW s \in scans', s \notin scans
      PROVE  ScanShape(s) /\ s.marker \in new
  <2>1. PICK m \in new : s = ScanOf(m, id[m], home[m])
    BY <1>3, <1>4
  <2>2. QED
    BY <2>1, ScanOfMarker
<1>5. ASSUME NEW s \in scans', s \notin scans,
             NEW t \in scans', t \notin scans, s.marker = t.marker
      PROVE  s = t
  BY <1>3, <1>5, ScanOfMarker
<1>6. ASSUME NEW s \in scans, NEW t \in scans', t \notin scans,
             s.marker # NotImported
      PROVE  s.marker # t.marker
  <2>1. s.marker \in Marked
    BY <1>6 DEF Marked
  <2>2. t.marker \in new
    BY <1>4, <1>6
  <2>3. QED
    BY <1>2, <2>1, <2>2
<1>7. ImportedOnce'
  <2>1. SUFFICES ASSUME NEW s \in scans', NEW t \in scans',
                        s.marker # NotImported, s.marker = t.marker
                 PROVE  s = t
    BY DEF ImportedOnce
  <2>2. CASE s \in scans /\ t \in scans
    BY <2>1, <2>2 DEF ImportInvariant, ImportedOnce
  <2>3. CASE s \notin scans /\ t \notin scans
    BY <1>5, <2>1, <2>3
  <2>4. QED
    BY <1>6, <2>1, <2>2, <2>3
<1>8. \A s \in scans' : ScanShape(s)
  BY <1>4 DEF ImportInvariant
<1>9. OneReader' /\ SeesMarkers' /\ import' = [p \in Importers |-> import'[p]]
  BY <1>1, NobodyReads DEF OneReader, SeesMarkers
<1>10. QED
  BY <1>7, <1>8, <1>9 DEF ImportInvariant

LEMMA FailsKeep ==
    ASSUME ImportInvariant, NEW q \in Importers, ImportFails(q)
    PROVE  ImportInvariant'
<1>1. /\ import[q].reading /\ import' = [import EXCEPT ![q] = NoImport]
      /\ UNCHANGED scans
  BY DEF ImportFails, library
<1>2. OneReader' /\ SeesMarkers' /\ import' = [p \in Importers |-> import'[p]]
  BY <1>1, NobodyReads DEF OneReader, SeesMarkers
<1>3. QED
  BY <1>1, <1>2 DEF ImportInvariant, ImportedOnce

(***************************************************************************)
(* The invariant holds.                                                    *)
(***************************************************************************)
LEMMA InitHolds == Init => ImportInvariant
<1>1. SUFFICES ASSUME Init
               PROVE  ImportInvariant
  OBVIOUS
<1>0. PICK scanned \in SUBSET Archives :
         \E imported \in {{}} \cup {{k} : k \in scanned} :
            scans = {OldScan(i, i, NotImported) : i \in scanned}
                       \cup {OldScan(FirstReport, k, OldMarker(k)) :
                                k \in imported}
  BY <1>1 DEF Init
<1>2. PICK imported \in {{}} \cup {{k} : k \in scanned} :
         scans = {OldScan(i, i, NotImported) : i \in scanned}
                    \cup {OldScan(FirstReport, k, OldMarker(k)) :
                             k \in imported}
  BY <1>0
<1>3. /\ import = [q \in Importers |-> NoImport]
      /\ import = [q \in Importers |-> import[q]]
      /\ \A q \in Importers : ~import[q].reading
  BY <1>1 DEF Init, NoImport
<1>4. \A s \in scans : ScanShape(s)
  BY <1>2 DEF OldScan, ScanShape
<1>5. \A s \in scans : s.marker # NotImported =>
          \E k \in imported : s = OldScan(FirstReport, k, OldMarker(k))
  BY <1>2 DEF OldScan
<1>6. \A j, k \in imported : j = k
  OBVIOUS
<1>7. ImportedOnce
  BY <1>5, <1>6 DEF ImportedOnce
<1>8. OneReader /\ SeesMarkers
  BY <1>3 DEF OneReader, SeesMarkers
<1>9. QED
  BY <1>3, <1>4, <1>7, <1>8 DEF ImportInvariant

LEMMA NextKeeps == ImportInvariant /\ [Next]_vars => ImportInvariant'
<1>1. SUFFICES ASSUME ImportInvariant, [Next]_vars
               PROVE  ImportInvariant'
  OBVIOUS
<1>2. CASE UNCHANGED vars
  BY <1>1, <1>2, FewerScansKeep DEF vars
<1>3. ASSUME NEW i \in ImageIds, AdmitScan(i) \/ RemoveImage(i) \/ RestoreImage(i)
      PROVE  ImportInvariant'
  <2>1. CASE AdmitScan(i)
    BY <1>1, <2>1, AdmitKeeps
  <2>2. CASE RemoveImage(i) \/ RestoreImage(i)
    <3>1. scans' \subseteq scans /\ UNCHANGED import
      BY <2>2 DEF RemoveImage, RestoreImage, Change
    <3>2. QED
      BY <1>1, <3>1, FewerScansKeep
  <2>3. QED
    BY <1>3, <2>1, <2>2
<1>4. ASSUME NEW s \in scans, CompleteScan(s) \/ RemoveScan(s)
      PROVE  ImportInvariant'
  <2>1. CASE CompleteScan(s)
    BY <1>1, <2>1, CompleteKeeps
  <2>2. CASE RemoveScan(s)
    BY <1>1, <2>2, FewerScansKeep DEF RemoveScan, Change
  <2>3. QED
    BY <1>4, <2>1, <2>2
<1>5. ASSUME NEW g \in Groups,
             \/ CreateGroup(g) \/ DeleteGroup(g)
             \/ \E chosen \in SUBSET ImageIds :
                   ReplaceMembers(g, chosen) \/ AddMembers(g, chosen)
      PROVE  ImportInvariant'
  <2>1. UNCHANGED <<scans, import>>
    BY <1>5 DEF CreateGroup, DeleteGroup, ReplaceMembers, AddMembers, Change
  <2>2. QED
    BY <1>1, <2>1, FewerScansKeep
<1>6. ASSUME NEW t \in Exporters,
             \/ \E gs \in SUBSET Groups : SelectGroups(t, gs)
             \/ \E ids \in SUBSET {s.id : s \in scans} : SelectScans(t, ids)
             \/ CountMembers(t) \/ SelectLatest(t) \/ ListUnscanned(t)
             \/ ReadScans(t) \/ ReadFindings(t)
      PROVE  ImportInvariant'
  <2>1. UNCHANGED <<scans, import>>
    BY <1>6 DEF SelectGroups, SelectScans, CountMembers, SelectLatest,
                ListUnscanned, ReadScans, ReadFindings, Step, library
  <2>2. QED
    BY <1>1, <2>1, FewerScansKeep
<1>7. ASSUME NEW q \in Importers,
             \/ \E f \in files : ImportReads(q, f)
             \/ ImportCommits(q) \/ ImportFails(q)
      PROVE  ImportInvariant'
  BY <1>1, <1>7, ReadsKeep, CommitsKeep, FailsKeep
<1>8. QED
  BY <1>1, <1>2, <1>3, <1>4, <1>5, <1>6, <1>7 DEF Next

\* The inductive invariant of imports.
THEOREM ImportsInductive == Spec => []ImportInvariant
<1>1. QED
  BY InitHolds, NextKeeps, PTL DEF Spec

\* No two scans were imported from the same report of the same file.
THEOREM ImportsAreDeduplicated == Spec => []ImportedOnce
<1>1. ImportInvariant => ImportedOnce
  BY DEF ImportInvariant
<1>2. QED
  BY <1>1, ImportsInductive, PTL

(***************************************************************************)
(* Facts about the ids of new rows.                                        *)
(***************************************************************************)
LEMMA GreatestOf ==
    ASSUME NEW S \in SUBSET Nat, IsFiniteSet(S), S # {}
    PROVE  Max(S) \in S /\ \A y \in S : y <= Max(S)
<1> DEFINE Above(x) == {y \in S : y > x}
           T == {Cardinality(Above(x)) : x \in S}
<1>1. \A x \in S : IsFiniteSet(Above(x)) /\ Cardinality(Above(x)) \in Nat
  <2>1. TAKE x \in S
  <2>2. Above(x) \in SUBSET S
    OBVIOUS
  <2> HIDE DEF Above
  <2>3. QED
    BY <2>2, FS_Subset, FS_CardinalityType
<1>2. T \in SUBSET Nat /\ T # {}
  BY <1>1
<1>3. PICK k \in T : \A y \in T : ~(<<y, k>> \in OpToRel(<, Nat))
  <2> HIDE DEF T
  <2>1. QED
    BY <1>2, NatLessThanWellFounded, WFMin
<1>4. \A y \in T : ~(y < k)
  BY <1>2, <1>3 DEF OpToRel
<1>5. PICK x \in S : k = Cardinality(Above(x))
  OBVIOUS
<1>6. \A y \in S : x >= y
  <2>1. SUFFICES ASSUME NEW y \in S, y > x
                 PROVE  FALSE
    OBVIOUS
  <2>2. /\ \A z \in Above(y) : z \in Above(x)
        /\ y \in Above(x) /\ y \notin Above(y)
    BY <2>1, x \in Nat, y \in Nat, \A z \in S : z \in Nat
  <2>3. Cardinality(Above(y)) \in T
    OBVIOUS
  <2> HIDE DEF Above, T
  <2>4. /\ Cardinality(Above(y)) <= Cardinality(Above(x))
        /\ Cardinality(Above(y)) # Cardinality(Above(x))
    BY <1>1, <2>2, FS_Subset
  <2>5. QED
    BY <1>1, <1>4, <1>5, <2>3, <2>4
<1> HIDE DEF Above, T
<1>7. QED
  BY <1>6 DEF Max

LEMMA NextIdIsNew ==
    ASSUME NEW S \in SUBSET Nat, IsFiniteSet(S)
    PROVE  /\ NextId(S) \in Nat \ {0}
           /\ \A y \in S : y < NextId(S)
           /\ NextId(S) = 1 \/ NextId(S) - 1 \in S
<1>1. IsFiniteSet(S \cup {0}) /\ S \cup {0} \in SUBSET Nat
  BY FS_AddElement
<1>2. /\ Max(S \cup {0}) \in S \cup {0}
      /\ \A y \in S \cup {0} : y <= Max(S \cup {0})
  BY <1>1, GreatestOf
<1> DEFINE m == Max(S \cup {0})
<1>3. NextId(S) = 1 + m
  BY DEF NextId
<1>4. m \in S \cup {0} /\ \A y \in S \cup {0} : y <= m
  BY <1>2
<1> HIDE DEF m
<1>5. m \in Nat
  BY <1>4
<1>6. \A y \in S : y < NextId(S)
  BY <1>3, <1>4, <1>5
<1>7. QED
  BY <1>3, <1>4, <1>5, <1>6

\* Numbered gives every element an id of its own, above the ids in use.
LEMMA NumberedIs ==
    ASSUME NEW S, IsFiniteSet(S), NEW U \in SUBSET Nat, IsFiniteSet(U)
    PROVE  /\ Cardinality(S) \in Nat
           /\ Numbered(S, U) \in
                 [S -> NextId(U)..(NextId(U) + Cardinality(S) - 1)]
           /\ \A x, y \in S : Numbered(S, U)[x] = Numbered(S, U)[y] => x = y
<1> DEFINE c == Cardinality(S)
           n == NextId(U)
<1>1. c \in Nat /\ ExistsBijection(1..c, S)
  BY FS_CardinalityType
<1>2. n \in Nat
  BY NextIdIsNew
<1>3. PICK b \in [1..c -> S] : \A x \in S : \E k \in 1..c : b[k] = x
  BY <1>1 DEF ExistsBijection, Bijection, Surjection
<1> HIDE DEF c, n
<1> DEFINE At(x) == CHOOSE k \in 1..c : b[k] = x
           f == [x \in S |-> n + At(x) - 1]
<1>4. \A x \in S : At(x) \in 1..c /\ b[At(x)] = x
  BY <1>3
<1>5. \A x \in S : n + At(x) - 1 \in n..(n + c - 1)
  <2>1. SUFFICES ASSUME NEW x \in S
                 PROVE  n + At(x) - 1 \in n..(n + c - 1)
    OBVIOUS
  <2>2. At(x) \in 1..c
    BY <1>4
  <2> HIDE DEF At
  <2>3. QED
    BY <1>1, <1>2, <2>2
<1>6. f \in [S -> n..(n + c - 1)]
  BY <1>5
<1>7. ASSUME NEW x \in S, NEW y \in S, f[x] = f[y]
      PROVE  x = y
  <2>1. n + At(x) - 1 = n + At(y) - 1
    BY <1>7
  <2>2. At(x) \in 1..c /\ At(y) \in 1..c /\ b[At(x)] = x /\ b[At(y)] = y
    BY <1>4
  <2> HIDE DEF At
  <2>3. At(x) = At(y)
    BY <1>1, <1>2, <2>1, <2>2
  <2>4. QED
    BY <2>2, <2>3
<1> HIDE DEF f
<1>8. /\ Numbered(S, U) \in [S -> n..(n + c - 1)]
      /\ \A x, y \in S : Numbered(S, U)[x] = Numbered(S, U)[y] => x = y
  BY <1>6, <1>7 DEF Numbered, n, c
<1>9. QED
  BY <1>1, <1>8 DEF n, c

LEMMA FiniteImage ==
    ASSUME NEW S, NEW f, IsFiniteSet(S)
    PROVE  IsFiniteSet({f[x] : x \in S})
<1> DEFINE T == {f[x] : x \in S}
           g == [x \in S |-> f[x]]
<1>1. g \in Surjection(S, T)
  BY DEF Surjection
<1> HIDE DEF g, T
<1>2. IsFiniteSet(T)
  BY <1>1, FS_Surjection
<1>3. QED
  BY <1>2 DEF T

\* A function that has no value twice has as many values as arguments.
LEMMA InjectiveImage ==
    ASSUME NEW S, NEW f, IsFiniteSet(S),
           \A x, y \in S : f[x] = f[y] => x = y
    PROVE  Cardinality({f[x] : x \in S}) = Cardinality(S)
<1> DEFINE T == {f[x] : x \in S}
           g == [x \in S |-> f[x]]
<1>1. g \in Surjection(S, T)
  BY DEF Surjection
<1>2. g \in Injection(S, T)
  BY DEF Injection, IsInjective
<1> HIDE DEF g, T
<1>3. Cardinality(T) = Cardinality(S)
  BY <1>1, <1>2, FS_Surjection
<1>4. QED
  BY <1>3 DEF T

(***************************************************************************)
(* Types.  The ids of images stay within ImageIds: every image above the   *)
(* archives is one of the report images, of which each key has one, or     *)
(* made room for one that a change removed.  The contents that an import   *)
(* writes are those of a file, and the stamps of files are bounded by the  *)
(* exports that have begun.                                                *)
(***************************************************************************)
Greatest == Max(Archives \cup {0})
Busy == {t \in Exporters : export[t].stage # "idle"}

CountersTyped == /\ contents \in 0..MaxContents /\ exports \in 0..MaxExports
                 /\ changes \in 0..MaxChanges

ImagesTyped ==
    /\ images \in [ImageIds -> Image]
    /\ \A i \in ImageIds : Exists(i) => images[i].key \in Archives

KeysDistinct ==
    \A i, j \in ReportImages : images[i].key = images[j].key => i = j

IdsFit ==
    \A i \in ImageIds : Exists(i) =>
        i <= Greatest + Cardinality(ReportImages) + changes

ScansTyped == /\ scans \subseteq Scan /\ IsFiniteSet(scans)
              /\ \A s, t \in scans : s.id = t.id => s = t
              /\ \A s \in scans : Exists(s.image)

MembersTyped == /\ groups \subseteq Groups
                /\ members \subseteq groups \X ImageIds
                /\ \A m \in members : Exists(m[2])

ExportsTyped ==
    /\ export \in [Exporters -> Export]
    /\ \A t \in Exporters : /\ IsFiniteSet(export[t].rows)
                            /\ IsFiniteSet(export[t].picked)

Report == [scan: Nat, image: ImageIds, key: Archives, done: BOOLEAN,
           content: Contents, found: Contents]

FilesTyped == /\ IsFiniteSet(files)
              /\ \A f \in files : /\ f.reports \subseteq Report
                                  /\ IsFiniteSet(f.reports)
                                  /\ f.stamp \in Stamps

FilesCounted == /\ IsFiniteSet(Busy)
                /\ Cardinality(files) + Cardinality(Busy) <= exports

ImportsTyped ==
    /\ import = [q \in Importers |-> import[q]]
    /\ \A q \in Importers : import[q].reading =>
           \E f \in files : import[q].file = {f} /\ SelectionAccepted(f)

ImagesFit == ImagesTyped /\ KeysDistinct /\ IdsFit
ExportsFit == ExportsTyped /\ FilesTyped /\ FilesCounted

TypesInvariant == /\ CountersTyped /\ ImagesFit /\ ScansTyped /\ MembersTyped
                  /\ ExportsFit /\ ImportsTyped

\* The numbers that bound the ids.
LEMMA Bounds ==
    /\ Greatest \in Nat /\ \A i \in Archives : i \in 1..Greatest
    /\ Greatest = 0 \/ Greatest \in Archives
    /\ Cardinality(Archives) \in Nat /\ Cardinality(Archives) <= Greatest
    /\ ImageIds = 1..(2 * Greatest + MaxChanges)
    /\ IsFiniteSet(ImageIds) /\ ImageIds \in SUBSET Nat
<1>1. Archives \in SUBSET Nat /\ \A i \in Archives : i >= 1
  BY ReportsAssumption
<1>2. Archives \cup {0} \in SUBSET Nat /\ IsFiniteSet(Archives \cup {0})
  BY <1>1, ReportsAssumption, FS_AddElement
<1>3. Greatest \in Archives \cup {0} /\ \A i \in Archives : i <= Greatest
  BY <1>2, GreatestOf DEF Greatest
<1>4. Greatest \in Nat /\ \A i \in Archives : i \in 1..Greatest
  BY <1>1, <1>3
<1>5. /\ IsFiniteSet(1..Greatest)
      /\ Cardinality(1..Greatest) = Greatest
  BY <1>4, FS_Interval
<1>6. /\ Cardinality(Archives) \in Nat
      /\ Cardinality(Archives) <= Greatest
  <2>1. Archives \subseteq 1..Greatest
    BY <1>4
  <2>2. Cardinality(Archives) <= Cardinality(1..Greatest)
    BY <1>5, <2>1, FS_Subset
  <2>3. Cardinality(Archives) \in Nat
    BY FS_CardinalityType, ReportsAssumption
  <2>4. QED
    BY <1>5, <2>2, <2>3
<1>7. ImageIds = 1..(2 * Greatest + MaxChanges)
  BY DEF ImageIds, Greatest
<1>8. IsFiniteSet(ImageIds) /\ ImageIds \in SUBSET Nat
  BY <1>4, <1>7, ReportsAssumption, FS_Interval
<1>9. QED
  BY <1>3, <1>4, <1>6, <1>7, <1>8

LEMMA ReportImagesFinite ==
    /\ IsFiniteSet(ReportImages) /\ Cardinality(ReportImages) \in Nat
    /\ IsFiniteSet({i \in ImageIds : Exists(i)})
<1>1. ReportImages \in SUBSET ImageIds
  BY DEF ReportImages
<1>2. QED
  BY <1>1, Bounds, FS_Subset, FS_CardinalityType

\* With one image for each key, there is room for an image of every key that
\* has none.
LEMMA RoomForKeys ==
    ASSUME ImagesFit, NEW K \in SUBSET Archives,
           \A i \in ReportImages : images[i].key \notin K
    PROVE  /\ IsFiniteSet(K) /\ Cardinality(K) \in Nat
           /\ Cardinality(ReportImages) + Cardinality(K) <= Greatest
<1> DEFINE k == [i \in ReportImages |-> images[i].key]
           H == {k[i] : i \in ReportImages}
<1>1. IsFiniteSet(K) /\ Cardinality(K) \in Nat
  BY FS_Subset, FS_CardinalityType, ReportsAssumption
<1>2. \A i \in ReportImages : k[i] = images[i].key
  OBVIOUS
<1>3. \A i, j \in ReportImages : k[i] = k[j] => i = j
  BY <1>2 DEF ImagesFit, KeysDistinct
<1>4. \A i \in ReportImages : k[i] \in Archives
  BY <1>2 DEF ReportImages, ImagesFit, ImagesTyped
<1>5. H \cap K = {} /\ H \cup K \in SUBSET Archives
  BY <1>2, <1>4
<1> HIDE DEF k
<1>6. IsFiniteSet(H) /\ Cardinality(H) = Cardinality(ReportImages)
  BY <1>3, FiniteImage, InjectiveImage, ReportImagesFinite
<1> HIDE DEF H
<1>7. Cardinality(H \cup K) = Cardinality(H) + Cardinality(K) - 0
  BY <1>1, <1>5, <1>6, FS_Union, FS_EmptySet
<1>8. Cardinality(H \cup K) <= Cardinality(Archives)
  BY <1>5, FS_Subset, ReportsAssumption
<1>9. QED
  BY <1>1, <1>6, <1>7, <1>8, Bounds, ReportImagesFinite

(***************************************************************************)
(* What an import commits.                                                 *)
(***************************************************************************)
LEMMA NewMarkersTyped ==
    ASSUME FilesTyped, ImportsTyped, NEW q \in Importers, import[q].reading
    PROVE  NewMarkers(q) \in SUBSET Fingerprint /\ IsFiniteSet(NewMarkers(q))
<1>1. PICK f \in files : import[q].file = {f}
  BY DEF ImportsTyped
<1>2. NewMarkers(q) \in SUBSET Markers(f)
  BY <1>1 DEF NewMarkers
<1>3. f.reports \subseteq Report /\ IsFiniteSet(f.reports) /\ f.stamp \in Stamps
  BY DEF FilesTyped
<1>4. \A r \in f.reports : MarkerOf(r, f) \in Fingerprint
  BY <1>3 DEF Report, MarkerOf, Fingerprint
<1>5. IsFiniteSet(Markers(f))
  <2> DEFINE g == [r \in f.reports |-> MarkerOf(r, f)]
  <2>1. Markers(f) = {g[r] : r \in f.reports}
    BY DEF Markers
  <2> HIDE DEF g
  <2>2. QED
    BY <1>3, <2>1, FiniteImage
<1>6. Markers(f) \subseteq Fingerprint
  BY <1>4 DEF Markers
<1>7. QED
  BY <1>2, <1>5, <1>6, FS_Subset

LEMMA NewKeysTyped ==
    ASSUME FilesTyped, ImportsTyped, NEW q \in Importers, import[q].reading
    PROVE  /\ NewKeys(NewMarkers(q)) \in SUBSET Archives
           /\ \A i \in ReportImages : images[i].key \notin NewKeys(NewMarkers(q))
  BY NewMarkersTyped DEF NewKeys, Fingerprint

\* The places of new images are free, and within the bounds.
LEMMA PlacesAreFree ==
    ASSUME ImagesFit, FilesTyped, ImportsTyped, CountersTyped,
           NEW q \in Importers, import[q].reading,
           NEW K, K = NewKeys(NewMarkers(q)),
           NEW place, place = PlaceOf(NewMarkers(q))
    PROVE  /\ IsFiniteSet(K) /\ Cardinality(K) \in Nat /\ K \in SUBSET Archives
           /\ place = [k \in K |-> place[k]]
           /\ \A k \in K : /\ place[k] \in ImageIds /\ ~Exists(place[k])
                           /\ place[k] <= Greatest + Cardinality(ReportImages)
                                             + Cardinality(K) + changes
           /\ \A k, l \in K : place[k] = place[l] => k = l
<1> DEFINE U == {i \in ImageIds : Exists(i)}
           n == NextId(U)
           c == Cardinality(K)
           r == Cardinality(ReportImages)
<1>1. K \in SUBSET Archives /\ \A i \in ReportImages : images[i].key \notin K
  BY NewKeysTyped
<1>2. IsFiniteSet(K) /\ c \in Nat /\ r + c <= Greatest
  BY <1>1, RoomForKeys
<1>3. r \in Nat /\ IsFiniteSet(U) /\ U \in SUBSET Nat
  BY ReportImagesFinite, Bounds
<1>4. place = Numbered(K, U)
  BY DEF PlaceOf
<1> HIDE DEF U, n, c, r
<1>5. /\ place \in [K -> n..(n + c - 1)]
      /\ \A k, l \in K : place[k] = place[l] => k = l
  BY <1>2, <1>3, <1>4, NumberedIs DEF n, c
<1>6. /\ n \in Nat \ {0} /\ \A i \in U : i < n
      /\ n = 1 \/ n - 1 \in U
  BY <1>3, NextIdIsNew DEF n
<1>7. changes \in Nat /\ changes <= MaxChanges /\ MaxChanges \in Nat
  BY ReportsAssumption DEF CountersTyped
<1>8. n - 1 <= Greatest + r + changes
  <2>1. CASE n = 1
    BY <1>3, <1>7, <2>1, Bounds
  <2>2. CASE n - 1 \in U
    BY <2>2 DEF U, ImagesFit, IdsFit, r
  <2>3. QED
    BY <1>6, <2>1, <2>2
<1>9. ASSUME NEW k \in K
      PROVE  /\ place[k] \in ImageIds /\ ~Exists(place[k])
             /\ place[k] <= Greatest + r + c + changes
  <2>1. place[k] \in n..(n + c - 1)
    BY <1>5
  <2>2. place[k] \in Nat \ {0} /\ place[k] <= Greatest + r + c + changes
    BY <1>2, <1>3, <1>6, <1>7, <1>8, <2>1, Bounds
  <2>3. place[k] \in 1..(2 * Greatest + MaxChanges)
    BY <1>2, <1>3, <1>7, <2>2, Bounds
  <2>4. place[k] \notin U
    BY <1>2, <1>6, <2>1
  <2>5. QED
    BY <2>2, <2>3, <2>4, Bounds DEF U
<1>10. QED
  BY <1>1, <1>2, <1>5, <1>9 DEF c, r

\* An import inserts report images and changes no other one.
LEMMA CommitInserts ==
    ASSUME ImagesFit, FilesTyped, ImportsTyped, CountersTyped,
           NEW q \in Importers, ImportCommits(q),
           NEW K, K = NewKeys(NewMarkers(q)),
           NEW place, place = PlaceOf(NewMarkers(q))
    PROVE  /\ images' = [i \in ImageIds |-> images'[i]]
           /\ \A k \in K : images'[place[k]] = ReportImage(k)
           /\ \A i \in ImageIds :
                 (\A k \in K : place[k] # i) => images'[i] = images[i]
<1>1. import[q].reading
  BY DEF ImportCommits
<1>2. images' = [i \in ImageIds |->
                   IF \E k \in K : place[k] = i
                   THEN ReportImage(CHOOSE k \in K : place[k] = i)
                   ELSE images[i]]
  BY DEF ImportCommits
<1>3. /\ \A k \in K : place[k] \in ImageIds
      /\ \A k, l \in K : place[k] = place[l] => k = l
  BY <1>1, PlacesAreFree
<1>4. ASSUME NEW k \in K
      PROVE  images'[place[k]] = ReportImage(k)
  <2>1. (CHOOSE l \in K : place[l] = place[k]) = k
    BY <1>3
  <2>2. QED
    BY <1>2, <1>3, <2>1
<1>5. QED
  BY <1>2, <1>4

LEMMA CommitKeepsImages ==
    ASSUME ImagesFit, FilesTyped, ImportsTyped, CountersTyped,
           NEW q \in Importers, ImportCommits(q)
    PROVE  /\ ImagesFit'
           /\ \A i \in ImageIds : Exists(i) => images'[i] = images[i]
<1> DEFINE K == NewKeys(NewMarkers(q))
           place == PlaceOf(NewMarkers(q))
           N == {place[k] : k \in K}
<1>1. import[q].reading /\ changes' = changes
  BY DEF ImportCommits
<1>2. /\ IsFiniteSet(K) /\ Cardinality(K) \in Nat /\ K \in SUBSET Archives
      /\ \A k \in K : /\ place[k] \in ImageIds /\ ~Exists(place[k])
                      /\ place[k] <= Greatest + Cardinality(ReportImages)
                                        + Cardinality(K) + changes
      /\ \A k, l \in K : place[k] = place[l] => k = l
  BY <1>1, PlacesAreFree
<1>3. /\ images' = [i \in ImageIds |-> images'[i]]
      /\ \A k \in K : images'[place[k]] = ReportImage(k)
      /\ \A i \in ImageIds :
            (\A k \in K : place[k] # i) => images'[i] = images[i]
  BY CommitInserts
<1>4. \A i \in ReportImages : images[i].key \notin K
  BY <1>1, NewKeysTyped
<1> HIDE DEF K, place
<1>5. \A i \in ImageIds : Exists(i) => images'[i] = images[i]
  BY <1>2, <1>3
<1>6. \A k \in K : ReportImage(k) \in Image /\ ReportImage(k).key = k
                   /\ ReportImage(k).exists /\ ReportImage(k).report
  BY <1>2 DEF ReportImage, Image
<1>7. ImagesTyped'
  <2>1. ASSUME NEW i \in ImageIds
        PROVE  images'[i] \in Image /\ (images'[i].exists =>
                                           images'[i].key \in Archives)
    <3>1. CASE \E k \in K : place[k] = i
      BY <1>2, <1>3, <1>6, <3>1
    <3>2. CASE \A k \in K : place[k] # i
      BY <1>3, <3>2 DEF ImagesFit, ImagesTyped, Exists
    <3>3. QED
      BY <3>1, <3>2
  <2>2. QED
    BY <1>3, <2>1 DEF ImagesTyped, Exists
<1>8. ReportImages' = ReportImages \cup N
  <2>1. ASSUME NEW i \in ImageIds
        PROVE  i \in ReportImages' <=> i \in ReportImages \cup N
    <3>1. CASE \E k \in K : place[k] = i
      BY <1>3, <1>6, <3>1 DEF ReportImages, Exists
    <3>2. CASE \A k \in K : place[k] # i
      <4>1. images'[i] = images[i] /\ i \notin N
        BY <1>3, <3>2
      <4>2. QED
        BY <4>1 DEF ReportImages, Exists
    <3>3. QED
      BY <3>1, <3>2
  <2>2. N \subseteq ImageIds
    BY <1>2
  <2>3. QED
    BY <2>1, <2>2 DEF ReportImages
<1>9. Cardinality(ReportImages') = Cardinality(ReportImages) + Cardinality(K)
  <2>1. IsFiniteSet(N) /\ Cardinality(N) = Cardinality(K)
    BY <1>2, FiniteImage, InjectiveImage
  <2>2. ReportImages \cap N = {}
    BY <1>2 DEF ReportImages
  <2> HIDE DEF N
  <2>3. Cardinality(ReportImages \cup N) =
           Cardinality(ReportImages) + Cardinality(N) - 0
    BY <2>1, <2>2, ReportImagesFinite, FS_Union, FS_EmptySet
  <2>4. QED
    BY <1>2, <1>8, <2>1, <2>3, ReportImagesFinite
<1>10. KeysDistinct'
  <2>1. ASSUME NEW i \in ReportImages'
        PROVE  \/ /\ i \in ReportImages /\ images'[i] = images[i]
                  /\ images'[i].key \notin K
               \/ \E k \in K : i = place[k] /\ images'[i].key = k
    BY <1>3, <1>4, <1>5, <1>6, <1>8, <2>1 DEF ReportImages
  <2>2. SUFFICES ASSUME NEW i \in ReportImages', NEW j \in ReportImages',
                        images'[i].key = images'[j].key
                 PROVE  i = j
    BY DEF KeysDistinct
  <2>3. CASE i \in ReportImages /\ images'[i] = images[i]
    BY <1>4, <2>1, <2>2, <2>3 DEF ImagesFit, KeysDistinct
  <2>4. CASE \E k \in K : i = place[k] /\ images'[i].key = k
    BY <1>4, <2>1, <2>2, <2>4
  <2>5. QED
    BY <2>1, <2>3, <2>4
<1>11. IdsFit'
  <2>1. SUFFICES ASSUME NEW i \in ImageIds, Exists(i)'
                 PROVE  i <= Greatest + Cardinality(ReportImages')
                               + changes'
    BY Bounds DEF IdsFit
  <2>2. changes \in Nat /\ i \in Nat
    BY Bounds, ReportsAssumption DEF CountersTyped
  <2>3. CASE Exists(i)
    <3>1. i <= Greatest + Cardinality(ReportImages) + changes
      BY <2>3 DEF ImagesFit, IdsFit
    <3>2. QED
      BY <1>1, <1>2, <1>9, <2>2, <3>1, Bounds, ReportImagesFinite
  <2>4. CASE ~Exists(i)
    <3>1. PICK k \in K : place[k] = i
      BY <1>3, <2>1, <2>4 DEF Exists
    <3>2. QED
      BY <1>1, <1>2, <1>9, <2>2, <3>1, Bounds, ReportImagesFinite
  <2>5. QED
    BY <2>3, <2>4
<1>12. QED
  BY <1>5, <1>7, <1>10, <1>11 DEF ImagesFit

(***************************************************************************)
(* Which steps change what.                                                *)
(***************************************************************************)
LEMMA ImageSteps ==
    ASSUME [Next]_vars
    PROVE  \/ UNCHANGED <<images, changes>>
           \/ changes < MaxChanges /\ changes' = changes + 1 /\ UNCHANGED images
           \/ \E i \in ImageIds : RemoveImage(i) \/ RestoreImage(i)
           \/ \E q \in Importers : ImportCommits(q)
  BY DEF Next, vars, library, Change, Step, AdmitScan, CompleteScan,
         RemoveScan, CreateGroup, DeleteGroup, ReplaceMembers, AddMembers,
         SelectGroups, SelectScans, CountMembers, SelectLatest, ListUnscanned,
         ReadScans, ReadFindings, ImportReads, ImportFails

LEMMA ScanSteps ==
    ASSUME [Next]_vars
    PROVE  \/ UNCHANGED scans
           \/ \E i \in ImageIds : AdmitScan(i) \/ RemoveImage(i)
           \/ \E s \in scans : CompleteScan(s) \/ RemoveScan(s)
           \/ \E q \in Importers : ImportCommits(q)
  BY DEF Next, vars, library, Step, RestoreImage, CreateGroup, DeleteGroup,
         ReplaceMembers, AddMembers, SelectGroups, SelectScans, CountMembers,
         SelectLatest, ListUnscanned, ReadScans, ReadFindings, ImportReads,
         ImportFails

LEMMA MemberSteps ==
    ASSUME [Next]_vars
    PROVE  \/ UNCHANGED <<groups, members>>
           \/ \E i \in ImageIds : RemoveImage(i)
           \/ \E g \in Groups :
                 \/ CreateGroup(g) \/ DeleteGroup(g)
                 \/ \E chosen \in SUBSET ImageIds :
                       ReplaceMembers(g, chosen) \/ AddMembers(g, chosen)
  BY DEF Next, vars, library, Step, AdmitScan, CompleteScan, RemoveScan,
         RestoreImage, SelectGroups, SelectScans, CountMembers, SelectLatest,
         ListUnscanned, ReadScans, ReadFindings, ImportReads, ImportCommits,
         ImportFails

ExportStep(t) ==
    \/ \E gs \in SUBSET Groups : SelectGroups(t, gs)
    \/ \E ids \in SUBSET {s.id : s \in scans} : SelectScans(t, ids)
    \/ CountMembers(t) \/ SelectLatest(t) \/ ListUnscanned(t)
    \/ ReadScans(t) \/ ReadFindings(t)

LEMMA ExportSteps ==
    ASSUME [Next]_vars
    PROVE  \/ UNCHANGED <<export, files, exports>>
           \/ Disturb /\ UNCHANGED <<files, exports>>
           \/ \E t \in Exporters : ExportStep(t)
  BY DEF Next, vars, Change, ExportStep, AdmitScan, CompleteScan, RemoveScan,
         RemoveImage, RestoreImage, CreateGroup, DeleteGroup, ReplaceMembers,
         AddMembers, ImportReads, ImportCommits, ImportFails

LEMMA ImportSteps ==
    ASSUME [Next]_vars
    PROVE  \/ UNCHANGED import
           \/ \E q \in Importers : \/ \E f \in files : ImportReads(q, f)
                                   \/ ImportCommits(q) \/ ImportFails(q)
  BY DEF Next, vars, Change, Step, AdmitScan, CompleteScan, RemoveScan,
         RemoveImage, RestoreImage, CreateGroup, DeleteGroup, ReplaceMembers,
         AddMembers, SelectGroups, SelectScans, CountMembers, SelectLatest,
         ListUnscanned, ReadScans, ReadFindings

LEMMA FilesGrow ==
    ASSUME [Next]_vars
    PROVE  files \subseteq files'
<1>1. CASE \E t \in Exporters : ExportStep(t)
  BY <1>1 DEF ExportStep, SelectGroups, SelectScans, CountMembers,
              SelectLatest, ListUnscanned, ReadScans, ReadFindings, Begins,
              Reads
<1>2. QED
  BY <1>1, ExportSteps

(***************************************************************************)
(* Images.                                                                 *)
(***************************************************************************)
LEMMA NextCountersTyped ==
    ASSUME CountersTyped, [Next]_vars
    PROVE  CountersTyped'
<1>1. contents' \in 0..MaxContents
  <2>1. CASE \E s \in scans : CompleteScan(s)
    BY <2>1, ReportsAssumption DEF CompleteScan, CountersTyped
  <2>2. CASE UNCHANGED contents
    BY <2>2 DEF CountersTyped
  <2>3. QED
    BY <2>1, <2>2 DEF Next, vars, Step, AdmitScan, RemoveScan, RemoveImage,
           RestoreImage, CreateGroup, DeleteGroup, ReplaceMembers, AddMembers,
           SelectGroups, SelectScans, CountMembers, SelectLatest,
           ListUnscanned, ReadScans, ReadFindings, ImportReads, ImportCommits,
           ImportFails
<1>2. exports' \in 0..MaxExports
  <2>1. CASE \E t \in Exporters : ExportStep(t)
    <3>1. \/ exports' = exports
          \/ exports < MaxExports /\ exports' = exports + 1
      BY <2>1 DEF ExportStep, SelectGroups, SelectScans, CountMembers,
                  SelectLatest, ListUnscanned, ReadScans, ReadFindings,
                  Begins, Reads
    <3>2. QED
      BY <3>1, ReportsAssumption DEF CountersTyped
  <2>2. QED
    BY <2>1, ExportSteps DEF CountersTyped
<1>3. changes' \in 0..MaxChanges
  <2>1. \/ UNCHANGED changes
        \/ changes < MaxChanges /\ changes' = changes + 1
    BY ImageSteps DEF RemoveImage, RestoreImage, Change, ImportCommits
  <2>2. QED
    BY <2>1, ReportsAssumption DEF CountersTyped
<1>4. QED
  BY <1>1, <1>2, <1>3 DEF CountersTyped

\* A change of one image that makes none, and leaves its key, keeps within the
\* bounds: a report image less is a change more.
LEMMA ChangeKeepsImages ==
    ASSUME ImagesFit, CountersTyped, NEW i \in ImageIds, Exists(i),
           changes' = changes + 1, NEW row \in Image,
           images' = [images EXCEPT ![i] = row],
           row.exists => row.key = images[i].key
                         /\ row.report = images[i].report
    PROVE  ImagesFit'
<1>1. /\ images' \in [ImageIds -> Image] /\ images'[i] = row
      /\ \A j \in ImageIds \ {i} : images'[j] = images[j]
  BY DEF ImagesFit, ImagesTyped
<1>2. ImagesTyped'
  BY <1>1 DEF ImagesFit, ImagesTyped, Exists
<1>3. /\ \A j \in ReportImages' : j \in ReportImages
                                  /\ images'[j].key = images[j].key
      /\ \A j \in ReportImages \ {i} : j \in ReportImages'
  BY <1>1 DEF ReportImages, Exists
<1>4. KeysDistinct'
  BY <1>3 DEF ImagesFit, KeysDistinct
<1>5. Cardinality(ReportImages') >= Cardinality(ReportImages) - 1
      /\ Cardinality(ReportImages') \in Nat
  <2>1. ReportImages' \in SUBSET ReportImages
    BY <1>3
  <2>2. ReportImages \ {i} \in SUBSET ReportImages'
    BY <1>3
  <2>3. IsFiniteSet(ReportImages') /\ Cardinality(ReportImages') \in Nat
    BY <2>1, ReportImagesFinite, FS_Subset, FS_CardinalityType
  <2>4. /\ Cardinality(ReportImages \ {i}) >= Cardinality(ReportImages) - 1
        /\ Cardinality(ReportImages \ {i}) \in Nat
    <3>1. /\ IsFiniteSet(ReportImages \ {i})
          /\ \/ Cardinality(ReportImages \ {i}) = Cardinality(ReportImages) - 1
             \/ Cardinality(ReportImages \ {i}) = Cardinality(ReportImages)
      BY ReportImagesFinite, FS_RemoveElement
    <3>2. Cardinality(ReportImages \ {i}) \in Nat
      BY <3>1, FS_CardinalityType
    <3>3. QED
      BY <3>1, <3>2, ReportImagesFinite
  <2>5. QED
    BY <2>2, <2>3, <2>4, FS_Subset, ReportImagesFinite
<1>6. IdsFit'
  <2>1. SUFFICES ASSUME NEW j \in ImageIds, Exists(j)'
                 PROVE  j <= Greatest + Cardinality(ReportImages') + changes'
    BY Bounds DEF IdsFit
  <2>2. Exists(j)
    BY <1>1, <2>1 DEF Exists
  <2>3. j <= Greatest + Cardinality(ReportImages) + changes
    BY <2>2 DEF ImagesFit, IdsFit
  <2>4. changes \in Nat /\ j \in Nat
    BY Bounds, ReportsAssumption DEF CountersTyped
  <2>5. QED
    BY <1>5, <2>3, <2>4, Bounds, ReportImagesFinite
<1>7. QED
  BY <1>2, <1>4, <1>6 DEF ImagesFit

LEMMA NextImagesFit ==
    ASSUME TypesInvariant, [Next]_vars
    PROVE  ImagesFit'
<1>0. ImagesFit /\ FilesTyped /\ ImportsTyped /\ CountersTyped
  BY DEF TypesInvariant, ExportsFit
<1>1. CASE UNCHANGED images /\ changes' \in {changes, changes + 1}
  <2>1. ReportImages' = ReportImages
    BY <1>1 DEF ReportImages, Exists
  <2>2. ImagesTyped' /\ KeysDistinct'
    BY <1>0, <1>1, <2>1 DEF ImagesFit, ImagesTyped, KeysDistinct, Exists
  <2>3. \A i \in ImageIds : Exists(i) =>
           i <= Greatest + Cardinality(ReportImages) + changes'
    <3>1. SUFFICES ASSUME NEW i \in ImageIds, Exists(i)
                   PROVE  i <= Greatest + Cardinality(ReportImages) + changes'
      OBVIOUS
    <3>2. changes \in Nat /\ i \in Nat
      BY <1>0, Bounds, ReportsAssumption DEF CountersTyped
    <3>3. i <= Greatest + Cardinality(ReportImages) + changes
      BY <1>0, <3>1 DEF ImagesFit, IdsFit
    <3>4. QED
      BY <1>1, <3>2, <3>3, Bounds, ReportImagesFinite
  <2>4. \A i \in ImageIds : Exists(i)' <=> Exists(i)
    BY <1>1 DEF Exists
  <2>5. IdsFit'
    BY <2>1, <2>3, <2>4, Bounds DEF IdsFit
  <2>6. QED
    BY <2>2, <2>5 DEF ImagesFit
<1>2. ASSUME NEW i \in ImageIds, RemoveImage(i)
      PROVE  ImagesFit'
  <2>1. Exists(i) /\ changes' = changes + 1 /\ images[i] \in Image
    BY <1>0, <1>2 DEF RemoveImage, Change, Visible, ImagesFit, ImagesTyped
  <2>2. CASE images' = [images EXCEPT ![i] = NoImage]
    <3>1. NoImage \in Image /\ ~NoImage.exists
      BY DEF NoImage, Image
    <3>2. QED
      BY <1>0, <2>1, <2>2, <3>1, ChangeKeepsImages
  <2>3. CASE images' = [images EXCEPT ![i].hidden = TRUE]
    <3> DEFINE row == [images[i] EXCEPT !.hidden = TRUE]
    <3>1. /\ row \in Image
          /\ row.key = images[i].key /\ row.report = images[i].report
      BY <2>1 DEF Image
    <3>2. images' = [images EXCEPT ![i] = row]
      BY <2>3
    <3> HIDE DEF row
    <3>3. QED
      BY <1>0, <2>1, <3>1, <3>2, ChangeKeepsImages
  <2>4. QED
    BY <1>2, <2>2, <2>3 DEF RemoveImage
<1>3. ASSUME NEW i \in ImageIds, RestoreImage(i)
      PROVE  ImagesFit'
  <2>1. /\ Exists(i) /\ changes' = changes + 1 /\ images[i] \in Image
        /\ images' = [images EXCEPT ![i].hidden = FALSE]
    BY <1>0, <1>3 DEF RestoreImage, Change, ImagesFit, ImagesTyped
  <2> DEFINE row == [images[i] EXCEPT !.hidden = FALSE]
  <2>2. /\ row \in Image
        /\ row.key = images[i].key /\ row.report = images[i].report
    BY <2>1 DEF Image
  <2>3. images' = [images EXCEPT ![i] = row]
    BY <2>1
  <2> HIDE DEF row
  <2>4. QED
    BY <1>0, <2>1, <2>2, <2>3, ChangeKeepsImages
<1>4. QED
  BY <1>0, <1>1, <1>2, <1>3, ImageSteps, CommitKeepsImages

(***************************************************************************)
(* Scans and memberships.                                                  *)
(***************************************************************************)
LEMMA ScanIdsFinite ==
    ASSUME ScansTyped
    PROVE  /\ {s.id : s \in scans} \in SUBSET Nat
           /\ IsFiniteSet({s.id : s \in scans})
<1> DEFINE g == [s \in scans |-> s.id]
<1>1. {s.id : s \in scans} = {g[s] : s \in scans}
  OBVIOUS
<1>2. IsFiniteSet(scans) /\ \A s \in scans : s.id \in Nat
  BY DEF ScansTyped, Scan
<1> HIDE DEF g
<1>3. QED
  BY <1>1, <1>2, FiniteImage

LEMMA NewScanId ==
    ASSUME ScansTyped
    PROVE  /\ NextId({s.id : s \in scans}) \in Nat
           /\ \A s \in scans : s.id # NextId({t.id : t \in scans})
<1> DEFINE I == {s.id : s \in scans}
<1>1. I \in SUBSET Nat /\ IsFiniteSet(I)
  BY ScanIdsFinite
<1>2. \A s \in scans : s.id \in I
  OBVIOUS
<1> HIDE DEF I
<1>3. /\ NextId(I) \in Nat
      /\ \A s \in scans : s.id < NextId(I) /\ s.id \in Nat
  BY <1>1, <1>2, NextIdIsNew
<1>4. QED
  BY <1>3 DEF I

LEMMA FewerScansTyped ==
    ASSUME ScansTyped, scans' \in SUBSET scans,
           \A s \in scans' : Exists(s.image)'
    PROVE  ScansTyped'
  BY FS_Subset DEF ScansTyped

LEMMA CommitScans ==
    ASSUME TypesInvariant, NEW q \in Importers, ImportCommits(q)
    PROVE  \E id, home :
              /\ scans' = scans \cup
                    {ScanOf(m, id[m], home[m]) : m \in NewMarkers(q)}
              /\ \A m \in NewMarkers(q) :
                    /\ id[m] \in Nat /\ \A s \in scans : s.id # id[m]
                    /\ home[m] \in ImageIds /\ images'[home[m]].exists
              /\ \A m, n \in NewMarkers(q) : id[m] = id[n] => m = n
<1> DEFINE new == NewMarkers(q)
           I == {s.id : s \in scans}
           id == Numbered(new, I)
           home == [m \in new |-> HomeOf(m.key, new)]
           K == NewKeys(new)
           place == PlaceOf(new)
<1>0. /\ ImagesFit /\ FilesTyped /\ ImportsTyped /\ CountersTyped
      /\ ScansTyped /\ import[q].reading
  BY DEF TypesInvariant, ExportsFit, ImportCommits
<1>1. new \in SUBSET Fingerprint /\ IsFiniteSet(new)
  BY <1>0, NewMarkersTyped
<1>2. \A m \in new : home[m] = HomeOf(m.key, new)
  OBVIOUS
<1>3. scans' = scans \cup {ScanOf(m, id[m], HomeOf(m.key, new)) : m \in new}
  BY DEF ImportCommits
<1>4. I \in SUBSET Nat /\ IsFiniteSet(I) /\ \A s \in scans : s.id \in I
  BY <1>0, ScanIdsFinite
<1>5. ASSUME NEW m \in new
      PROVE  home[m] \in ImageIds /\ images'[home[m]].exists
  <2>1. CASE m.key \in K
    <3>1. home[m] = place[m.key]
      BY <1>2, <2>1 DEF HomeOf
    <3>2. place[m.key] \in ImageIds /\ images'[place[m.key]] = ReportImage(m.key)
      BY <1>0, <2>1, PlacesAreFree, CommitInserts
    <3>3. QED
      BY <3>1, <3>2 DEF ReportImage, Exists
  <2>2. CASE m.key \notin K
    <3>1. \E i \in ReportImages : images[i].key = m.key
      BY <1>5, <2>2 DEF NewKeys
    <3>2. home[m] \in ReportImages
      BY <1>2, <2>2, <3>1 DEF HomeOf
    <3>3. home[m] \in ImageIds /\ Exists(home[m])
      BY <3>2 DEF ReportImages
    <3>4. images'[home[m]] = images[home[m]]
      BY <1>0, <3>3, CommitKeepsImages
    <3>5. QED
      BY <3>3, <3>4 DEF Exists
  <2>3. QED
    BY <2>1, <2>2
<1> HIDE DEF new, I, id, home
<1>6. /\ Cardinality(new) \in Nat
      /\ id \in [new -> NextId(I)..(NextId(I) + Cardinality(new) - 1)]
      /\ \A m, n \in new : id[m] = id[n] => m = n
  BY <1>1, <1>4, NumberedIs DEF id
<1>7. /\ NextId(I) \in Nat /\ \A s \in scans : s.id < NextId(I) /\ s.id \in Nat
  BY <1>4, NextIdIsNew
<1>8. \A m \in new : id[m] \in Nat /\ \A s \in scans : s.id # id[m]
  BY <1>6, <1>7
<1>9. scans' = scans \cup {ScanOf(m, id[m], home[m]) : m \in new}
  BY <1>2, <1>3
<1>10. QED
  BY <1>5, <1>6, <1>8, <1>9 DEF new

LEMMA CommitScansTyped ==
    ASSUME TypesInvariant, NEW q \in Importers, ImportCommits(q)
    PROVE  ScansTyped'
<1> DEFINE new == NewMarkers(q)
<1>0. /\ ImagesFit /\ FilesTyped /\ ImportsTyped /\ CountersTyped
      /\ ScansTyped /\ import[q].reading
  BY DEF TypesInvariant, ExportsFit, ImportCommits
<1>1. new \in SUBSET Fingerprint /\ IsFiniteSet(new)
  BY <1>0, NewMarkersTyped
<1>2. PICK id, home :
         /\ scans' = scans \cup {ScanOf(m, id[m], home[m]) : m \in new}
         /\ \A m \in new : /\ id[m] \in Nat /\ \A s \in scans : s.id # id[m]
                           /\ home[m] \in ImageIds /\ images'[home[m]].exists
         /\ \A m, n \in new : id[m] = id[n] => m = n
  BY CommitScans
<1> DEFINE g == [m \in new |-> ScanOf(m, id[m], home[m])]
           N == {g[m] : m \in new}
<1> HIDE DEF new
<1>3. scans' = scans \cup N
  BY <1>2
<1>4. ASSUME NEW m \in new
      PROVE  /\ g[m] \in Scan /\ g[m].id = id[m] /\ images'[g[m].image].exists
  <2>1. g[m] = ScanOf(m, id[m], home[m])
    OBVIOUS
  <2>2. m.content \in Contents /\ m.found \in Contents /\ m \in Fingerprint
    BY <1>1 DEF Fingerprint
  <2>3. ScanOf(m, id[m], home[m]) \in Scan
    BY <1>2, <2>2 DEF ScanOf, Scan
  <2>4. /\ ScanOf(m, id[m], home[m]).id = id[m]
        /\ ScanOf(m, id[m], home[m]).image = home[m]
    BY DEF ScanOf
  <2> HIDE DEF g
  <2>5. QED
    BY <1>2, <2>1, <2>3, <2>4
<1>5. \A i \in ImageIds : Exists(i) => Exists(i)'
  BY <1>0, CommitKeepsImages DEF Exists
<1> HIDE DEF g
<1>6. IsFiniteSet(N)
  BY <1>1, FiniteImage
<1>7. IsFiniteSet(scans')
  BY <1>0, <1>3, <1>6, FS_Union DEF ScansTyped
<1>8. \A s \in scans' : s \in Scan /\ images'[s.image].exists
  <2>1. \A s \in scans : s \in Scan /\ images'[s.image].exists
    BY <1>0, <1>5 DEF ScansTyped, Scan, Exists
  <2>2. \A s \in N : s \in Scan /\ images'[s.image].exists
    BY <1>4
  <2>3. QED
    BY <1>3, <2>1, <2>2
<1>9. ASSUME NEW s \in scans', NEW t \in scans', s.id = t.id
      PROVE  s = t
  <2>1. CASE s \in scans /\ t \in scans
    BY <1>0, <1>9, <2>1 DEF ScansTyped
  <2>2. CASE s \in N /\ t \in N
    BY <1>2, <1>4, <1>9, <2>2
  <2>3. CASE s \in scans /\ t \in N
    BY <1>2, <1>4, <1>9, <2>3
  <2>4. CASE s \in N /\ t \in scans
    BY <1>2, <1>4, <1>9, <2>4
  <2>5. QED
    BY <1>3, <2>1, <2>2, <2>3, <2>4
<1>10. QED
  BY <1>7, <1>8, <1>9 DEF ScansTyped, Exists

LEMMA NextScansTyped ==
    ASSUME TypesInvariant, [Next]_vars
    PROVE  ScansTyped'
<1>0. /\ ImagesFit /\ ImagesTyped /\ ScansTyped /\ CountersTyped
      /\ FilesTyped /\ ImportsTyped
  BY DEF TypesInvariant, ImagesFit, ExportsFit
<1>1. ASSUME NEW i \in ImageIds, AdmitScan(i)
      PROVE  ScansTyped'
  <2> DEFINE n == NextId({s.id : s \in scans})
             new == [id |-> n, image |-> i, status |-> "active",
                     content |-> 0, found |-> 0, marker |-> NotImported]
  <2>1. n \in Nat /\ \A s \in scans : s.id # n
    BY <1>0, NewScanId
  <2>2. /\ scans' = scans \cup {new} /\ UNCHANGED images /\ Exists(i)
    BY <1>1 DEF AdmitScan, Visible
  <2> HIDE DEF n
  <2>3. new \in Scan /\ new.id = n /\ new.image = i
    BY <2>1, ReportsAssumption DEF Scan, Contents
  <2> HIDE DEF new
  <2>4. IsFiniteSet(scans')
    BY <1>0, <2>2, FS_AddElement DEF ScansTyped
  <2>5. QED
    BY <1>0, <2>1, <2>2, <2>3, <2>4 DEF ScansTyped, Exists
<1>2. ASSUME NEW i \in ImageIds, RemoveImage(i)
      PROVE  ScansTyped'
  <2>1. scans' = scans \ ScansOf(i)
    BY <1>2 DEF RemoveImage
  <2>2. \A j \in ImageIds \ {i} : images'[j] = images[j]
    BY <1>0, <1>2 DEF RemoveImage, ImagesTyped
  <2>3. \A s \in scans' : s \in scans /\ s.image \in ImageIds \ {i}
    BY <1>0, <2>1 DEF ScansOf, ScansTyped, Scan
  <2>4. QED
    BY <1>0, <2>2, <2>3, FewerScansTyped DEF ScansTyped, Exists
<1>3. ASSUME NEW s \in scans, RemoveScan(s)
      PROVE  ScansTyped'
  BY <1>0, <1>3, FewerScansTyped DEF RemoveScan, ScansTyped, Exists
<1>4. ASSUME NEW s \in scans, CompleteScan(s)
      PROVE  ScansTyped'
  <2> DEFINE new == [id |-> s.id, image |-> s.image, status |-> "completed",
                     content |-> contents', found |-> contents',
                     marker |-> s.marker]
  <2>1. /\ scans' = (scans \ {s}) \cup {new} /\ UNCHANGED images
    BY <1>4 DEF CompleteScan
  <2>2. contents' \in Contents
    BY <1>4, <1>0, ReportsAssumption DEF CompleteScan, CountersTyped, Contents
  <2>3. s \in Scan
    BY <1>0 DEF ScansTyped
  <2>4. new \in Scan /\ new.id = s.id /\ new.image = s.image
    BY <2>2, <2>3 DEF Scan
  <2> HIDE DEF new
  <2>5. IsFiniteSet(scans')
    BY <1>0, <2>1, FS_AddElement, FS_RemoveElement DEF ScansTyped
  <2>6. QED
    BY <1>0, <2>1, <2>4, <2>5 DEF ScansTyped, Exists
<1>5. CASE UNCHANGED scans
  <2>1. \A i \in ImageIds : Exists(i) /\ ScansOf(i) # {} => Exists(i)'
    <3>1. CASE UNCHANGED images
      BY <3>1 DEF Exists
    <3>2. ASSUME NEW i \in ImageIds, RemoveImage(i)
          PROVE  \A j \in ImageIds : Exists(j) /\ ScansOf(j) # {} => Exists(j)'
      <4>1. ScansOf(i) = {}
        BY <1>5, <3>2 DEF RemoveImage, ScansOf
      <4>2. \A j \in ImageIds \ {i} : images'[j] = images[j]
        BY <1>0, <3>2 DEF RemoveImage, ImagesTyped
      <4>3. QED
        BY <4>1, <4>2 DEF Exists
    <3>3. ASSUME NEW i \in ImageIds, RestoreImage(i)
          PROVE  \A j \in ImageIds : Exists(j) => Exists(j)'
      <4>1. /\ \A j \in ImageIds \ {i} : images'[j] = images[j]
            /\ images'[i].exists = images[i].exists
        BY <1>0, <3>3 DEF RestoreImage, ImagesTyped, Image
      <4>2. QED
        BY <4>1 DEF Exists
    <3>4. ASSUME NEW q \in Importers, ImportCommits(q)
          PROVE  \A j \in ImageIds : Exists(j) => Exists(j)'
      BY <1>0, <3>4, CommitKeepsImages DEF Exists
    <3>5. QED
      BY <3>1, <3>2, <3>3, <3>4, ImageSteps
  <2>2. \A s \in scans' : Exists(s.image)'
    BY <1>0, <1>5, <2>1 DEF ScansTyped, ScansOf, Scan
  <2>3. QED
    BY <1>0, <1>5, <2>2, FewerScansTyped
<1>6. QED
  BY <1>1, <1>2, <1>3, <1>4, <1>5, ScanSteps, CommitScansTyped

LEMMA NextMembersTyped ==
    ASSUME TypesInvariant, [Next]_vars
    PROVE  MembersTyped'
<1>0. /\ ImagesFit /\ ImagesTyped /\ ScansTyped /\ CountersTyped
      /\ FilesTyped /\ ImportsTyped /\ MembersTyped
  BY DEF TypesInvariant, ImagesFit, ExportsFit
<1>1. ASSUME NEW i \in ImageIds, RemoveImage(i)
      PROVE  MembersTyped'
  <2>1. \A j \in ImageIds \ {i} : images'[j] = images[j]
    BY <1>0, <1>1 DEF RemoveImage, ImagesTyped
  <2>2. CASE members' = MembersWithout(i)
    BY <1>0, <1>1, <2>1, <2>2
       DEF MembersWithout, MembersTyped, RemoveImage, Exists
  <2>3. CASE images' = [images EXCEPT ![i].hidden = TRUE] /\ UNCHANGED members
    <3>1. \A j \in ImageIds : images'[j].exists = images[j].exists
      BY <1>0, <2>3 DEF ImagesTyped, Image
    <3>2. QED
      BY <1>0, <1>1, <2>3, <3>1 DEF MembersTyped, RemoveImage, Exists
  <2>4. QED
    BY <1>1, <2>2, <2>3 DEF RemoveImage
<1>2. ASSUME NEW g \in Groups,
             \/ CreateGroup(g) \/ DeleteGroup(g)
             \/ \E chosen \in SUBSET ImageIds :
                   ReplaceMembers(g, chosen) \/ AddMembers(g, chosen)
      PROVE  MembersTyped'
  <2>1. CASE CreateGroup(g)
    BY <1>0, <2>1 DEF CreateGroup, MembersTyped, Exists
  <2>2. CASE DeleteGroup(g)
    BY <1>0, <2>2 DEF DeleteGroup, MembersTyped, Exists
  <2>3. ASSUME NEW chosen \in SUBSET ImageIds,
               ReplaceMembers(g, chosen) \/ AddMembers(g, chosen)
        PROVE  MembersTyped'
    <3>1. /\ UNCHANGED <<images, groups>> /\ g \in groups
          /\ \A m \in members' : m \in members \/ m \in {g} \X chosen
          /\ \A i \in chosen : Exists(i)
      BY <2>3 DEF ReplaceMembers, AddMembers, Visible
    <3>2. \A m \in members' : m \in groups \X ImageIds /\ Exists(m[2])
      BY <1>0, <3>1 DEF MembersTyped
    <3>3. QED
      BY <1>0, <3>1, <3>2 DEF MembersTyped, Exists
  <2>4. QED
    BY <1>2, <2>1, <2>2, <2>3
<1>3. CASE UNCHANGED <<groups, members>>
  <2>1. CASE \A i \in ImageIds : Exists(i) => images'[i].exists
    BY <1>0, <1>3, <2>1 DEF MembersTyped, Exists
  <2>2. CASE UNCHANGED images
    BY <2>1, <2>2 DEF Exists
  <2>3. ASSUME NEW i \in ImageIds, RestoreImage(i)
        PROVE  MembersTyped'
    <3>1. \A j \in ImageIds : images'[j].exists = images[j].exists
      BY <1>0, <2>3 DEF RestoreImage, ImagesTyped, Image
    <3>2. QED
      BY <2>1, <3>1 DEF Exists
  <2>4. ASSUME NEW q \in Importers, ImportCommits(q)
        PROVE  MembersTyped'
    BY <1>0, <2>1, <2>4, CommitKeepsImages DEF Exists
  <2>5. QED
    BY <1>1, <2>2, <2>3, <2>4, ImageSteps
<1>4. QED
  BY <1>1, <1>2, <1>3, MemberSteps

(***************************************************************************)
(* Exports.                                                                *)
(***************************************************************************)
LEMMA StepKeepsExports ==
    ASSUME ExportsTyped, NEW t \in Exporters, NEW r \in Export,
           IsFiniteSet(r.rows), IsFiniteSet(r.picked),
           export' = [export EXCEPT ![t] = r]
    PROVE  ExportsTyped'
  BY DEF ExportsTyped

LEMMA NoExportTyped ==
    /\ NoExport \in Export /\ NoExport.stage = "idle"
    /\ IsFiniteSet(NoExport.rows) /\ IsFiniteSet(NoExport.picked)
    /\ NoExport.picked = {} /\ NoExport.rows = {} /\ NoExport.calm
    /\ NoExport.groups = {}
  BY FS_EmptySet DEF NoExport, Export, Stages

LEMMA VisibleMembersTyped ==
    ASSUME MembersTyped, NEW gs
    PROVE  /\ VisibleMembers(gs) \in SUBSET ImageIds
           /\ IsFiniteSet(VisibleMembers(gs))
           /\ Cardinality(VisibleMembers(gs)) \in Nat
           /\ \A i \in VisibleMembers(gs) : Exists(i)
<1>1. VisibleMembers(gs) \in SUBSET ImageIds
  BY DEF VisibleMembers, Rows, MembersTyped
<1>2. QED
  BY <1>1, Bounds, FS_Subset, FS_CardinalityType
     DEF VisibleMembers, Rows, Visible

LEMMA LatestIs ==
    ASSUME ScansTyped, NEW i, Completed(i) # {}
    PROVE  \E s \in Completed(i) : s.id = Latest(i)
<1> DEFINE I == {s.id : s \in Completed(i)}
<1>1. I \in SUBSET {s.id : s \in scans} /\ I # {}
  BY DEF Completed, ScansOf
<1>2. {s.id : s \in scans} \in SUBSET Nat /\ IsFiniteSet({s.id : s \in scans})
  BY ScanIdsFinite
<1>3. I \in SUBSET Nat /\ IsFiniteSet(I)
  <2> HIDE DEF I
  <2>1. QED
    BY <1>1, <1>2, FS_Subset
<1>4. Max(I) \in I
  <2> HIDE DEF I
  <2>1. QED
    BY <1>1, <1>3, GreatestOf
<1>5. QED
  BY <1>4 DEF Latest

\* With ids that are unique, the findings found are those of the one scan.
LEMMA FoundIs ==
    ASSUME ScansTyped, NEW id
    PROVE  /\ FoundNow(id) \in Contents
           /\ \A s \in scans : s.id = id => FoundNow(id) = s.found
<1> DEFINE F == {s.found : s \in {x \in scans : x.id = id}}
<1>1. \A s, t \in scans : s.id = t.id => s = t
  BY DEF ScansTyped
<1>2. FoundNow(id) = Max({0} \cup F)
  BY DEF FoundNow
<1>3. CASE F = {}
  <2>1. \A s \in scans : s.id # id
    BY <1>3
  <2>2. {0} \in SUBSET Nat /\ IsFiniteSet({0})
    BY FS_Singleton
  <2>3. Max({0}) \in {0}
    BY <2>2, GreatestOf
  <2> HIDE DEF F
  <2>4. {0} \cup F = {0}
    BY <1>3
  <2>5. FoundNow(id) = 0
    BY <1>2, <2>3, <2>4
  <2>6. QED
    BY <2>1, <2>5, ReportsAssumption DEF Contents
<1>4. CASE F # {}
  <2>1. PICK s \in scans : s.id = id
    BY <1>4
  <2>2. F = {s.found}
    BY <1>1, <2>1
  <2>3. s.found \in Contents /\ s.found \in Nat
    BY ReportsAssumption DEF ScansTyped, Scan, Contents
  <2>4. {0} \cup F \in SUBSET Nat /\ IsFiniteSet({0} \cup F)
    <3> HIDE DEF F
    <3>1. {0} \cup F \in SUBSET Nat
      BY <2>2, <2>3
    <3>2. IsFiniteSet({0}) /\ IsFiniteSet(F)
      BY <2>2, FS_Singleton
    <3>3. QED
      BY <3>1, <3>2, FS_Union
  <2>5. Max({0} \cup F) \in {0} \cup F /\ Max({0} \cup F) >= s.found
    BY <2>2, <2>4, GreatestOf
  <2> HIDE DEF F
  <2>6. Max({0} \cup F) = s.found
    BY <2>2, <2>3, <2>5
  <2>7. QED
    BY <1>1, <1>2, <2>1, <2>3, <2>6
<1>5. QED
  BY <1>3, <1>4

RowOf(s) == [scan |-> s.id, image |-> s.image, key |-> images[s.image].key,
             done |-> s.status = "completed", content |-> s.content]
PickedRows(t) == {RowOf(s) : s \in {x \in scans : x.id \in export[t].picked}}

LEMMA PickedRowsTyped ==
    ASSUME ScansTyped, ImagesTyped, NEW t
    PROVE  PickedRows(t) \in SUBSET Row /\ IsFiniteSet(PickedRows(t))
<1> DEFINE X == {x \in scans : x.id \in export[t].picked}
           g == [s \in X |-> RowOf(s)]
<1>1. \A s \in X : RowOf(s) \in Row
  BY DEF ScansTyped, ImagesTyped, Scan, RowOf, Row
<1>2. IsFiniteSet(X)
  BY FS_Subset DEF ScansTyped
<1>3. PickedRows(t) = {g[s] : s \in X}
  BY DEF PickedRows
<1>4. PickedRows(t) \in SUBSET Row
  BY <1>1 DEF PickedRows
<1> HIDE DEF X, g
<1>5. QED
  BY <1>2, <1>3, <1>4, FiniteImage

LEMMA ReadScansIs ==
    ASSUME NEW t, ReadScans(t)
    PROVE  Step(t, "scans",
                IF PickedRows(t) = {} THEN NoExport
                ELSE [export[t] EXCEPT !.stage = "findings",
                                       !.rows = PickedRows(t)])
  BY DEF ReadScans, PickedRows, RowOf

LEMMA ExportStepTyped ==
    ASSUME TypesInvariant, NEW t \in Exporters, ExportStep(t)
    PROVE  ExportsTyped'
<1>0. ExportsTyped /\ ScansTyped /\ MembersTyped /\ ImagesTyped
  BY DEF TypesInvariant, ExportsFit, ImagesFit
<1>1. export[t] \in Export /\ IsFiniteSet(export[t].rows)
      /\ IsFiniteSet(export[t].picked)
  BY <1>0 DEF ExportsTyped
<1>2. CASE export' = [export EXCEPT ![t] = NoExport]
  BY <1>0, <1>2, NoExportTyped, StepKeepsExports
<1>3. ASSUME NEW gs \in SUBSET Groups, SelectGroups(t, gs)
      PROVE  ExportsTyped'
  <2> DEFINE r == [NoExport EXCEPT !.stage = "count", !.groups = gs]
  <2>1. r \in Export /\ IsFiniteSet(r.rows) /\ IsFiniteSet(r.picked)
    BY FS_EmptySet DEF NoExport, Export, Stages
  <2>2. export' = [export EXCEPT ![t] = r]
    BY <1>3 DEF SelectGroups, Step
  <2> HIDE DEF r
  <2>3. QED
    BY <1>0, <2>1, <2>2, StepKeepsExports
<1>4. ASSUME NEW ids \in SUBSET {s.id : s \in scans}, SelectScans(t, ids)
      PROVE  ExportsTyped'
  <2> DEFINE r == [NoExport EXCEPT !.stage = "scans", !.picked = ids]
  <2>1. ids \in SUBSET Nat /\ IsFiniteSet(ids)
    BY <1>0, ScanIdsFinite, FS_Subset
  <2>2. r \in Export /\ IsFiniteSet(r.rows) /\ IsFiniteSet(r.picked)
    BY <2>1, FS_EmptySet DEF NoExport, Export, Stages
  <2>3. export' = [export EXCEPT ![t] = r]
    BY <1>4 DEF SelectScans, Step
  <2> HIDE DEF r
  <2>4. QED
    BY <1>0, <2>2, <2>3, StepKeepsExports
<1>5. CASE CountMembers(t)
  <2> DEFINE gs == export[t].groups
             r == [export[t] EXCEPT !.stage = "latest",
                                    !.counted = VisibleMembers(gs),
                                    !.member_count = MemberCount(gs)]
  <2>1. /\ VisibleMembers(gs) \in SUBSET ImageIds
        /\ MemberCount(gs) \in Nat
    BY <1>0, VisibleMembersTyped DEF MemberCount
  <2>2. r \in Export /\ IsFiniteSet(r.rows) /\ IsFiniteSet(r.picked)
    BY <1>1, <2>1 DEF Export, Stages
  <2>3. \/ export' = [export EXCEPT ![t] = r]
        \/ export' = [export EXCEPT ![t] = NoExport]
    BY <1>5 DEF CountMembers, Step
  <2> HIDE DEF r
  <2>4. QED
    BY <1>0, <1>2, <2>2, <2>3, StepKeepsExports
<1>6. CASE SelectLatest(t)
  <2> DEFINE scanned == {i \in VisibleMembers(export[t].groups) :
                            Completed(i) # {}}
             g == [i \in scanned |-> Latest(i)]
             ids == {Latest(i) : i \in scanned}
             r == [export[t] EXCEPT !.stage = "unscanned", !.picked = ids]
  <2>1. \A i \in scanned : Latest(i) \in Nat
    BY <1>0, LatestIs DEF Completed, ScansOf, ScansTyped, Scan
  <2>2. IsFiniteSet(scanned)
    BY <1>0, VisibleMembersTyped, FS_Subset
  <2>3. ids = {g[i] : i \in scanned} /\ ids \in SUBSET Nat
    BY <2>1
  <2>4. IsFiniteSet(ids)
    <3> HIDE DEF g, ids, scanned
    <3>1. QED
      BY <2>2, <2>3, FiniteImage
  <2>5. \/ export' = [export EXCEPT ![t] = r]
        \/ export' = [export EXCEPT ![t] = NoExport]
    BY <1>6 DEF SelectLatest, Step
  <2> HIDE DEF ids
  <2>6. r \in Export /\ IsFiniteSet(r.rows) /\ IsFiniteSet(r.picked)
    BY <1>1, <2>3, <2>4 DEF Export, Stages
  <2> HIDE DEF r
  <2>7. QED
    BY <1>0, <1>2, <2>5, <2>6, StepKeepsExports
<1>7. CASE ListUnscanned(t)
  <2> DEFINE none == {i \in VisibleMembers(export[t].groups) :
                         Completed(i) = {}}
             r == [export[t] EXCEPT !.stage = "scans",
                                    !.listed = Cardinality(none)]
  <2>1. Cardinality(none) \in Nat
    BY <1>0, VisibleMembersTyped, FS_Subset, FS_CardinalityType
  <2>2. export' = [export EXCEPT ![t] = r]
    BY <1>7 DEF ListUnscanned, Step
  <2> HIDE DEF none
  <2>3. r \in Export /\ IsFiniteSet(r.rows) /\ IsFiniteSet(r.picked)
    BY <1>1, <2>1 DEF Export, Stages
  <2> HIDE DEF r
  <2>4. QED
    BY <1>0, <2>2, <2>3, StepKeepsExports
<1>8. CASE ReadScans(t)
  <2> DEFINE r == [export[t] EXCEPT !.stage = "findings",
                                    !.rows = PickedRows(t)]
  <2>1. PickedRows(t) \in SUBSET Row /\ IsFiniteSet(PickedRows(t))
    BY <1>0, PickedRowsTyped
  <2>2. \/ export' = [export EXCEPT ![t] = r]
        \/ export' = [export EXCEPT ![t] = NoExport]
    BY <1>8, ReadScansIs DEF Step
  <2>3. r \in Export /\ IsFiniteSet(r.rows) /\ IsFiniteSet(r.picked)
    BY <1>1, <2>1 DEF Export, Stages
  <2> HIDE DEF r
  <2>4. QED
    BY <1>0, <1>2, <2>2, <2>3, StepKeepsExports
<1>9. CASE ReadFindings(t)
  BY <1>2, <1>9 DEF ReadFindings, Step
<1>10. QED
  BY <1>3, <1>4, <1>5, <1>6, <1>7, <1>8, <1>9 DEF ExportStep

LEMMA NextExportsTyped ==
    ASSUME TypesInvariant, [Next]_vars
    PROVE  ExportsTyped'
<1>0. ExportsTyped
  BY DEF TypesInvariant, ExportsFit
<1>1. CASE UNCHANGED export
  BY <1>0, <1>1 DEF ExportsTyped
<1>2. CASE Disturb
  <2>1. ASSUME NEW t \in Exporters
        PROVE  /\ export'[t] \in Export /\ IsFiniteSet(export'[t].rows)
               /\ IsFiniteSet(export'[t].picked)
    <3> DEFINE r == [export[t] EXCEPT !.calm = FALSE]
    <3>1. r \in Export /\ IsFiniteSet(r.rows) /\ IsFiniteSet(r.picked)
      BY <1>0 DEF ExportsTyped, Export
    <3>2. export'[t] = r
      BY <1>2 DEF Disturb
    <3> HIDE DEF r
    <3>3. QED
      BY <3>1, <3>2
  <2>2. export' = [t \in Exporters |-> export'[t]]
    BY <1>2 DEF Disturb
  <2>3. QED
    BY <2>1, <2>2 DEF ExportsTyped
<1>3. QED
  BY <1>1, <1>2, ExportSteps, ExportStepTyped

(***************************************************************************)
(* Files.                                                                  *)
(***************************************************************************)
FileOf(t) ==
    LET r == export[t]
    IN [groups |-> r.groups, counted |-> r.counted,
        member_count |-> r.member_count,
        included_scan_count |-> Cardinality(r.picked),
        unscanned_member_count |-> r.member_count - Cardinality(r.picked),
        listed |-> r.listed,
        reports |-> {ReportOf(row) : row \in r.rows},
        stamp |-> 1 + Cardinality(files), calm |-> r.calm]

LEMMA FileSteps ==
    ASSUME NEW t \in Exporters, ExportStep(t)
    PROVE  \/ ReadFindings(t) /\ files' = files \cup {FileOf(t)}
           \/ UNCHANGED files
  BY DEF ExportStep, FileOf, SelectGroups, SelectScans, CountMembers,
         SelectLatest, ListUnscanned, ReadScans, ReadFindings, Begins, Reads

LEMMA ReportsTyped ==
    ASSUME ScansTyped, ExportsTyped, NEW t \in Exporters
    PROVE  /\ FileOf(t).reports = {ReportOf(row) : row \in export[t].rows}
           /\ FileOf(t).reports \subseteq Report
           /\ IsFiniteSet(FileOf(t).reports)
<1> DEFINE R == export[t].rows
           g == [row \in R |-> ReportOf(row)]
           P == {ReportOf(row) : row \in R}
<1>1. R \in SUBSET Row /\ IsFiniteSet(R)
  BY DEF ExportsTyped, Export
<1>2. ASSUME NEW row \in R
      PROVE  ReportOf(row) \in Report
  <2>1. row \in Row
    BY <1>1
  <2>2. FoundNow(row.scan) \in Contents
    BY FoundIs
  <2>3. QED
    BY <2>1, <2>2 DEF Row, ReportOf, Report
<1>3. P = {g[row] : row \in R} /\ P \subseteq Report
  BY <1>2
<1>4. IsFiniteSet(P)
  <2> HIDE DEF R, g, P
  <2>1. QED
    BY <1>1, <1>3, FiniteImage
<1>5. FileOf(t).reports = P
  BY DEF FileOf
<1>6. QED
  BY <1>3, <1>4, <1>5

LEMMA BusyChanges ==
    ASSUME ExportsTyped, NEW t \in Exporters, NEW r,
           export' = [export EXCEPT ![t] = r]
    PROVE  Busy' = IF r.stage = "idle" THEN Busy \ {t} ELSE Busy \cup {t}
<1>1. /\ export'[t] = r
      /\ \A u \in Exporters \ {t} : export'[u] = export[u]
  BY DEF ExportsTyped
<1>2. QED
  BY <1>1 DEF Busy

\* A step of an export takes one of the exports that were left, or adds the
\* file of an export that ends, or neither.
LEMMA ExportStepCounts ==
    ASSUME TypesInvariant, NEW t \in Exporters, ExportStep(t)
    PROVE  \/ t \notin Busy /\ Busy' = Busy \cup {t} /\ exports' = exports + 1
                /\ UNCHANGED files
           \/ t \in Busy /\ Busy' = Busy \ {t} /\ exports' = exports
                /\ files' = files \cup {FileOf(t)}
           \/ Busy' \in {Busy, Busy \ {t}} /\ UNCHANGED <<files, exports>>
<1>0. ExportsTyped
  BY DEF TypesInvariant, ExportsFit
<1>1. ASSUME NEW gs \in SUBSET Groups, SelectGroups(t, gs)
      PROVE  t \notin Busy /\ Busy' = Busy \cup {t} /\ exports' = exports + 1
                /\ UNCHANGED files
  <2> DEFINE r == [NoExport EXCEPT !.stage = "count", !.groups = gs]
  <2>1. r.stage = "count"
    BY DEF NoExport
  <2>2. /\ export' = [export EXCEPT ![t] = r] /\ export[t].stage = "idle"
        /\ exports' = exports + 1 /\ UNCHANGED files
    BY <1>1 DEF SelectGroups, Step, Begins
  <2> HIDE DEF r
  <2>3. QED
    BY <1>0, <2>1, <2>2, BusyChanges DEF Busy
<1>2. ASSUME NEW ids \in SUBSET {s.id : s \in scans}, SelectScans(t, ids)
      PROVE  t \notin Busy /\ Busy' = Busy \cup {t} /\ exports' = exports + 1
                /\ UNCHANGED files
  <2> DEFINE r == [NoExport EXCEPT !.stage = "scans", !.picked = ids]
  <2>1. r.stage = "scans"
    BY DEF NoExport
  <2>2. /\ export' = [export EXCEPT ![t] = r] /\ export[t].stage = "idle"
        /\ exports' = exports + 1 /\ UNCHANGED files
    BY <1>2 DEF SelectScans, Step, Begins
  <2> HIDE DEF r
  <2>3. QED
    BY <1>0, <2>1, <2>2, BusyChanges DEF Busy
<1>3. CASE ReadFindings(t)
  <2>1. /\ export' = [export EXCEPT ![t] = NoExport]
        /\ export[t].stage = "findings" /\ exports' = exports
        /\ files' = files \cup {FileOf(t)}
    BY <1>3 DEF ReadFindings, Step, FileOf
  <2>2. QED
    BY <1>0, <2>1, BusyChanges, NoExportTyped DEF Busy
<1>4. ASSUME CountMembers(t) \/ SelectLatest(t) \/ ListUnscanned(t)
                \/ ReadScans(t)
      PROVE  Busy' \in {Busy, Busy \ {t}} /\ UNCHANGED <<files, exports>>
  <2>1. /\ export[t].stage # "idle" /\ UNCHANGED <<files, exports>>
        /\ \E r : export' = [export EXCEPT ![t] = r]
    BY <1>4 DEF CountMembers, SelectLatest, ListUnscanned, ReadScans, Step,
                Reads
  <2>2. PICK r : export' = [export EXCEPT ![t] = r]
    BY <2>1
  <2>3. Busy' = IF r.stage = "idle" THEN Busy \ {t} ELSE Busy \cup {t}
    BY <1>0, <2>2, BusyChanges
  <2>4. Busy \cup {t} = Busy
    BY <2>1 DEF Busy
  <2>5. QED
    BY <2>1, <2>3, <2>4
<1>5. QED
  BY <1>1, <1>2, <1>3, <1>4 DEF ExportStep

LEMMA NextFilesFit ==
    ASSUME TypesInvariant, [Next]_vars
    PROVE  FilesTyped' /\ FilesCounted'
<1>0. ExportsTyped /\ FilesTyped /\ FilesCounted /\ CountersTyped /\ ScansTyped
  BY DEF TypesInvariant, ExportsFit
<1>n. /\ Cardinality(files) \in Nat /\ Cardinality(Busy) \in Nat
      /\ exports \in Nat /\ exports <= MaxExports
      /\ Cardinality(files) + Cardinality(Busy) <= exports
  BY <1>0, FS_CardinalityType, ReportsAssumption
     DEF FilesTyped, FilesCounted, CountersTyped
<1>1. CASE UNCHANGED <<files, exports>> /\ Busy' = Busy
  BY <1>0, <1>1 DEF FilesTyped, FilesCounted
<1>2. CASE UNCHANGED <<export, files, exports>>
  <2>1. Busy' = Busy
    BY <1>2 DEF Busy
  <2>2. QED
    BY <1>1, <1>2, <2>1
<1>3. CASE Disturb /\ UNCHANGED <<files, exports>>
  <2>1. ASSUME NEW t \in Exporters
        PROVE  export'[t].stage = export[t].stage
    BY <1>0, <1>3 DEF Disturb, ExportsTyped, Export
  <2>2. Busy' = Busy
    BY <2>1 DEF Busy
  <2>3. QED
    BY <1>1, <1>3, <2>2
<1>4. ASSUME NEW t \in Exporters, ExportStep(t)
      PROVE  FilesTyped' /\ FilesCounted'
  <2>1. CASE t \notin Busy /\ Busy' = Busy \cup {t} /\ exports' = exports + 1
                /\ UNCHANGED files
    <3>1. /\ IsFiniteSet(Busy')
          /\ Cardinality(Busy') = Cardinality(Busy) + 1
      BY <1>0, <2>1, FS_AddElement DEF FilesCounted
    <3>2. Cardinality(files') + Cardinality(Busy') <= exports'
      BY <1>n, <2>1, <3>1
    <3>3. QED
      BY <1>0, <2>1, <3>1, <3>2 DEF FilesTyped, FilesCounted
  <2>2. CASE t \in Busy /\ Busy' = Busy \ {t} /\ exports' = exports
                /\ files' = files \cup {FileOf(t)}
    <3>1. /\ IsFiniteSet(Busy')
          /\ Cardinality(Busy') = Cardinality(Busy) - 1
          /\ Cardinality(Busy') \in Nat
      BY <1>0, <2>2, FS_RemoveElement, FS_CardinalityType DEF FilesCounted
    <3>2. /\ IsFiniteSet(files')
          /\ Cardinality(files') <= Cardinality(files) + 1
          /\ Cardinality(files') \in Nat
      <4>1. /\ IsFiniteSet(files')
            /\ \/ Cardinality(files') = Cardinality(files)
               \/ Cardinality(files') = Cardinality(files) + 1
        BY <1>0, <2>2, FS_AddElement DEF FilesTyped
      <4>2. QED
        BY <1>n, <4>1
    <3>3. Cardinality(files') + Cardinality(Busy') <= exports'
      BY <1>n, <2>2, <3>1, <3>2
    <3>4. FileOf(t).stamp \in Stamps
      <4>1. FileOf(t).stamp = 1 + Cardinality(files)
        BY DEF FileOf
      <4>2. QED
        BY <1>n, <3>1, <2>2, <4>1, ReportsAssumption DEF Stamps
    <3>5. QED
      BY <1>0, <2>2, <3>1, <3>2, <3>3, <3>4, ReportsTyped
         DEF FilesTyped, FilesCounted
  <2>3. CASE Busy' \in {Busy, Busy \ {t}} /\ UNCHANGED <<files, exports>>
    <3>1. /\ IsFiniteSet(Busy') /\ Cardinality(Busy') \in Nat
          /\ Cardinality(Busy') <= Cardinality(Busy)
      BY <1>0, <2>3, FS_Subset, FS_CardinalityType DEF FilesCounted
    <3>2. QED
      BY <1>0, <1>n, <2>3, <3>1 DEF FilesTyped, FilesCounted
  <2>4. QED
    BY <1>4, <2>1, <2>2, <2>3, ExportStepCounts
<1>5. QED
  BY <1>1, <1>2, <1>3, <1>4, ExportSteps

LEMMA NextImportsTyped ==
    ASSUME TypesInvariant, [Next]_vars
    PROVE  ImportsTyped'
<1>0. ImportsTyped /\ files \subseteq files'
  BY FilesGrow DEF TypesInvariant
<1>1. CASE UNCHANGED import
  BY <1>0, <1>1 DEF ImportsTyped, SelectionAccepted
<1>2. ASSUME NEW q \in Importers, NEW f \in files, ImportReads(q, f)
      PROVE  ImportsTyped'
  <2> DEFINE r == [reading |-> TRUE, file |-> {f},
                   existing |-> Markers(f) \cap {s.marker : s \in scans}]
  <2>1. import' = [import EXCEPT ![q] = r] /\ SelectionAccepted(f)
    BY <1>2 DEF ImportReads
  <2>2. r.file = {f} /\ f \in files'
    BY <1>0
  <2> HIDE DEF r
  <2>3. SelectionAccepted(f)'
    BY <2>1 DEF SelectionAccepted, Selected, SelectionValid
  <2>4. QED
    BY <1>0, <2>1, <2>2, <2>3 DEF ImportsTyped
<1>3. ASSUME NEW q \in Importers, ImportCommits(q) \/ ImportFails(q)
      PROVE  ImportsTyped'
  <2>1. import' = [import EXCEPT ![q] = NoImport] /\ ~NoImport.reading
    BY <1>3 DEF ImportCommits, ImportFails, NoImport
  <2>2. QED
    BY <1>0, <2>1 DEF ImportsTyped
<1>4. QED
  BY <1>1, <1>2, <1>3, ImportSteps

(***************************************************************************)
(* The types hold.                                                         *)
(***************************************************************************)
LEMMA InitTypes == Init => TypesInvariant
<1>1. SUFFICES ASSUME Init
               PROVE  TypesInvariant
  OBVIOUS
<1>2. PICK scanned \in SUBSET Archives :
         \E imported \in {{}} \cup {{k} : k \in scanned} :
            /\ images = [i \in ImageIds |->
                  IF i \in Archives THEN ArchiveImage(i)
                  ELSE IF i = FirstReport /\ imported # {}
                       THEN ReportImage(CHOOSE k \in imported : TRUE)
                       ELSE NoImage]
            /\ scans = {OldScan(i, i, NotImported) : i \in scanned}
                  \cup {OldScan(FirstReport, k, OldMarker(k)) :
                           k \in imported}
  BY <1>1 DEF Init
<1>3. PICK imported \in {{}} \cup {{k} : k \in scanned} :
         /\ images = [i \in ImageIds |->
               IF i \in Archives THEN ArchiveImage(i)
               ELSE IF i = FirstReport /\ imported # {}
                    THEN ReportImage(CHOOSE k \in imported : TRUE)
                    ELSE NoImage]
         /\ scans = {OldScan(i, i, NotImported) : i \in scanned}
               \cup {OldScan(FirstReport, k, OldMarker(k)) : k \in imported}
  BY <1>2
<1>4. FirstReport = Greatest + 1 /\ FirstReport \notin Archives
  <2>1. FirstReport = 1 + Greatest
    BY DEF FirstReport, NextId, Greatest
  <2>2. QED
    BY <2>1, Bounds
<1>5. Archives \subseteq ImageIds /\ (imported # {} => FirstReport \in ImageIds)
  <2>1. \A i \in Archives : i \in ImageIds
    BY Bounds, ReportsAssumption
  <2>2. ASSUME imported # {}
        PROVE  FirstReport \in ImageIds
    <3>1. PICK k \in Archives : TRUE
      BY <2>2
    <3>2. Greatest >= 1
      BY <3>1, Bounds
    <3>3. QED
      BY <1>4, <3>2, Bounds, ReportsAssumption
  <2>3. QED
    BY <2>1, <2>2
<1>6. /\ \A i \in Archives : images[i] = ArchiveImage(i)
      /\ \A k \in imported : images[FirstReport] = ReportImage(k)
                             /\ imported = {k} /\ k \in scanned
      /\ \A i \in ImageIds \ Archives :
            i # FirstReport \/ imported = {} => images[i] = NoImage
  BY <1>3, <1>4, <1>5
<1>7. ASSUME NEW i \in ImageIds
      PROVE  \/ i \in Archives /\ images[i] = ArchiveImage(i)
             \/ /\ i = FirstReport
                /\ \E k \in scanned : imported = {k} /\ images[i] = ReportImage(k)
             \/ images[i] = NoImage
  BY <1>6
<1>8. /\ \A i \in Archives : /\ ArchiveImage(i) \in Image
                             /\ ArchiveImage(i).exists
                             /\ ~ArchiveImage(i).report
                             /\ ArchiveImage(i).key = i
      /\ \A k \in scanned : /\ ReportImage(k) \in Image
                            /\ ReportImage(k).exists /\ ReportImage(k).report
                            /\ ReportImage(k).key = k
      /\ NoImage \in Image /\ ~NoImage.exists
  BY DEF ArchiveImage, ReportImage, NoImage, Image
<1>9. images = [i \in ImageIds |-> images[i]]
  BY <1>3
<1>10. ImagesTyped
  <2>1. \A i \in ImageIds : images[i] \in Image
                            /\ (images[i].exists => images[i].key \in Archives)
    BY <1>7, <1>8
  <2>2. QED
    BY <1>9, <2>1 DEF ImagesTyped, Exists
<1>11. ReportImages \subseteq {FirstReport}
  BY <1>7, <1>8 DEF ReportImages, Exists
<1>12. KeysDistinct
  BY <1>11 DEF KeysDistinct
<1>13. contents = Greatest /\ exports = 0 /\ changes = 0 /\ files = {}
       /\ groups = Groups
       /\ export = [t \in Exporters |-> NoExport]
       /\ import = [q \in Importers |-> NoImport]
       /\ members \in SUBSET (Groups \X {i \in ImageIds : Exists(i)})
  BY <1>1 DEF Init, Greatest
<1>14. IdsFit
  <2>1. SUFFICES ASSUME NEW i \in ImageIds, Exists(i)
                 PROVE  i <= Greatest + Cardinality(ReportImages) + 0
    BY <1>13 DEF IdsFit
  <2>2. CASE i \in Archives
    BY <2>2, Bounds, ReportImagesFinite
  <2>3. CASE i = FirstReport /\ Exists(i) /\ images[i].report
    <3>1. ReportImages = {FirstReport}
      BY <1>11, <2>3 DEF ReportImages
    <3>2. Cardinality(ReportImages) = 1
      BY <3>1, FS_Singleton
    <3>3. QED
      BY <1>4, <2>3, <3>2, Bounds
  <2>4. QED
    BY <1>7, <1>8, <2>1, <2>2, <2>3 DEF Exists
<1>15. MaxContents \in Nat /\ \A i \in Archives : i \in Contents /\ i \in Nat
  BY ReportsAssumption DEF Contents
<1>16. CountersTyped
  <2>1. Greatest \in 0..MaxContents
    BY <1>15, Bounds DEF Contents
  <2>2. QED
    BY <1>13, <2>1, ReportsAssumption DEF CountersTyped
<1>17. \A s \in scans : s \in Scan /\ Exists(s.image)
                        /\ s.image = s.id
                        /\ s.status = "completed" /\ s.content = s.found
  <2>1. ASSUME NEW i \in scanned
        PROVE  /\ OldScan(i, i, NotImported) \in Scan
               /\ OldScan(i, i, NotImported).image = i
    BY <1>5, <1>15 DEF OldScan, Scan
  <2>2. ASSUME NEW k \in imported
        PROVE  /\ OldScan(FirstReport, k, OldMarker(k)) \in Scan
               /\ OldScan(FirstReport, k, OldMarker(k)).image = FirstReport
    <3>1. k \in Archives /\ FirstReport \in ImageIds /\ FirstReport \in Nat
      BY <1>4, <1>5, Bounds
    <3>2. 0 \in Stamps
      BY ReportsAssumption DEF Stamps
    <3>3. OldMarker(k) \in Fingerprint
      BY <1>15, <3>1, <3>2 DEF OldMarker, Fingerprint
    <3>4. QED
      BY <1>15, <3>1, <3>3 DEF OldScan, Scan
  <2>3. (\A i \in scanned : Exists(i)) /\ (imported # {} => Exists(FirstReport))
    BY <1>6, <1>8 DEF Exists
  <2>4. QED
    BY <1>3, <2>1, <2>2, <2>3 DEF OldScan
<1>18. \A s, t \in scans : s.id = t.id => s = t
  BY <1>3, <1>4, <1>6 DEF OldScan
<1>19. IsFiniteSet(scans)
  <2> DEFINE g == [i \in scanned |-> OldScan(i, i, NotImported)]
             h == [k \in imported |-> OldScan(FirstReport, k, OldMarker(k))]
             G == {g[i] : i \in scanned}
             H == {h[k] : k \in imported}
  <2>1. IsFiniteSet(scanned) /\ IsFiniteSet(imported)
    BY ReportsAssumption, FS_Subset, FS_EmptySet, FS_Singleton
  <2>2. scans = G \cup H
    BY <1>3
  <2> HIDE DEF g, h
  <2>3. IsFiniteSet(G) /\ IsFiniteSet(H)
    BY <2>1, FiniteImage
  <2> HIDE DEF G, H
  <2>4. QED
    BY <2>2, <2>3, FS_Union
<1>20. ScansTyped
  BY <1>17, <1>18, <1>19 DEF ScansTyped
<1>21. MembersTyped
  BY <1>13 DEF MembersTyped
<1>22. ExportsTyped /\ Busy = {}
  BY <1>13, NoExportTyped DEF ExportsTyped, Busy
<1>23. FilesTyped /\ FilesCounted
  BY <1>13, <1>22, FS_EmptySet DEF FilesTyped, FilesCounted
<1>24. ImportsTyped
  BY <1>13 DEF ImportsTyped, NoImport
<1>25. QED
  BY <1>10, <1>12, <1>14, <1>16, <1>20, <1>21, <1>22, <1>23, <1>24
     DEF TypesInvariant, ImagesFit, ExportsFit

LEMMA NextTypes == TypesInvariant /\ [Next]_vars => TypesInvariant'
<1>1. SUFFICES ASSUME TypesInvariant, [Next]_vars
               PROVE  TypesInvariant'
  OBVIOUS
<1>2. CountersTyped'
  BY <1>1, NextCountersTyped DEF TypesInvariant
<1>3. QED
  BY <1>1, <1>2, NextImagesFit, NextScansTyped, NextMembersTyped,
     NextExportsTyped, NextFilesFit, NextImportsTyped
     DEF TypesInvariant, ExportsFit

\* The inductive invariant of the tables' rows and of what exports and imports
\* hold of them.
THEOREM TablesInductive == Spec => []TypesInvariant
<1>1. QED
  BY InitTypes, NextTypes, PTL DEF Spec

\* Every id is within its bound and given once, no scan and no membership is
\* without its image, and no membership without its group.
THEOREM TablesAreConsistent == Spec => []TypeOK
<1>1. TypesInvariant => TypeOK
  BY DEF TypesInvariant, CountersTyped, ImagesFit, ImagesTyped, ScansTyped,
         MembersTyped, ExportsFit, ExportsTyped, ImportsTyped, TypeOK
<1>2. QED
  BY <1>1, TablesInductive, PTL

(***************************************************************************)
(* What an export of groups holds.  As long as nothing disturbs it, the    *)
(* members that it counted are those that its groups have, each scan that  *)
(* it picked is there, completed and the only one of its image, the rest   *)
(* of the members are at least those that it listed, and its rows are the  *)
(* scans that it picked.  A scan whose findings are not its own came with  *)
(* a file of an export that something did disturb.                         *)
(***************************************************************************)
Kept(t, stages) == /\ export[t].calm /\ export[t].groups # {}
                   /\ export[t].stage \in stages

CountKept(t) ==
    /\ export[t].member_count = Cardinality(export[t].counted)
    /\ \A i \in ImageIds : i \in export[t].counted <=>
          \E m \in members : m[1] \in export[t].groups /\ m[2] = i /\ Visible(i)

PicksKept(t) ==
    /\ \A p \in export[t].picked :
          \E s \in scans : /\ s.id = p /\ s.status = "completed"
                           /\ s.image \in export[t].counted
    /\ \A s, u \in scans : s.id \in export[t].picked /\ u.id \in export[t].picked
                           /\ s.image = u.image => s = u

ListKept(t) ==
    export[t].listed + Cardinality(export[t].picked) <= export[t].member_count

RowsKept(t) ==
    /\ \A row \in export[t].rows : row.scan \in export[t].picked /\ row.done
    /\ \A p \in export[t].picked : \E row \in export[t].rows : row.scan = p

ScansOfRows(t) ==
    \A row \in export[t].rows : \E s \in scans :
       /\ s.id = row.scan /\ s.image = row.image
       /\ row.done => s.status = "completed" /\ s.content = row.content

ExportKept(t) ==
    /\ Kept(t, {"latest", "unscanned", "scans", "findings"}) => CountKept(t)
    /\ Kept(t, {"unscanned", "scans", "findings"}) => PicksKept(t)
    /\ Kept(t, {"scans", "findings"}) => ListKept(t)
    /\ Kept(t, {"findings"}) => RowsKept(t)
    /\ export[t].calm => ScansOfRows(t)
    /\ \A a, b \in export[t].rows : a.scan = b.scan => a = b

TornScans ==
    \A s \in scans : s.status = "completed" /\ Torn(s) => TornBefore(s)

TornReports ==
    \A f \in files : \A r \in f.reports : r.done /\ Torn(r) => TornBefore(r)

SnapshotInvariant == /\ TypesInvariant
                     /\ \A t \in Exporters : ExportKept(t)
                     /\ TornScans /\ TornReports /\ CalmExportsAddUp

(***************************************************************************)
(* A step of another actor that disturbs nothing.                          *)
(***************************************************************************)
CalmStep ==
    /\ UNCHANGED members
    /\ \A i \in ImageIds : Exists(i) => images'[i] = images[i]
    /\ \A s \in scans : s.status = "completed" => s \in scans'
    /\ \A s \in scans : \E x \in scans' : x.id = s.id /\ x.image = s.image
    /\ \A x \in scans' : \/ x \in scans
                         \/ \A s \in scans : s.status = "completed" =>
                                                s.id # x.id

LEMMA QuietSteps ==
    ASSUME [Next]_vars
    PROVE  \/ Disturb
           \/ UNCHANGED <<images, scans, members>>
           \/ \E i \in ImageIds : AdmitScan(i)
           \/ \E s \in scans : CompleteScan(s)
           \/ \E q \in Importers : ImportCommits(q)
  BY DEF Next, vars, library, Step, RemoveScan, RemoveImage, RestoreImage,
         CreateGroup, DeleteGroup, ReplaceMembers, AddMembers, SelectGroups,
         SelectScans, CountMembers, SelectLatest, ListUnscanned, ReadScans,
         ReadFindings, ImportReads, ImportFails

LEMMA StepsAreCalm ==
    ASSUME TypesInvariant, [Next]_vars
    PROVE  Disturb \/ CalmStep
<1>0. /\ ImagesFit /\ ScansTyped /\ CountersTyped /\ FilesTyped /\ ImportsTyped
  BY DEF TypesInvariant, ExportsFit
<1>1. CASE UNCHANGED <<images, scans, members>>
  BY <1>1 DEF CalmStep
<1>2. ASSUME NEW i \in ImageIds, AdmitScan(i)
      PROVE  CalmStep
  <2> DEFINE n == NextId({s.id : s \in scans})
             new == [id |-> n, image |-> i, status |-> "active",
                     content |-> 0, found |-> 0, marker |-> NotImported]
  <2>1. \A s \in scans : s.id # n
    BY <1>0, NewScanId
  <2>2. scans' = scans \cup {new} /\ UNCHANGED <<images, members>>
    BY <1>2 DEF AdmitScan
  <2> HIDE DEF n
  <2>3. new.id = n
    OBVIOUS
  <2> HIDE DEF new
  <2>4. QED
    BY <2>1, <2>2, <2>3 DEF CalmStep
<1>3. ASSUME NEW s \in scans, CompleteScan(s)
      PROVE  CalmStep
  <2> DEFINE new == [id |-> s.id, image |-> s.image, status |-> "completed",
                     content |-> contents', found |-> contents',
                     marker |-> s.marker]
  <2>1. /\ scans' = (scans \ {s}) \cup {new} /\ UNCHANGED <<images, members>>
        /\ s.status # "completed"
    BY <1>3 DEF CompleteScan
  <2>2. new.id = s.id /\ new.image = s.image
    OBVIOUS
  <2> HIDE DEF new
  <2>3. \A u \in scans : u.status = "completed" => u.id # s.id
    BY <1>0, <2>1 DEF ScansTyped
  <2>4. QED
    BY <2>1, <2>2, <2>3 DEF CalmStep
<1>4. ASSUME NEW q \in Importers, ImportCommits(q)
      PROVE  CalmStep
  <2>1. \A i \in ImageIds : Exists(i) => images'[i] = images[i]
    BY <1>0, <1>4, CommitKeepsImages
  <2>2. PICK id, home :
           /\ scans' = scans \cup
                 {ScanOf(m, id[m], home[m]) : m \in NewMarkers(q)}
           /\ \A m \in NewMarkers(q) : \A s \in scans : s.id # id[m]
    BY <1>4, CommitScans
  <2>3. \A x \in scans' : x \in scans \/ \A s \in scans : s.id # x.id
    BY <2>2 DEF ScanOf
  <2>4. UNCHANGED members
    BY <1>4 DEF ImportCommits
  <2>5. QED
    BY <2>1, <2>2, <2>3, <2>4 DEF CalmStep
<1>5. QED
  BY <1>1, <1>2, <1>3, <1>4, QuietSteps

LEMMA CalmKeepsExport ==
    ASSUME TypesInvariant, CalmStep, NEW t \in Exporters, ExportKept(t),
           export'[t] = export[t]
    PROVE  ExportKept(t)'
<1>0. /\ MembersTyped /\ ScansTyped
  BY DEF TypesInvariant
<1>1. CountKept(t) => CountKept(t)'
  <2>1. \A m \in members : /\ m[2] \in ImageIds
                           /\ images'[m[2]] = images[m[2]]
    BY <1>0 DEF MembersTyped, CalmStep
  <2>2. QED
    BY <2>1 DEF CalmStep, CountKept, Visible, Exists
<1>2. PicksKept(t) => PicksKept(t)'
  <2>1. SUFFICES ASSUME PicksKept(t)
                 PROVE  PicksKept(t)'
    OBVIOUS
  <2>2. \A x \in scans' : x.id \in export[t].picked => x \in scans
    BY <2>1 DEF PicksKept, CalmStep
  <2>3. QED
    BY <2>1, <2>2 DEF PicksKept, CalmStep
<1>3. ScansOfRows(t) => ScansOfRows(t)'
  BY DEF ScansOfRows, CalmStep
<1>4. QED
  BY <1>1, <1>2, <1>3 DEF ExportKept, Kept, ListKept, RowsKept

LEMMA DisturbedExport ==
    ASSUME TypesInvariant, Disturb, NEW t \in Exporters, ExportKept(t)
    PROVE  ExportKept(t)'
<1>1. export[t] \in Export
  BY DEF TypesInvariant, ExportsFit, ExportsTyped
<1>2. ~export'[t].calm /\ export'[t].rows = export[t].rows
  BY <1>1 DEF Disturb, Export
<1>3. QED
  BY <1>2 DEF ExportKept, Kept

(***************************************************************************)
(* The steps of an export.                                                 *)
(***************************************************************************)
LEMMA OwnStep ==
    ASSUME TypesInvariant, NEW t \in Exporters, NEW r,
           export' = [export EXCEPT ![t] = r]
    PROVE  export'[t] = r
  BY DEF TypesInvariant, ExportsFit, ExportsTyped

\* An export that has read no rows, before it counts its members or about
\* scans by their ids, owes nothing.
LEMMA FreshExport ==
    ASSUME NEW t \in Exporters, NEW r, export'[t] = r, r.rows = {},
           r.groups = {} \/ r.stage = "count"
    PROVE  ExportKept(t)'
  BY DEF ExportKept, Kept, ScansOfRows

LEMMA EndedExport ==
    ASSUME TypesInvariant, NEW t \in Exporters,
           export' = [export EXCEPT ![t] = NoExport]
    PROVE  ExportKept(t)'
<1>1. export'[t] = NoExport
  BY OwnStep
<1>2. NoExport.rows = {} /\ NoExport.groups = {}
  BY NoExportTyped
<1>3. QED
  BY <1>1, <1>2, FreshExport

LEMMA CountKeeps ==
    ASSUME TypesInvariant, NEW t \in Exporters, ExportKept(t), CountMembers(t)
    PROVE  ExportKept(t)'
<1> DEFINE gs == export[t].groups
           r == [export[t] EXCEPT !.stage = "latest",
                                  !.counted = VisibleMembers(gs),
                                  !.member_count = MemberCount(gs)]
<1>0. export[t] \in Export /\ MembersTyped
  BY DEF TypesInvariant, ExportsFit, ExportsTyped
<1>1. /\ r.stage = "latest" /\ r.counted = VisibleMembers(gs)
      /\ r.member_count = Cardinality(VisibleMembers(gs))
      /\ r.groups = gs /\ r.calm = export[t].calm /\ r.rows = export[t].rows
  BY <1>0 DEF Export, MemberCount
<1>2. /\ UNCHANGED <<images, scans, members>>
      /\ \/ export' = [export EXCEPT ![t] = r]
         \/ export' = [export EXCEPT ![t] = NoExport]
  BY DEF CountMembers, Step, library
<1> HIDE DEF r
<1>3. CASE export' = [export EXCEPT ![t] = r]
  <2>1. export'[t] = r
    BY <1>3, OwnStep
  <2>2. \A i \in ImageIds : i \in VisibleMembers(gs) <=>
           \E m \in members : m[1] \in gs /\ m[2] = i /\ Visible(i)
    BY DEF VisibleMembers, Rows
  <2>3. CountKept(t)'
    BY <1>1, <1>2, <2>1, <2>2 DEF CountKept, Visible, Exists
  <2>4. ScansOfRows(t) => ScansOfRows(t)'
    BY <1>1, <1>2, <2>1 DEF ScansOfRows
  <2>5. QED
    BY <1>1, <2>1, <2>3, <2>4 DEF ExportKept, Kept
<1>4. QED
  BY <1>2, <1>3, EndedExport

\* The members counted are those that the groups have.
LEMMA CountedMembers ==
    ASSUME MembersTyped, NEW t \in Exporters, CountKept(t),
           export[t] \in Export
    PROVE  VisibleMembers(export[t].groups) = export[t].counted
<1>1. VisibleMembers(export[t].groups) \subseteq ImageIds
  BY VisibleMembersTyped
<1>2. export[t].counted \subseteq ImageIds
  BY DEF Export
<1>3. \A i \in ImageIds : i \in VisibleMembers(export[t].groups) <=>
         i \in export[t].counted
  BY DEF CountKept, VisibleMembers, Rows
<1>4. QED
  BY <1>1, <1>2, <1>3

LEMMA LatestKeeps ==
    ASSUME TypesInvariant, NEW t \in Exporters, ExportKept(t), SelectLatest(t)
    PROVE  ExportKept(t)'
<1> DEFINE scanned == {i \in VisibleMembers(export[t].groups) :
                          Completed(i) # {}}
           ids == {Latest(i) : i \in scanned}
           r == [export[t] EXCEPT !.stage = "unscanned", !.picked = ids]
<1>0. export[t] \in Export /\ MembersTyped /\ ScansTyped
  BY DEF TypesInvariant, ExportsFit, ExportsTyped
<1>1. /\ r.stage = "unscanned" /\ r.picked = ids
      /\ r.counted = export[t].counted /\ r.groups = export[t].groups
      /\ r.member_count = export[t].member_count
      /\ r.calm = export[t].calm /\ r.rows = export[t].rows
  BY <1>0 DEF Export
<1>2. /\ UNCHANGED <<images, scans, members>> /\ export[t].stage = "latest"
      /\ \/ export' = [export EXCEPT ![t] = r]
         \/ export' = [export EXCEPT ![t] = NoExport]
  BY DEF SelectLatest, Step, library
<1>3. \A i \in scanned : \E s \in scans :
         s.id = Latest(i) /\ s.status = "completed" /\ s.image = i
  <2>1. TAKE i \in scanned
  <2>2. \E s \in Completed(i) : s.id = Latest(i)
    BY <1>0, LatestIs
  <2>3. QED
    BY <2>2 DEF Completed, ScansOf
<1>4. scanned \subseteq VisibleMembers(export[t].groups)
  OBVIOUS
<1> HIDE DEF scanned
<1>5. /\ \A p \in ids : \E s \in scans :
            s.id = p /\ s.status = "completed" /\ s.image \in scanned
      /\ \A s, u \in scans : s.id \in ids /\ u.id \in ids
                             /\ s.image = u.image => s = u
  <2>1. \A s, u \in scans : s.id = u.id => s = u
    BY <1>0 DEF ScansTyped
  <2>2. \A s \in scans : s.id \in ids => s.id = Latest(s.image)
    BY <1>3, <2>1
  <2>3. QED
    BY <1>3, <2>1, <2>2
<1> HIDE DEF ids, r
<1>6. CASE export' = [export EXCEPT ![t] = r]
  <2>1. export'[t] = r
    BY <1>6, OwnStep
  <2>2. CountKept(t) => CountKept(t)'
    BY <1>1, <1>2, <2>1 DEF CountKept, Visible, Exists
  <2>3. CountKept(t) => PicksKept(t)'
    <3>1. SUFFICES ASSUME CountKept(t)
                   PROVE  PicksKept(t)'
      OBVIOUS
    <3>2. scanned \subseteq export[t].counted
      BY <1>0, <1>4, <3>1, CountedMembers
    <3>3. QED
      BY <1>1, <1>2, <1>5, <2>1, <3>2 DEF PicksKept
  <2>4. ScansOfRows(t) => ScansOfRows(t)'
    BY <1>1, <1>2, <2>1 DEF ScansOfRows
  <2>5. QED
    BY <1>1, <1>2, <2>1, <2>2, <2>3, <2>4 DEF ExportKept, Kept
<1>7. QED
  BY <1>2, <1>6, EndedExport

\* The images of the scans picked are as many as the scans, and among those
\* counted.
LEMMA PickedImages ==
    ASSUME TypesInvariant, NEW t \in Exporters, PicksKept(t)
    PROVE  \E H \in SUBSET export[t].counted :
              /\ Cardinality(H) = Cardinality(export[t].picked)
              /\ \A i \in H : Completed(i) # {}
<1> DEFINE P == export[t].picked
           of == [p \in P |-> CHOOSE s \in scans : s.id = p]
           h == [p \in P |-> of[p].image]
           H == {h[p] : p \in P}
<1>0. ScansTyped /\ IsFiniteSet(P)
  BY DEF TypesInvariant, ExportsFit, ExportsTyped
<1>1. ASSUME NEW p \in P
      PROVE  /\ of[p] \in scans /\ of[p].id = p
             /\ of[p].status = "completed" /\ of[p].image \in export[t].counted
  <2>1. PICK s \in scans : /\ s.id = p /\ s.status = "completed"
                           /\ s.image \in export[t].counted
    BY DEF PicksKept
  <2>2. (CHOOSE x \in scans : x.id = p) = s
    BY <1>0, <2>1 DEF ScansTyped
  <2>3. QED
    BY <2>1, <2>2
<1>2. \A p \in P : h[p] = of[p].image
  OBVIOUS
<1> HIDE DEF of, h
<1>3. \A p, u \in P : h[p] = h[u] => p = u
  BY <1>1, <1>2 DEF PicksKept
<1>4. Cardinality(H) = Cardinality(P)
  BY <1>0, <1>3, InjectiveImage
<1>5. H \subseteq export[t].counted
  BY <1>1, <1>2
<1>6. \A i \in H : Completed(i) # {}
  BY <1>1, <1>2 DEF Completed, ScansOf
<1> HIDE DEF H
<1>7. QED
  BY <1>4, <1>5, <1>6

LEMMA ListKeeps ==
    ASSUME TypesInvariant, NEW t \in Exporters, ExportKept(t), ListUnscanned(t)
    PROVE  ExportKept(t)'
<1> DEFINE none == {i \in VisibleMembers(export[t].groups) :
                       Completed(i) = {}}
           r == [export[t] EXCEPT !.stage = "scans",
                                  !.listed = Cardinality(none)]
<1>0. /\ export[t] \in Export /\ MembersTyped /\ ScansTyped
      /\ IsFiniteSet(export[t].picked)
  BY DEF TypesInvariant, ExportsFit, ExportsTyped
<1>1. /\ r.stage = "scans" /\ r.listed = Cardinality(none)
      /\ r.picked = export[t].picked
      /\ r.counted = export[t].counted /\ r.groups = export[t].groups
      /\ r.member_count = export[t].member_count
      /\ r.calm = export[t].calm /\ r.rows = export[t].rows
  BY <1>0 DEF Export
<1>2. /\ UNCHANGED <<images, scans, members>> /\ export[t].stage = "unscanned"
      /\ export' = [export EXCEPT ![t] = r]
  BY DEF ListUnscanned, Step, library
<1>3. none \subseteq VisibleMembers(export[t].groups)
      /\ \A i \in none : Completed(i) = {}
  OBVIOUS
<1> HIDE DEF none, r
<1>4. export'[t] = r
  BY <1>2, OwnStep
<1>5. CountKept(t) => CountKept(t)'
  BY <1>1, <1>2, <1>4 DEF CountKept, Visible, Exists
<1>6. PicksKept(t) => PicksKept(t)'
  BY <1>1, <1>2, <1>4 DEF PicksKept
<1>7. CountKept(t) /\ PicksKept(t) => ListKept(t)'
  <2>1. SUFFICES ASSUME CountKept(t), PicksKept(t)
                 PROVE  ListKept(t)'
    OBVIOUS
  <2> DEFINE C == export[t].counted
  <2>2. C = VisibleMembers(export[t].groups) /\ none \in SUBSET C
    BY <1>0, <1>3, <2>1, CountedMembers
  <2>3. IsFiniteSet(C)
    BY <1>0, <2>2, VisibleMembersTyped
  <2>4. PICK H \in SUBSET C :
           /\ Cardinality(H) = Cardinality(export[t].picked)
           /\ \A i \in H : Completed(i) # {}
    BY <2>1, PickedImages
  <2>5. H \cap none = {} /\ H \cup none \in SUBSET C
    BY <1>3, <2>2, <2>4
  <2>6. IsFiniteSet(H) /\ IsFiniteSet(none)
    BY <2>2, <2>3, FS_Subset
  <2>7. Cardinality(H \cup none) = Cardinality(H) + Cardinality(none) - 0
    BY <2>5, <2>6, FS_Union, FS_EmptySet
  <2>8. Cardinality(H \cup none) <= Cardinality(C)
    BY <2>3, <2>5, FS_Subset
  <2>9. /\ Cardinality(H) \in Nat /\ Cardinality(none) \in Nat
        /\ Cardinality(C) \in Nat
    BY <2>3, <2>6, FS_CardinalityType
  <2>10. export[t].member_count = Cardinality(C)
    BY <2>1 DEF CountKept
  <2>11. Cardinality(none) + Cardinality(export[t].picked)
            <= export[t].member_count
    BY <2>4, <2>7, <2>8, <2>9, <2>10
  <2>12. QED
    BY <1>1, <1>4, <2>11 DEF ListKept
<1>8. ScansOfRows(t) => ScansOfRows(t)'
  BY <1>1, <1>2, <1>4 DEF ScansOfRows
<1>9. QED
  BY <1>1, <1>2, <1>4, <1>5, <1>6, <1>7, <1>8 DEF ExportKept, Kept

LEMMA ReadKeeps ==
    ASSUME TypesInvariant, NEW t \in Exporters, ExportKept(t), ReadScans(t)
    PROVE  ExportKept(t)'
<1> DEFINE R == PickedRows(t)
           r == [export[t] EXCEPT !.stage = "findings", !.rows = R]
<1>0. /\ export[t] \in Export /\ MembersTyped /\ ScansTyped
  BY DEF TypesInvariant, ExportsFit, ExportsTyped
<1>1. /\ r.stage = "findings" /\ r.rows = R /\ r.listed = export[t].listed
      /\ r.picked = export[t].picked
      /\ r.counted = export[t].counted /\ r.groups = export[t].groups
      /\ r.member_count = export[t].member_count
      /\ r.calm = export[t].calm
  BY <1>0 DEF Export
<1>2. /\ UNCHANGED <<images, scans, members>> /\ export[t].stage = "scans"
      /\ \/ export' = [export EXCEPT ![t] = r]
         \/ export' = [export EXCEPT ![t] = NoExport]
  BY ReadScansIs DEF ReadScans, Step, library
<1>3. /\ \A row \in R : \E s \in scans :
            s.id \in export[t].picked /\ row = RowOf(s)
      /\ \A s \in scans : s.id \in export[t].picked => RowOf(s) \in R
  BY DEF PickedRows
<1> HIDE DEF R, r
<1>4. \A s \in scans : /\ RowOf(s).scan = s.id /\ RowOf(s).image = s.image
                       /\ RowOf(s).done <=> s.status = "completed"
                       /\ RowOf(s).content = s.content
  BY DEF RowOf
<1>5. \A s, u \in scans : s.id = u.id => s = u
  BY <1>0 DEF ScansTyped
<1>6. \A a, b \in R : a.scan = b.scan => a = b
  BY <1>3, <1>4, <1>5
<1>7. CASE export' = [export EXCEPT ![t] = r]
  <2>1. export'[t] = r
    BY <1>7, OwnStep
  <2>2. CountKept(t) => CountKept(t)'
    BY <1>1, <1>2, <2>1 DEF CountKept, Visible, Exists
  <2>3. PicksKept(t) => PicksKept(t)'
    BY <1>1, <1>2, <2>1 DEF PicksKept
  <2>4. ListKept(t) => ListKept(t)'
    BY <1>1, <2>1 DEF ListKept
  <2>5. PicksKept(t) => RowsKept(t)'
    <3>1. SUFFICES ASSUME PicksKept(t)
                   PROVE  RowsKept(t)'
      OBVIOUS
    <3>2. \A p \in export[t].picked : \E s \in scans :
             s.id = p /\ s.status = "completed"
      BY <3>1 DEF PicksKept
    <3>3. \A row \in R : row.scan \in export[t].picked /\ row.done
      BY <1>3, <1>4, <1>5, <3>2
    <3>4. \A p \in export[t].picked : \E row \in R : row.scan = p
      BY <1>3, <1>4, <3>2
    <3>5. QED
      BY <1>1, <2>1, <3>3, <3>4 DEF RowsKept
  <2>6. ScansOfRows(t)'
    BY <1>1, <1>2, <1>3, <1>4, <2>1 DEF ScansOfRows
  <2>7. QED
    BY <1>1, <1>2, <1>6, <2>1, <2>2, <2>3, <2>4, <2>5, <2>6
       DEF ExportKept, Kept
<1>8. QED
  BY <1>2, <1>7, EndedExport

LEMMA ExportStepKeeps ==
    ASSUME TypesInvariant, NEW t \in Exporters, ExportKept(t), ExportStep(t)
    PROVE  ExportKept(t)'
<1>1. ASSUME NEW gs \in SUBSET Groups, SelectGroups(t, gs)
      PROVE  ExportKept(t)'
  <2> DEFINE r == [NoExport EXCEPT !.stage = "count", !.groups = gs]
  <2>1. r.stage = "count" /\ r.rows = {}
    BY DEF NoExport
  <2>2. export' = [export EXCEPT ![t] = r]
    BY <1>1 DEF SelectGroups, Step
  <2> HIDE DEF r
  <2>3. QED
    BY <2>1, <2>2, OwnStep, FreshExport
<1>2. ASSUME NEW ids \in SUBSET {s.id : s \in scans}, SelectScans(t, ids)
      PROVE  ExportKept(t)'
  <2> DEFINE r == [NoExport EXCEPT !.stage = "scans", !.picked = ids]
  <2>1. r.groups = {} /\ r.rows = {}
    BY DEF NoExport
  <2>2. export' = [export EXCEPT ![t] = r]
    BY <1>2 DEF SelectScans, Step
  <2> HIDE DEF r
  <2>3. QED
    BY <2>1, <2>2, OwnStep, FreshExport
<1>3. CASE ReadFindings(t)
  BY <1>3, EndedExport DEF ReadFindings, Step
<1>4. QED
  BY <1>1, <1>2, <1>3, CountKeeps, LatestKeeps, ListKeeps, ReadKeeps
     DEF ExportStep

(***************************************************************************)
(* Files.                                                                  *)
(***************************************************************************)
LEMMA ReportFields ==
    ASSUME NEW row
    PROVE  /\ ReportOf(row).scan = row.scan /\ ReportOf(row).image = row.image
           /\ ReportOf(row).done = row.done
           /\ ReportOf(row).content = row.content
           /\ ReportOf(row).found = FoundNow(row.scan)
  BY DEF ReportOf

LEMMA FileFields ==
    ASSUME NEW t
    PROVE  /\ FileOf(t).groups = export[t].groups
           /\ FileOf(t).counted = export[t].counted
           /\ FileOf(t).member_count = export[t].member_count
           /\ FileOf(t).included_scan_count = Cardinality(export[t].picked)
           /\ FileOf(t).unscanned_member_count =
                 export[t].member_count - Cardinality(export[t].picked)
           /\ FileOf(t).listed = export[t].listed
           /\ FileOf(t).reports = {ReportOf(row) : row \in export[t].rows}
           /\ FileOf(t).calm = export[t].calm
  BY DEF FileOf

\* A report with findings that are not its scan's, in an export that nothing
\* disturbed, is of a scan that came with them.
LEMMA CalmReports ==
    ASSUME TypesInvariant, TornScans, NEW t \in Exporters, ScansOfRows(t),
           NEW row \in export[t].rows, row.done, Torn(ReportOf(row))
    PROVE  TornBefore(ReportOf(row))
<1>1. PICK s \in scans : /\ s.id = row.scan /\ s.status = "completed"
                         /\ s.content = row.content
  BY DEF ScansOfRows
<1>2. FoundNow(row.scan) = s.found
  BY <1>1, FoundIs DEF TypesInvariant
<1>3. /\ ReportOf(row).content = s.content /\ ReportOf(row).found = s.found
  BY <1>1, <1>2, ReportFields
<1>4. TornBefore(s)
  BY <1>1, <1>3 DEF TornScans, Torn
<1>5. QED
  BY <1>3, <1>4 DEF TornBefore

LEMMA SnapshotFile ==
    ASSUME TypesInvariant, TornScans, NEW t \in Exporters, ExportKept(t),
           export[t].stage = "findings", export[t].calm,
           export[t].groups # {},
           NEW f, f = FileOf(t)
    PROVE  /\ SelectionAccepted(f)
           /\ f.member_count = Cardinality(f.counted)
           /\ f.listed <= f.unscanned_member_count
           /\ \A r \in f.reports : /\ r.image \in f.counted
                                   /\ Torn(r) => TornBefore(r)
           /\ \A r, p \in f.reports : r.image = p.image => r = p
<1> DEFINE R == export[t].rows
           P == export[t].picked
<1>0. /\ export[t] \in Export /\ ScansTyped /\ ExportsTyped
      /\ IsFiniteSet(P)
  BY DEF TypesInvariant, ExportsFit, ExportsTyped
<1>1. /\ CountKept(t) /\ PicksKept(t) /\ ListKept(t) /\ RowsKept(t)
      /\ ScansOfRows(t) /\ \A a, b \in R : a.scan = b.scan => a = b
  BY DEF ExportKept, Kept
<1>2. /\ f.groups = export[t].groups /\ f.counted = export[t].counted
      /\ f.member_count = export[t].member_count
      /\ f.included_scan_count = Cardinality(P)
      /\ f.unscanned_member_count = export[t].member_count - Cardinality(P)
      /\ f.listed = export[t].listed
      /\ f.reports = {ReportOf(row) : row \in R}
  BY FileFields
<1>3. /\ Cardinality(P) \in Nat /\ export[t].member_count \in Nat
      /\ export[t].listed \in Nat
  BY <1>0, FS_CardinalityType DEF Export
<1>4. ASSUME NEW row \in R
      PROVE  /\ row.done /\ row.scan \in P
             /\ \E s \in scans : /\ s.id = row.scan /\ s.image = row.image
                                 /\ s.image \in export[t].counted
  <2>1. row.done /\ row.scan \in P
    BY <1>1 DEF RowsKept
  <2>2. PICK s \in scans : s.id = row.scan /\ s.image = row.image
    BY <1>1 DEF ScansOfRows
  <2>3. PICK u \in scans : u.id = row.scan /\ u.image \in export[t].counted
    BY <1>1, <2>1 DEF PicksKept
  <2>4. s = u
    BY <1>0, <2>2, <2>3 DEF ScansTyped
  <2>5. QED
    BY <2>1, <2>2, <2>3, <2>4
<1>5. Cardinality(f.reports) = Cardinality(P)
  <2> DEFINE Q == f.reports
             g == [r \in Q |-> r.scan]
  <2>1. IsFiniteSet(Q)
    BY <1>0, ReportsTyped
  <2>2. \A r \in Q : g[r] = r.scan
    OBVIOUS
  <2>3. \A r \in Q : \E row \in R : r = ReportOf(row) /\ r.scan = row.scan
    BY <1>2, ReportFields
  <2>4. \A row \in R : \E r \in Q : r.scan = row.scan
    BY <1>2, ReportFields
  <2> HIDE DEF g, Q
  <2>5. \A r, p \in Q : g[r] = g[p] => r = p
    BY <1>1, <2>2, <2>3
  <2>6. {g[r] : r \in Q} = P
    <3>1. \A r \in Q : g[r] \in P
      BY <1>4, <2>2, <2>3
    <3>2. \A p \in P : \E r \in Q : g[r] = p
      BY <1>1, <2>2, <2>4 DEF RowsKept
    <3>3. QED
      BY <3>1, <3>2
  <2>7. Cardinality(Q) = Cardinality({g[r] : r \in Q})
    BY <2>1, <2>5, InjectiveImage
  <2>8. QED
    BY <2>6, <2>7 DEF Q
<1>6. SelectionAccepted(f)
  <2>1. SelectionValid(f)
    BY <1>1, <1>2, <1>3, <1>5 DEF SelectionValid, ListKept
  <2>2. \A r \in f.reports : r.done
    BY <1>2, <1>4, ReportFields
  <2>3. QED
    BY <2>1, <2>2 DEF SelectionAccepted
<1>7. f.member_count = Cardinality(f.counted)
  BY <1>1, <1>2 DEF CountKept
<1>8. f.listed <= f.unscanned_member_count
  BY <1>1, <1>2, <1>3 DEF ListKept
<1>9. ASSUME NEW r \in f.reports
      PROVE  r.image \in f.counted /\ (Torn(r) => TornBefore(r))
  <2>1. PICK row \in R : r = ReportOf(row)
    BY <1>2
  <2>2. r.image \in f.counted
    BY <1>2, <1>4, <2>1, ReportFields
  <2>3. Torn(r) => TornBefore(r)
    BY <1>1, <1>4, <2>1, CalmReports
  <2>4. QED
    BY <2>2, <2>3
<1>10. ASSUME NEW r \in f.reports, NEW p \in f.reports, r.image = p.image
       PROVE  r = p
  <2>1. PICK a \in R : r = ReportOf(a) /\ r.image = a.image
    BY <1>2, ReportFields
  <2>2. PICK b \in R : p = ReportOf(b) /\ p.image = b.image
    BY <1>2, ReportFields
  <2>3. PICK s \in scans : s.id = a.scan /\ s.image = a.image
    BY <1>4
  <2>4. PICK u \in scans : u.id = b.scan /\ u.image = b.image
    BY <1>4
  <2>5. s = u
    BY <1>1, <1>4, <1>10, <2>1, <2>2, <2>3, <2>4 DEF PicksKept
  <2>6. a = b
    BY <1>1, <2>3, <2>4, <2>5
  <2>7. QED
    BY <2>1, <2>2, <2>6
<1>11. QED
  BY <1>6, <1>7, <1>8, <1>9, <1>10

\* What was torn before stays so: files are not deleted.
LEMMA TornForGood ==
    ASSUME [Next]_vars
    PROVE  \A r : TornBefore(r) => TornBefore(r)'
  BY FilesGrow DEF TornBefore

LEMMA NextTornReports ==
    ASSUME SnapshotInvariant, [Next]_vars
    PROVE  TornReports'
<1>0. TypesInvariant /\ TornScans /\ \A t \in Exporters : ExportKept(t)
  BY DEF SnapshotInvariant
<1>1. ASSUME NEW f \in files, NEW r \in f.reports, r.done, Torn(r)
      PROVE  TornBefore(r)'
  BY <1>1, TornForGood DEF SnapshotInvariant, TornReports
<1>2. ASSUME NEW t \in Exporters, files' = files \cup {FileOf(t)},
             NEW r \in FileOf(t).reports, r.done, Torn(r)
      PROVE  TornBefore(r)'
  <2>1. CASE export[t].calm
    <3>1. PICK row \in export[t].rows : r = ReportOf(row)
      BY FileFields
    <3>2. row.done
      BY <1>2, <3>1, ReportFields
    <3>3. ScansOfRows(t)
      BY <1>0, <2>1 DEF ExportKept
    <3>4. TornBefore(r)
      BY <1>0, <1>2, <3>1, <3>2, <3>3, CalmReports
    <3>5. QED
      BY <3>4, TornForGood
  <2>2. CASE ~export[t].calm
    <3>1. FileOf(t) \in files' /\ ~FileOf(t).calm
      BY <1>2, <2>2, FileFields
    <3>2. QED
      BY <1>2, <3>1 DEF TornBefore
  <2>3. QED
    BY <2>1, <2>2
<1>3. CASE UNCHANGED files
  BY <1>1, <1>3 DEF TornReports, Torn
<1>4. ASSUME NEW t \in Exporters, files' = files \cup {FileOf(t)}
      PROVE  TornReports'
  <2>1. SUFFICES ASSUME NEW f \in files', NEW r \in f.reports, r.done, Torn(r)
                 PROVE  TornBefore(r)'
    BY DEF TornReports, Torn
  <2>2. CASE f \in files
    BY <1>1, <2>1, <2>2
  <2>3. CASE f = FileOf(t)
    BY <1>2, <1>4, <2>1, <2>3
  <2>4. QED
    BY <1>4, <2>2, <2>3
<1>5. QED
  BY <1>3, <1>4, ExportSteps, FileSteps

LEMMA NextTornScans ==
    ASSUME SnapshotInvariant, [Next]_vars
    PROVE  TornScans'
<1>0. /\ TypesInvariant /\ TornScans /\ TornReports
      /\ FilesTyped /\ ImportsTyped
  BY DEF SnapshotInvariant, TypesInvariant, ExportsFit
<1>1. CASE \A s \in scans' : s.status = "completed" /\ Torn(s) => s \in scans
  BY <1>0, <1>1, TornForGood DEF TornScans, Torn
<1>2. ASSUME NEW i \in ImageIds, AdmitScan(i)
      PROVE  TornScans'
  <2>1. \A s \in scans' : s \in scans \/ s.status = "active"
    BY <1>2 DEF AdmitScan
  <2>2. QED
    BY <1>1, <2>1
<1>3. ASSUME NEW s \in scans, CompleteScan(s)
      PROVE  TornScans'
  <2>1. \A x \in scans' : x \in scans \/ x.found = x.content
    BY <1>3 DEF CompleteScan
  <2>2. QED
    BY <1>1, <2>1 DEF Torn
<1>4. ASSUME NEW q \in Importers, ImportCommits(q)
      PROVE  TornScans'
  <2>1. PICK id, home :
           scans' = scans \cup
              {ScanOf(m, id[m], home[m]) : m \in NewMarkers(q)}
    BY <1>0, <1>4, CommitScans
  <2>2. PICK f \in files : import[q].file = {f} /\ SelectionAccepted(f)
    BY <1>0, <1>4 DEF ImportCommits, ImportsTyped
  <2>3. ASSUME NEW m \in NewMarkers(q), Torn(m)
        PROVE  TornBefore(m)
    <3>1. PICK r \in f.reports : m = MarkerOf(r, f)
      BY <2>2 DEF NewMarkers, Markers
    <3>2. r.done /\ m.content = r.content /\ m.found = r.found
      BY <2>2, <3>1 DEF MarkerOf, SelectionAccepted
    <3>3. TornBefore(r)
      BY <1>0, <2>3, <3>2 DEF TornReports, Torn
    <3>4. QED
      BY <3>2, <3>3 DEF TornBefore
  <2>4. SUFFICES ASSUME NEW s \in scans', s.status = "completed", Torn(s)
                 PROVE  TornBefore(s)'
    BY DEF TornScans, Torn
  <2>5. CASE s \in scans
    BY <1>0, <2>4, <2>5, TornForGood DEF TornScans
  <2>6. CASE s \notin scans
    <3>1. PICK m \in NewMarkers(q) : s = ScanOf(m, id[m], home[m])
      BY <2>1, <2>4, <2>6
    <3>2. s.content = m.content /\ s.found = m.found
      BY <3>1 DEF ScanOf
    <3>3. TornBefore(s)
      BY <2>3, <2>4, <3>2 DEF Torn, TornBefore
    <3>4. QED
      BY <3>3, TornForGood
  <2>7. QED
    BY <2>5, <2>6
<1>5. ASSUME NEW i \in ImageIds, RemoveImage(i)
      PROVE  TornScans'
  BY <1>1, <1>5 DEF RemoveImage
<1>6. ASSUME NEW s \in scans, RemoveScan(s)
      PROVE  TornScans'
  BY <1>1, <1>6 DEF RemoveScan
<1>7. QED
  BY <1>1, <1>2, <1>3, <1>4, <1>5, <1>6, ScanSteps

LEMMA NextRoundTrips ==
    ASSUME SnapshotInvariant, [Next]_vars
    PROVE  CalmExportsAddUp'
<1>0. /\ TypesInvariant /\ TornScans /\ CalmExportsAddUp
      /\ \A t \in Exporters : ExportKept(t)
  BY DEF SnapshotInvariant
<1>1. SUFFICES ASSUME NEW f \in files', f.calm, Selected(f)
               PROVE  /\ SelectionAccepted(f)
                      /\ f.member_count = Cardinality(f.counted)
                      /\ f.listed <= f.unscanned_member_count
                      /\ \A r \in f.reports : /\ r.image \in f.counted
                                              /\ Torn(r) => TornBefore(r)'
                      /\ \A r, p \in f.reports : r.image = p.image => r = p
  BY DEF CalmExportsAddUp, Selected, SelectionAccepted, SelectionValid, Torn
<1>2. CASE f \in files
  BY <1>0, <1>1, <1>2, TornForGood DEF CalmExportsAddUp
<1>3. ASSUME NEW t \in Exporters, ReadFindings(t), f = FileOf(t)
      PROVE  /\ SelectionAccepted(f)
             /\ f.member_count = Cardinality(f.counted)
             /\ f.listed <= f.unscanned_member_count
             /\ \A r \in f.reports : /\ r.image \in f.counted
                                     /\ Torn(r) => TornBefore(r)'
             /\ \A r, p \in f.reports : r.image = p.image => r = p
  <2>1. /\ export[t].stage = "findings" /\ export[t].calm
        /\ export[t].groups # {}
    BY <1>1, <1>3, FileFields DEF ReadFindings, Step, Selected
  <2>2. /\ SelectionAccepted(f)
        /\ f.member_count = Cardinality(f.counted)
        /\ f.listed <= f.unscanned_member_count
        /\ \A r \in f.reports : /\ r.image \in f.counted
                                /\ Torn(r) => TornBefore(r)
        /\ \A r, p \in f.reports : r.image = p.image => r = p
    BY <1>0, <1>3, <2>1, SnapshotFile
  <2>3. QED
    BY <2>2, TornForGood
<1>4. QED
  BY <1>1, <1>2, <1>3, ExportSteps, FileSteps

(***************************************************************************)
(* The snapshots hold.                                                     *)
(***************************************************************************)
LEMMA InitSnapshots == Init => SnapshotInvariant
<1>1. SUFFICES ASSUME Init
               PROVE  SnapshotInvariant
  OBVIOUS
<1>2. TypesInvariant
  BY <1>1, InitTypes
<1>3. export = [t \in Exporters |-> NoExport] /\ files = {}
  BY <1>1 DEF Init
<1>4. \A t \in Exporters : ExportKept(t)
  <2>1. TAKE t \in Exporters
  <2>2. export[t] = NoExport
    BY <1>3
  <2>3. QED
    BY <2>2, NoExportTyped DEF ExportKept, Kept, ScansOfRows
<1>5. TornScans
  <2>1. PICK scanned \in SUBSET Archives :
           \E imported \in {{}} \cup {{k} : k \in scanned} :
              scans = {OldScan(i, i, NotImported) : i \in scanned}
                         \cup {OldScan(FirstReport, k, OldMarker(k)) :
                                  k \in imported}
    BY <1>1 DEF Init
  <2>2. \A s \in scans : s.found = s.content
    BY <2>1 DEF OldScan
  <2>3. QED
    BY <2>2 DEF TornScans, Torn
<1>6. TornReports /\ CalmExportsAddUp
  BY <1>3 DEF TornReports, CalmExportsAddUp
<1>7. QED
  BY <1>2, <1>4, <1>5, <1>6 DEF SnapshotInvariant

LEMMA NextSnapshots == SnapshotInvariant /\ [Next]_vars => SnapshotInvariant'
<1>1. SUFFICES ASSUME SnapshotInvariant, [Next]_vars
               PROVE  SnapshotInvariant'
  OBVIOUS
<1>2. TypesInvariant /\ \A t \in Exporters : ExportKept(t)
  BY <1>1 DEF SnapshotInvariant
<1>3. ASSUME NEW t \in Exporters
      PROVE  ExportKept(t)'
  <2>1. CASE Disturb
    BY <1>2, <2>1, DisturbedExport
  <2>2. CASE CalmStep /\ export'[t] = export[t]
    BY <1>2, <2>2, CalmKeepsExport
  <2>3. ASSUME NEW u \in Exporters, ExportStep(u), u # t
        PROVE  export'[t] = export[t]
    <3>1. \E r : export' = [export EXCEPT ![u] = r]
      BY <2>3 DEF ExportStep, SelectGroups, SelectScans, CountMembers,
                  SelectLatest, ListUnscanned, ReadScans, ReadFindings, Step
    <3>2. QED
      BY <1>2, <2>3, <3>1 DEF TypesInvariant, ExportsFit, ExportsTyped
  <2>4. CASE ExportStep(t)
    BY <1>2, <2>4, ExportStepKeeps
  <2>5. QED
    BY <1>1, <1>2, <2>1, <2>2, <2>3, <2>4, StepsAreCalm, ExportSteps
<1>4. TypesInvariant'
  BY <1>1, <1>2, NextTypes
<1>5. QED
  BY <1>1, <1>3, <1>4, NextTornScans, NextTornReports, NextRoundTrips
     DEF SnapshotInvariant

\* The inductive invariant of exports.
THEOREM SnapshotsInductive == Spec => []SnapshotInvariant
<1>1. QED
  BY InitSnapshots, NextSnapshots, PTL DEF Spec

\* The file of an export of groups that nothing disturbed is a snapshot of the
\* visible members, whose selection adds up as an import checks it.
THEOREM CalmExportsAreSnapshots == Spec => []CalmExportsAddUp
<1>1. SnapshotInvariant => CalmExportsAddUp
  BY DEF SnapshotInvariant
<1>2. QED
  BY <1>1, SnapshotsInductive, PTL
===============================================================================
