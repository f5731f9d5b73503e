--------------------------- MODULE MC_ScanManager ---------------------------
(* Small instances of the scan dispatcher for TLC. *)
EXTENDS ScanManager, TLC

CONSTANTS m1, m2, m3, w1, w2, a1, a2

OneImage == {m1}
TwoImages == {m1, m2}
ThreeImages == {m1, m2, m3}
OneWorker == {w1}
TwoWorkers == {w1, w2}
NoAdmin == {}
OneAdmin == {a1}
TwoAdmins == {a1, a2}
NoImages == {}

\* Workers are interchangeable, and so are images that are all mounted; sound
\* for the invariants and for the step-by-step properties.
Symmetry == Permutations(TwoWorkers) \cup Permutations(ThreeImages)
==============================================================================
