CONSTANTS
  m1 = m1
  m2 = m2
  m3 = m3
  w1 = w1
  w2 = w2
  a1 = a1
  a2 = a2
  None = None
  Images <- TwoImages
  Uploaded <- OneImage
  Workers <- OneWorker
  Admins <- OneAdmin
  MaxPending = 2
  MaxScans = 3
  MaxCrashes = 0
  MaxMaintenance = 0
SPECIFICATION SafeSpec
\* The system is at rest while nobody makes a request.
CHECK_DEADLOCK FALSE
INVARIANTS
  OneActivePerImage
PROPERTIES
  ActiveNotRemoved
  SettledIsFinal
