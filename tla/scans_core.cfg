CONSTANTS
  m1 = m1
  m2 = m2
  m3 = m3
  w1 = w1
  w2 = w2
  a1 = a1
  a2 = a2
  None = None
  Images <- ThreeImages
  Uploaded <- NoImages
  Workers <- TwoWorkers
  Admins <- NoAdmin
  MaxPending = 2
  MaxScans = 3
  MaxCrashes = 1
  MaxMaintenance = 1
SPECIFICATION SafeSpec
SYMMETRY Symmetry
\* The system is at rest while nobody makes a request.
CHECK_DEADLOCK FALSE
INVARIANTS
  TypeOK
  WithinCapacity
  NoStrandedScan
  DispatchExact
  ResultsMatchImage
  MaintenanceAlone
  FifoQueue
PROPERTIES
  ImplementsLedger
