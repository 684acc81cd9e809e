CONSTANTS
  Ingest = {a1, a2, a3}
  Search = {n1}
  Share = {p1, p2, p3}
  Read = {g1}
  TTL = 2
  MaxTime = 3
  Faults = TRUE
  RideTime = 1
  None = None
SPECIFICATION DriversSpec
SYMMETRY Symmetry
CHECK_DEADLOCK FALSE
INVARIANTS NothingWrittenOffline PointsHold
PROPERTY NeverOlder
