CONSTANTS
  Client = {c1, c2}
  None = None
  NoResult = NoResult
  Protocol = TRUE
  Producer = {p1, p2}
  Sub = {s1}
  Event = {e1, e2}
  Critical = {e1, e2}
  Topic = {t1}
  Capacity = 1
  Closer = Closer
SPECIFICATION ServingSpec
CHECK_DEADLOCK FALSE
INVARIANTS ServesWhenReady ExitExplained ReleasesAll
PROPERTY EverybodyEnds
