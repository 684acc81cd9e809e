CONSTANTS
  t1 = t1
  Producer = {1, 2, 3}
  Sub = {s1}
  Event = {1, 2, 3, 4}
  Topic = {t1}
  TopicsOf <- OneTopicOf
  Critical = {1, 2, 3}
  Capacity = 2
  Shutdown = Shutdown
  None = None
  Process = {a1, a2}
  Ride = {r1, r2}
  Driver = {d1}
  Absent = Absent
  Faults = TRUE
  MaxSending = 2
SPECIFICATION EventsSpec
SYMMETRY Symmetry
CHECK_DEADLOCK FALSE
INVARIANTS RefillIsSafe ProjectionHolds
PROPERTY CriticalNotLost
