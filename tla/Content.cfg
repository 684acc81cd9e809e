CONSTANTS
  Savers = {s1, s2}
  Togglers = {t1, t2}
  Accepters = {q1, q2, q3, q4}
  Vehicles = {v1, v2}
  MaxRides = 2
  Talker = {q1, q2, q3, q4}
  ChatTime = 2
  Passenger = p
  Driver = d
  Stranger = x
  Rater = {q1, q2, q3, q4}
  Ride = {1, 2, 3}
  Rating = {"low", "high"}
  PageSize = 1
  MaxClock = 2
  Blank = Blank
  Avatars = {a1, a2}
  Documents = {d1}
  Readers = {g1}
  LegacyKey = legacy
  NoKey = NoKey
  None = None
SPECIFICATION ContentSpec
SYMMETRY Symmetry
CHECK_DEADLOCK FALSE
INVARIANTS RideHasItsDriver MessagesHold ReviewsStand StorageHolds
PROPERTY NeverTurnsBack
