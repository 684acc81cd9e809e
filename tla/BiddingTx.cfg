CONSTANTS
  p1 = p1
  p2 = p2
  p3 = p3
  d1 = d1
  d2 = d2
  s1 = s1
  s2 = s2
  r1 = r1
  r2 = r2
  r3 = r3
  Passenger = {p1, p2, p3}
  Driver = {d1, d2}
  Session = {s1, s2}
  Ride = {r1, r2, r3}
  Tx = {t1, t2, t3}
  Ops = {"AcceptOffer", "PlaceOffer", "CreateSession", "CreateRide", "CancelSession", "AcceptRide"}
  MaxActive = 2
  None = None
  Scenes <- SafetyScenes
SPECIFICATION MCSpec
SYMMETRY Symmetry
CHECK_DEADLOCK FALSE
INVARIANTS TypeOK OneActiveBooking CapacityRespected AcceptanceConsistent
PROPERTIES DecidedOnce RefinesBidding
