CONSTANTS
  d1 = d1
  r1 = r1
  r2 = r2
  None = None
  Driver = {d1}
  Ride = {r1, r2}
  DriverOf <- MCDriverOf
  Fare <- MCFare
  PlatformBPS = 5000
  RecordedBPS = {None, 10000}
  MaxInt = 30000
  Claim <- MCClaim
  Request = {q1, q2}
  Passenger = {p1}
  Bidder = {b1}
  Session = {s1, s2, s3}
  Open = {s1}
  Booked = {k1, k2}
  Tx = {t1, t2}
  Ops = {"AcceptOffer", "PlaceOffer", "CreateSession", "CreateRide", "CancelSession", "AcceptRide"}
  MaxActive = 1
  Savers = {u1}
  Togglers = {g1, g2}
  Accepters = {a1}
  Vehicles = {v1, v2}
SPECIFICATION TransactionsSpec
CHECK_DEADLOCK FALSE
INVARIANTS BooksAgree WalletIsLedger
PROPERTY EveryTransactionEnds
