--------------------------- MODULE MCTransactions ---------------------------
(* The books of Settlement, and that everybody who waits for a row of PostgreSQL
   gets an answer: bookings (BiddingTx), settlements and the requests on a driver's
   profile (DriverPresence). Each behaviour moves one of the three. *)
EXTENDS Settlement, TLC

CONSTANTS d1, r1, r2,
          Passenger, Bidder, Session, Open, Booked, Tx, Ops, MaxActive,
          Savers, Togglers, Accepters, Vehicles

VARIABLES
  focus,  \* "booking", "cash" or "profile"
  sStatus, sOwner, sTarget, sDriver, sClock, oStatus,
  rStatus, rOwner, rDriver, rSession, present, tx,               \* BiddingTx
  online, fresh, vehicle, ride, userRow, profileRow, pc, input, count   \* DriverPresence

Booking == INSTANCE BiddingTx WITH Driver <- Bidder, Ride <- Booked, online <- present
Profile == INSTANCE DriverPresence WITH MaxRides <- MaxActive

bookingVars == <<sStatus, sOwner, sTarget, sDriver, sClock, oStatus,
                 rStatus, rOwner, rDriver, rSession, present, tx>>
profileVars == <<online, fresh, vehicle, ride, userRow, profileRow, pc, input, count>>

MCDriverOf == [r \in Ride |-> d1]
MCFare == (r1 :> 3 @@ r2 :> 2)

Says(outcome, received, change) ==
  [outcome |-> outcome, received |-> received, change |-> change]

\* The fare of r1 with change, that of r2, a part of r1's, money returned, and more change than money.
MCClaim == {Says("paid", 4, 1), Says("paid", 2, 0), Says("partial", 2, 0), Says("unpaid", 1, 1),
            Says("paid", 1, 2)}

\* The sessions of Open are open and every driver has bid on them.
BookingInit ==
  /\ sStatus  = [s \in Session |-> IF s \in Open THEN "open" ELSE "absent"]
  /\ \E p \in Passenger : sOwner = [s \in Session |-> IF s \in Open THEN p ELSE None]
  /\ sTarget  = [s \in Session |-> None]
  /\ sDriver  = [s \in Session |-> None]
  /\ sClock   = [s \in Session |-> "before"]
  /\ oStatus  = [s \in Session |-> [d \in Bidder |-> IF s \in Open THEN "pending" ELSE "none"]]
  /\ rStatus  = [r \in Booked |-> "absent"]
  /\ rOwner   = [r \in Booked |-> None]
  /\ rDriver  = [r \in Booked |-> None]
  /\ rSession = [r \in Booked |-> None]
  /\ present  = Bidder
  /\ tx = [t \in Tx |-> Booking!Idle]

TransactionsInit ==
  /\ focus \in {"booking", "cash", "profile"}
  /\ Init /\ BookingInit /\ Profile!Init
  /\ focus # "profile" => vehicle = CHOOSE v \in Vehicles : TRUE
  /\ record[r1].bps = None /\ (focus # "cash" => record[r2].bps = None)

\* Where the row of r2 leaves the driver nothing, only r2 is settled.
NothingToPay == record[r2].bps = 10000 => \A q \in Request : req'[q].r # r1

TransactionsNext ==
  /\ \/ focus = "cash" /\ Next /\ NothingToPay /\ UNCHANGED <<bookingVars, profileVars>>
     \/ focus = "booking" /\ Booking!TxNext /\ UNCHANGED <<vars, profileVars>>
     \/ focus = "profile" /\ Profile!Next /\ UNCHANGED <<vars, bookingVars>>
  /\ UNCHANGED focus

\* The fairness of the three modules: handlers go on without their clients, PostgreSQL queues the
\* waiters of a row, and its deadlock detector runs by itself.
TransactionsFairness ==
  /\ \A q \in Request : SF_vars(focus = "cash" /\ Step(q))
  /\ \A t \in Tx : /\ WF_bookingVars(focus = "booking" /\ Booking!Step(t))
                   /\ WF_bookingVars(focus = "booking" /\ Booking!DetectDeadlock(t))
  /\ \A q \in Profile!ProfileRequests : SF_profileVars(focus = "profile" /\ Profile!Step(q))
  /\ \A a \in Accepters, s \in Savers :
       WF_profileVars(focus = "profile" /\ Profile!BreakDeadlock(s, a))

TransactionsSpec ==
  /\ TransactionsInit /\ [][TransactionsNext]_<<focus, vars, bookingVars, profileVars>>
  /\ TransactionsFairness

\* Every call of a store method of booking and of settlement returns, and every request on a
\* profile is answered, although bookings lock users, sessions and offers, and profile saves and
\* acceptances lock account and profile, in opposite orders.
EveryTransactionEnds == Booking!EveryRequestEnds /\ EverySettlementEnds /\ Profile!EveryRequestEnds
=============================================================================
