----------------------------- MODULE BiddingTx -----------------------------
(***************************************************************************)
(* The transactions of Bidding statement by statement, as PostgreSQL runs  *)
(* them at READ COMMITTED.  The variables of Bidding are the committed     *)
(* rows.  A transaction in progress holds row locks and the writes it will *)
(* make visible when it commits.  An UPDATE takes its candidate rows from  *)
(* a snapshot, waits for each row's lock, and checks its predicate again   *)
(* on the row version it finds then.                                       *)
(*                                                                         *)
(* Inserting a row that references another takes a KEY SHARE lock on it,   *)
(* which waits for FOR UPDATE.  In every transaction here such an insert   *)
(* is the last wait, so it is part of the commit step.                     *)
(*                                                                         *)
(* The partial unique indexes on open sessions, pending offers and active  *)
(* rides are left out: a second line of defence that never has to act,     *)
(* since the properties hold here without them.                            *)
(*                                                                         *)
(* DeclineSession, CancelOffer and the ride lifecycle are single-row       *)
(* statements: one step, when nobody holds the row.                        *)
(***************************************************************************)
EXTENDS Bidding

CONSTANTS
  Tx,    \* requests: each runs one store method, once
  Ops    \* the store methods clients call

ASSUME OpsAssumption ==
  Ops \subseteq {"AcceptOffer", "PlaceOffer", "CreateSession", "CreateRide",
                "CancelSession", "AcceptRide"}

VARIABLE tx   \* the transaction of each request

txVars == <<vars, tx>>

UserRow(p)     == <<"users", p>>
SessionRow(s)  == <<"bid_sessions", s>>
DriverRow(d)   == <<"driver_profiles", d>>   \* and the driver's users row
OfferRow(s, d) == <<"bid_offers", s, d>>
RideRow(r)     == <<"rides", r>>

(***************************************************************************)
(* op: the store method; pc: the statement it is about to run; p, s, d, r: *)
(* its arguments; past: the sessions whose deadline its clock reading is   *)
(* past; locks: the rows it holds; todo, snap: rows the running UPDATE     *)
(* still has to lock, and offers its snapshot holds for later; closing,    *)
(* rejecting: the session rows and offer rows it has written; full: the    *)
(* acceptance fills the driver's capacity.                                 *)
(***************************************************************************)
Idle == [op |-> "none", pc |-> "idle", p |-> None, s |-> None, d |-> None,
         r |-> None, past |-> {}, locks |-> {}, todo |-> {}, snap |-> {},
         closing |-> {}, rejecting |-> {}, full |-> FALSE]
Done == [Idle EXCEPT !.pc = "done"]

TxInit == Init /\ tx = [t \in Tx |-> Idle]

----------------------------------------------------------------------------
(* Row locks *)

\* Mutant: SELECT without FOR UPDATE.
Unlocked(row, t) == TRUE

Free(row, t) == \A u \in Tx \ {t} : row \notin tx[u].locks

\* One FOR UPDATE, or one row of an UPDATE: the fields after t got the row.
Holding(t, row) == tx[t].locks \cup {row}

Set(t, rec) == tx' = [tx EXCEPT ![t] = rec]

\* Mutant: the deferred rollback is missing; the connection keeps its locks.
FailWithoutRollback(t) == Set(t, [Done EXCEPT !.locks = tx[t].locks]) /\ UNCHANGED vars

\* The transaction returns an error and rolls back.
Fail(t) == Set(t, Done) /\ UNCHANGED vars

PendingRows(ss, ds) ==
  {OfferRow(x[1], x[2]) : x \in {y \in ss \X ds : oStatus[y[1]][y[2]] = "pending"}}

\* Mutant: the UPDATE trusts its snapshot.
MatchedBefore(row) == TRUE

\* Does the row still satisfy the running UPDATE's predicate?
StillMatches(row) ==
  IF row[1] = "bid_sessions" THEN sStatus[row[2]] = "open"
                             ELSE oStatus[row[2]][row[3]] = "pending"

----------------------------------------------------------------------------
(* A request arrives and reads the clock. *)

PastSets ==
  {q \in SUBSET {s \in Session : ReadsExpired(s)} :
     {s \in Session : ~ReadsUnexpired(s)} \subseteq q}

Start(t, op, pc, p, s, d, r) ==
  /\ op \in Ops
  /\ tx[t].pc = "idle"
  /\ \E past \in PastSets :
       Set(t, [Idle EXCEPT !.op = op, !.pc = pc, !.p = p, !.s = s, !.d = d,
                           !.r = r, !.past = past])
  /\ UNCHANGED vars

\* The fields of rec when its ExpireBidSessions starts: the sessions and the
\* offers of one snapshot.
ExpireStatement(rec) ==
  LET due == OpenSessions(rec.p) \cap rec.past
  IN  [rec EXCEPT !.pc = "expire", !.todo = {SessionRow(s) : s \in due},
                  !.snap = PendingRows(due, Driver)]

StartAcceptOffer(t, p, s, d) ==
  /\ oStatus[s][d] # "none"
  /\ Start(t, "AcceptOffer", "session", p, s, d, None)

StartPlaceOffer(t, d, s) ==
  /\ sStatus[s] # "absent"
  /\ Start(t, "PlaceOffer", "session", None, s, d, None)

StartCreateSession(t, p, target) ==
  Start(t, "CreateSession", "user", p, None, target, None)

StartCreateRide(t, p) == Start(t, "CreateRide", "user", p, None, None, None)

StartCancelSession(t, p, s) ==
  /\ "CancelSession" \in Ops
  /\ sStatus[s] # "absent"
  /\ tx[t].pc = "idle"
  /\ \E past \in PastSets :
       Set(t, ExpireStatement([Idle EXCEPT !.op = "CancelSession", !.p = p,
                                           !.s = s, !.past = past]))
  /\ UNCHANGED vars

StartAcceptRide(t, d, r) ==
  /\ rStatus[r] # "absent"
  /\ Start(t, "AcceptRide", "driver", None, None, d, r)

----------------------------------------------------------------------------
(* SELECT ... FOR UPDATE *)

\* LockUserForBidSession, then the clock reading CreateSession and CreateRide use
\* (nothing depends on an earlier one), then ExpireBidSessions.
LockUser(t) ==
  /\ tx[t].pc = "user"
  /\ Free(UserRow(tx[t].p), t)
  /\ \E past \in PastSets :
       Set(t, ExpireStatement([tx[t] EXCEPT !.past = past,
                                            !.locks = Holding(t, UserRow(tx[t].p))]))
  /\ UNCHANGED vars

\* LockActiveBidSessionForOffer; then for a bid the check of the addressed driver,
\* for an acceptance the check of the passenger and the unlocked read of the offer
\* (GetBidOfferDriverForAcceptance).  The replay of a finished acceptance ends
\* here too: it only reads.
LockSession(t) ==
  LET s == tx[t].s IN
  /\ tx[t].pc = "session"
  /\ Free(SessionRow(s), t)
  /\ IF /\ sStatus[s] = "open" /\ s \notin tx[t].past
        /\ IF tx[t].op = "AcceptOffer"
           THEN sOwner[s] = tx[t].p /\ oStatus[s][tx[t].d] = "pending"
           ELSE sTarget[s] \in {None, tx[t].d}
     THEN /\ Set(t, [tx[t] EXCEPT !.pc = "driver", !.locks = Holding(t, SessionRow(s))])
          /\ UNCHANGED vars
     ELSE Fail(t)

\* LockOnlineDriverProfileForBidding, then the count of the driver's rides
\* (and, for a bid, the search for a pending offer).
LockDriver(t) ==
  LET d == tx[t].d
      ok == /\ d \in online
            /\ tx[t].op # "AcceptOffer" => CountActiveRides(d) < MaxActive
            /\ tx[t].op = "PlaceOffer"  => oStatus[tx[t].s][d] # "pending"
      next == [AcceptOffer |-> "offer", PlaceOffer |-> "commit", AcceptRide |-> "ride"]
  IN
  /\ tx[t].pc = "driver"
  /\ Free(DriverRow(d), t)
  /\ IF ok
     THEN /\ Set(t, [tx[t] EXCEPT !.pc = next[tx[t].op], !.locks = Holding(t, DriverRow(d))])
          /\ UNCHANGED vars
     ELSE Fail(t)

\* LockPendingBidOfferForAcceptance, the checks of the addressed driver, of the
\* capacity and of the booking, and the start of RejectOtherPendingBidOffers.
LockOffer(t) ==
  LET s == tx[t].s  d == tx[t].d IN
  /\ tx[t].pc = "offer"
  /\ Free(OfferRow(s, d), t)
  /\ IF /\ oStatus[s][d] = "pending"
        /\ sTarget[s] \in {None, d}
        /\ CountActiveRides(d) < MaxActive
        /\ ~HasActivePassengerRide(sOwner[s])
     THEN /\ Set(t, [tx[t] EXCEPT !.pc = "rivals",
                       !.full  = CountActiveRides(d) + 1 >= MaxActive,
                       !.locks = Holding(t, OfferRow(s, d)),
                       !.todo  = PendingRows({s}, Driver \ {d})])
          /\ UNCHANGED vars
     ELSE Fail(t)

\* LockRequestedRideForAcceptance.
LockRide(t) ==
  LET r == tx[t].r IN
  /\ tx[t].pc = "ride"
  /\ Free(RideRow(r), t)
  /\ IF rStatus[r] = "requested"
     THEN /\ Set(t, [tx[t] EXCEPT !.pc = "commit", !.locks = Holding(t, RideRow(r))])
          /\ UNCHANGED vars
     ELSE Fail(t)

----------------------------------------------------------------------------
(* UPDATE statements over several rows *)

\* The running UPDATE gets its next row, and writes it if it still matches.
UpdateRow(t, row) ==
  /\ row \in tx[t].todo
  /\ Free(row, t)
  /\ LET rec == [tx[t] EXCEPT !.todo = @ \ {row}] IN
     Set(t, IF ~StillMatches(row) THEN rec
            ELSE IF row[1] = "bid_sessions"
            THEN [rec EXCEPT !.locks = @ \cup {row}, !.closing = @ \cup {row[2]}]
            ELSE [rec EXCEPT !.locks = @ \cup {row},
                             !.rejecting = @ \cup {<<row[2], row[3]>>}])
  /\ UNCHANGED vars

\* RejectOtherPendingBidOffers is done; RejectDriverPendingBidOffers starts if
\* this ride fills the driver's capacity.
RivalsRejected(t) ==
  /\ tx[t].pc = "rivals" /\ tx[t].todo = {}
  /\ Set(t, IF tx[t].full
            THEN [tx[t] EXCEPT !.pc = "others",
                               !.todo = PendingRows(Session \ {tx[t].s}, {tx[t].d})]
            ELSE [tx[t] EXCEPT !.pc = "commit"])
  /\ UNCHANGED vars

OthersRejected(t) ==
  /\ tx[t].pc = "others" /\ tx[t].todo = {}
  /\ Set(t, [tx[t] EXCEPT !.pc = "commit"])
  /\ UNCHANGED vars

\* ExpireBidSessions and CancelBidSession reject offers when the update of
\* bid_sessions is over: only offers on expired sessions in the first case,
\* all the offers of the snapshot in the second.
SessionsClosed(t) ==
  /\ tx[t].pc \in {"expire", "cancel"} /\ tx[t].todo = {}
  /\ Set(t, [tx[t] EXCEPT
       !.pc   = IF @ = "expire" THEN "expireOffers" ELSE "commit",
       !.todo = IF tx[t].pc = "expire"
                THEN {row \in tx[t].snap : row[2] \in tx[t].closing} ELSE tx[t].snap,
       !.snap = {}])
  /\ UNCHANGED vars

\* HasActiveBidSession, with the transaction's own expiries visible.
CheckSessions(t) ==
  /\ tx[t].pc = "expireOffers" /\ tx[t].todo = {}
  /\ tx[t].op \in {"CreateSession", "CreateRide"}
  /\ IF OpenSessions(tx[t].p) \ (tx[t].past \cup tx[t].closing) = {}
     THEN Set(t, [tx[t] EXCEPT !.pc = "checkRides"]) /\ UNCHANGED vars
     ELSE Fail(t)

\* HasActivePassengerRide.
CheckRides(t) ==
  /\ tx[t].pc = "checkRides"
  /\ IF HasActivePassengerRide(tx[t].p)
     THEN Fail(t)
     ELSE Set(t, [tx[t] EXCEPT !.pc = "commit"]) /\ UNCHANGED vars

----------------------------------------------------------------------------
(* Commits *)

\* sStatus and oStatus with the transaction's writes to existing rows.
Closed(t, status) ==
  [s \in Session |-> IF s \in tx[t].closing THEN status ELSE sStatus[s]]

\* (mutant: the offers of a closed session get the session's word for it)
RejectedAsClosed(t) ==
  [s \in Session |-> [d \in Driver |->
     IF <<s, d>> \in tx[t].rejecting THEN "cancelled" ELSE oStatus[s][d]]]

\* RejectOtherPendingBidOffers and its like, as they become visible.
Rejected(t) ==
  [s \in Session |-> [d \in Driver |->
     IF <<s, d>> \in tx[t].rejecting THEN "rejected" ELSE oStatus[s][d]]]

Committing(t, op) == tx[t].op = op /\ tx[t].pc = "commit" /\ tx[t].todo = {}

CommitAcceptOffer(t) ==
  LET s == tx[t].s  d == tx[t].d IN
  /\ Committing(t, "AcceptOffer")
  /\ Free(UserRow(tx[t].p), t)   \* rides.passenger_id references users
  /\ \E r \in Ride :
       /\ rStatus[r] = "absent"
       /\ rStatus'  = [rStatus EXCEPT ![r] = "accepted"]
       /\ rOwner'   = [rOwner EXCEPT ![r] = sOwner[s]]
       /\ rDriver'  = [rDriver EXCEPT ![r] = d]
       /\ rSession' = [rSession EXCEPT ![r] = s]
  /\ sStatus' = [sStatus EXCEPT ![s] = "accepted"]
  /\ sDriver' = [sDriver EXCEPT ![s] = d]
  /\ oStatus' = [Rejected(t) EXCEPT ![s][d] = "accepted"]
  /\ Set(t, Done)
  /\ UNCHANGED <<sOwner, sTarget, sClock, online>>

CommitPlaceOffer(t) ==
  /\ Committing(t, "PlaceOffer")
  /\ oStatus' = [oStatus EXCEPT ![tx[t].s][tx[t].d] = "pending"]
  /\ Set(t, Done)
  /\ UNCHANGED <<sessionVars, rideVars, online>>

CommitCreateSession(t) ==
  /\ Committing(t, "CreateSession")
  /\ tx[t].d # None => Free(DriverRow(tx[t].d), t)   \* target_driver_id references users
  /\ \E s \in Session :
       /\ sStatus[s] = "absent"
       /\ sStatus' = [Closed(t, "expired") EXCEPT ![s] = "open"]
       /\ sOwner'  = [sOwner EXCEPT ![s] = tx[t].p]
       /\ sTarget' = [sTarget EXCEPT ![s] = tx[t].d]
  /\ oStatus' = Rejected(t)
  /\ Set(t, Done)
  /\ UNCHANGED <<sDriver, sClock, rideVars, online>>

CommitCreateRide(t) ==
  /\ Committing(t, "CreateRide")
  /\ \E r \in Ride :
       /\ rStatus[r] = "absent"
       /\ rStatus' = [rStatus EXCEPT ![r] = "requested"]
       /\ rOwner'  = [rOwner EXCEPT ![r] = tx[t].p]
  /\ sStatus' = Closed(t, "expired")
  /\ oStatus' = Rejected(t)
  /\ Set(t, Done)
  /\ UNCHANGED <<sOwner, sTarget, sDriver, sClock, rDriver, rSession, online>>

\* CancelSession runs outside a transaction: its ExpireBidSessions commits
\* (notifications.user_id references users), then CancelBidSession starts.
CommitExpire(t) ==
  LET p == tx[t].p  s == tx[t].s IN
  /\ tx[t].op = "CancelSession" /\ tx[t].pc = "expireOffers" /\ tx[t].todo = {}
  /\ tx[t].closing # {} => Free(UserRow(p), t)
  /\ sStatus' = Closed(t, "expired")
  /\ oStatus' = Rejected(t)
  /\ Set(t, [Idle EXCEPT !.op = "CancelSession", !.p = p, !.s = s, !.past = tx[t].past,
               !.pc   = "cancel",
               !.todo = IF sStatus'[s] = "open" /\ sOwner[s] = p THEN {SessionRow(s)} ELSE {},
               !.snap = {OfferRow(s, d) : d \in {d \in Driver : oStatus'[s][d] = "pending"}}])
  /\ UNCHANGED <<sOwner, sTarget, sDriver, sClock, rideVars, online>>

CommitCancel(t) ==
  /\ Committing(t, "CancelSession")
  /\ sStatus' = Closed(t, "cancelled")
  /\ oStatus' = Rejected(t)
  /\ Set(t, Done)
  /\ UNCHANGED <<sOwner, sTarget, sDriver, sClock, rideVars, online>>

CommitAcceptRide(t) ==
  /\ Committing(t, "AcceptRide")
  /\ rStatus' = [rStatus EXCEPT ![tx[t].r] = "accepted"]
  /\ rDriver' = [rDriver EXCEPT ![tx[t].r] = tx[t].d]
  /\ Set(t, Done)
  /\ UNCHANGED <<sessionVars, oStatus, rOwner, rSession, online>>

----------------------------------------------------------------------------
(* Deadlocks, failures and the rest of the system *)

\* The rows t is waiting to lock now.
Wanted(t) ==
  CASE tx[t].pc = "user"    -> {UserRow(tx[t].p)}
    [] tx[t].pc = "session" -> {SessionRow(tx[t].s)}
    [] tx[t].pc = "driver"  -> {DriverRow(tx[t].d)}
    [] tx[t].pc = "offer"   -> {OfferRow(tx[t].s, tx[t].d)}
    [] tx[t].pc = "ride"    -> {RideRow(tx[t].r)}
    [] tx[t].todo # {}      -> tx[t].todo
    [] Committing(t, "AcceptOffer") -> {UserRow(tx[t].p)}
    [] Committing(t, "CreateSession") /\ tx[t].d # None -> {DriverRow(tx[t].d)}
    [] tx[t].op = "CancelSession" /\ tx[t].pc = "expireOffers" /\ tx[t].closing # {}
                            -> {UserRow(tx[t].p)}
    [] OTHER -> {}

\* No transaction of U can go on until another one of U releases a row.
Deadlocked(U) ==
  /\ U # {}
  /\ \A t \in U :
       /\ Wanted(t) # {}
       /\ \A row \in Wanted(t) : \E u \in U \ {t} : row \in tx[u].locks

\* The server's deadlock detector rolls back one of them.
DetectDeadlock(t) == (\E U \in SUBSET Tx : t \in U /\ Deadlocked(U)) /\ Fail(t)

\* The client goes away, a timeout fires or the process dies before the commit.
Abandon(t) == tx[t].pc \notin {"idle", "done"} /\ Fail(t)

\* Single-row statements and the clock, as in Bidding.  A deadline is behind
\* everyone only when no request in progress read the clock before it.
Others ==
  /\ \/ \E d \in Driver, s \in Session :
          \/ CancelOffer(d, s) /\ (\A t \in Tx : OfferRow(s, d) \notin tx[t].locks)
          \/ DeclineSession(d, s) /\ (\A t \in Tx : SessionRow(s) \notin tx[t].locks)
     \/ \E r \in Ride : EndRide(r) /\ (\A t \in Tx : RideRow(r) \notin tx[t].locks)
     \/ \E d \in Driver : SetPresence(d) /\ (\A t \in Tx : DriverRow(d) \notin tx[t].locks)
     \/ \E s \in Session :
          /\ PassDeadline(s)
          /\ sClock'[s] = "after" =>
               \A t \in Tx : tx[t].pc \notin {"idle", "done", "user"} => s \in tx[t].past
  /\ UNCHANGED tx

Arrival(t) ==
  \/ \E p \in Passenger, s \in Session, d \in Driver : StartAcceptOffer(t, p, s, d)
  \/ \E s \in Session, d \in Driver : StartPlaceOffer(t, d, s)
  \/ \E p \in Passenger, d \in Driver \cup {None} : StartCreateSession(t, p, d)
  \/ \E p \in Passenger : StartCreateRide(t, p)
  \/ \E p \in Passenger, s \in Session : StartCancelSession(t, p, s)
  \/ \E d \in Driver, r \in Ride : StartAcceptRide(t, d, r)

Step(t) ==
  \/ LockUser(t) \/ LockSession(t) \/ LockDriver(t) \/ LockOffer(t) \/ LockRide(t)
  \/ \E row \in tx[t].todo : UpdateRow(t, row)
  \/ RivalsRejected(t) \/ OthersRejected(t) \/ SessionsClosed(t)
  \/ CheckSessions(t) \/ CheckRides(t)
  \/ CommitAcceptOffer(t) \/ CommitPlaceOffer(t) \/ CommitCreateSession(t)
  \/ CommitCreateRide(t) \/ CommitExpire(t) \/ CommitCancel(t) \/ CommitAcceptRide(t)

\* Once called, a method runs on without the client, and the deadlock detector
\* wakes up by itself.
TxFairness == \A t \in Tx : WF_txVars(Step(t)) /\ WF_txVars(DetectDeadlock(t))

TxNext == Others \/ \E t \in Tx : Arrival(t) \/ Step(t) \/ DetectDeadlock(t) \/ Abandon(t)

TxSpec == TxInit /\ [][TxNext]_txVars /\ TxFairness

----------------------------------------------------------------------------
(* Properties *)

\* Every step of the transactions is a step of Bidding or changes no row: row
\* locks, snapshots and rechecks add up to atomic transactions.
RefinesBidding == [][Next]_vars

\* "This ordering prevents two sessions from deadlocking while each withdraws
\* the other session's outstanding offer." (offer_acceptance_store.go)
AcceptancesDoNotDeadlock ==
  \A U \in SUBSET {t \in Tx : tx[t].op = "AcceptOffer"} : ~Deadlocked(U)

\* Every call returns, with a commit or an error: deadlocks are resolved and no
\* method leaves locks behind for the next one.
EveryRequestEnds ==
  \A t \in Tx : tx[t].pc # "idle" ~> tx[t].pc = "done"
============================================================================
