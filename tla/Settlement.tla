----------------------------- MODULE Settlement -----------------------------
(***************************************************************************)
(* Cash settlement of completed rides: SettleCash statement by statement,  *)
(* concurrently for several rides and repeatedly for one, with the row     *)
(* locks it takes.  The row of ride_settlements, the wallet ledger and the *)
(* driver's wallet change together when the transaction commits.           *)
(*                                                                         *)
(* Left out: timestamps, the kind of a ledger entry (it follows from the   *)
(* outcome) and the audit trail, which is only ever appended to.           *)
(***************************************************************************)
EXTENDS Integers, FiniteSetsExt

CONSTANTS
  Driver, Ride,
  DriverOf,      \* the driver of each ride
  Fare,          \* rides.fare_amount
  PlatformBPS,   \* the commission configured now
  RecordedBPS,   \* commission_bps values older rows hold; None: not recorded
  MaxInt,        \* the largest int64
  Claim,         \* what drivers say they collected: outcome, received, change
  Request,       \* request slots
  None

BPS == {bps \in Nat : bps <= 10000}   \* hundredths of a percent

ASSUME SettlementConstants ==
  /\ IsFiniteSet(Ride) /\ DriverOf \in [Ride -> Driver]
  /\ Fare \in [Ride -> Nat]
  /\ MaxInt \in Nat
  /\ Claim \subseteq [outcome : STRING, received : Int, change : Int]
  /\ PlatformBPS \in BPS
  /\ RecordedBPS \subseteq BPS \cup {None}
  /\ None \notin Int \cup Ride \cup [amount : Nat, commission : Nat]

VARIABLES
  completed,   \* the rides whose status is completed
  record,      \* the row of ride_settlements of each ride
  ledger,      \* the wallet_ledgers entry of each ride, or None
  wallet,      \* driver_wallet_accounts.balance, None before the row exists
  req          \* the request slots

vars == <<completed, record, ledger, wallet, req>>

Outcome == {"paid", "partial", "refused", "unpaid"}   \* outcomes a row can hold

----------------------------------------------------------------------------
(* Economics *)

Invalid == [payout |-> -1, commission |-> -1]

\* NewSettlementSnapshot: the split of an amount, or an error.  The product is
\* only computed when it fits.
NewSettlementSnapshot(amount, bps) ==
  IF amount <= 0 \/ bps < 0 \/ bps > 10000 \/ (bps # 0 /\ amount > MaxInt \div bps)
  THEN Invalid
  ELSE LET commission == (amount * bps) \div 10000
       IN  [payout |-> amount - commission, commission |-> commission]

\* Acceptance refuses a ride whose fare cannot be split, so every row has a split.
ASSUME FaresSplit ==
  \A r \in Ride, bps \in (RecordedBPS \ {None}) \cup {PlatformBPS} :
    NewSettlementSnapshot(Fare[r], bps) # Invalid

\* The checks of NewCashSettlement.
ValidCollection(fare, received, change, outcome) ==
  LET collected == received - change IN
  /\ fare > 0 /\ received >= 0 /\ change >= 0 /\ change <= received
  /\ CASE outcome = "paid"    -> collected = fare
       [] outcome = "partial" -> collected > 0 /\ collected < fare /\ change = 0
       [] outcome \in {"refused", "unpaid"} -> collected = 0
       [] OTHER -> FALSE

\* The split NewCashSettlement computes for a valid collection.
Split(collected, bps) ==
  IF collected > 0 THEN NewSettlementSnapshot(collected, bps)
                   ELSE [payout |-> 0, commission |-> 0]

NewRecord(r, bps) ==
  LET split == NewSettlementSnapshot(Fare[r], IF bps = None THEN PlatformBPS ELSE bps)
  IN  [bps |-> bps, commission |-> split.commission, payout |-> split.payout,
       outcome |-> "unpaid", received |-> 0, change |-> 0, paid |-> FALSE]

----------------------------------------------------------------------------

(***************************************************************************)
(* A slot: pc, the statement it runs next; the request (r, d, outcome,     *)
(* received, change); the rows it holds; the record it will write; the     *)
(* answer of its last command (pc "ok").                                   *)
(***************************************************************************)
Idle == [pc |-> "idle", r |-> None, d |-> None, outcome |-> None, received |-> 0,
         change |-> 0, locks |-> {}, write |-> None]

RideRow(r)   == <<"rides", r>>
WalletRow(d) == <<"driver_wallet_accounts", d>>

Records == [bps : BPS \cup {None}, commission : Nat, payout : Nat,
            outcome : Outcome, received : Nat, change : Nat, paid : BOOLEAN]

TypeOK ==
  /\ completed \subseteq Ride
  /\ \A r \in Ride : /\ record[r] \in Records
                     /\ ledger[r] \in [amount : Nat, commission : Nat] \cup {None}
  /\ \A d \in Driver : wallet[d] \in Nat \cup {None}
  /\ \A q \in Request :
       req[q].pc \in {"idle", "lock", "ledger", "wallet", "createWallet", "commit", "ok"}

Init ==
  /\ completed = {}
  /\ \E bps \in [Ride -> RecordedBPS] : record = [r \in Ride |-> NewRecord(r, bps[r])]
  /\ ledger = [r \in Ride |-> None]
  /\ wallet = [d \in Driver |-> None]
  /\ req = [q \in Request |-> Idle]

Set(q, rec) == req' = [req EXCEPT ![q] = rec]

\* The request returns an error and its transaction rolls back.
Fail(q) == Set(q, Idle) /\ UNCHANGED <<completed, record, ledger, wallet>>

\* Mutant: SELECT without FOR UPDATE.
Unlocked(row, q) == TRUE

Free(row, q) == \A u \in Request \ {q} : row \notin req[u].locks

----------------------------------------------------------------------------
(* Statements *)

SettleCash(q, r, d, c) ==
  /\ req[q].pc \in {"idle", "ok"}
  /\ Set(q, [Idle EXCEPT !.pc = "lock", !.r = r, !.d = d, !.outcome = c.outcome,
                         !.received = c.received, !.change = c.change])
  /\ UNCHANGED <<completed, record, ledger, wallet>>

\* ensureNativeRideSettlement: the row as the rest of the transaction sees it.
\* A row without commission_bps gets the platform's, unless it is paid.
Repaired(r) ==
  IF record[r].bps = None /\ ~record[r].paid
  THEN LET split == NewSettlementSnapshot(Fare[r], PlatformBPS)
       IN  [record[r] EXCEPT !.bps = PlatformBPS, !.commission = split.commission,
                             !.payout = split.payout]
  ELSE record[r]

\* A cash outcome was recorded: refused, paid and partial for good; unpaid only
\* when money changed hands and was given back.
Recorded(rec) == rec.outcome # "unpaid" \/ rec.received # 0 \/ rec.change # 0

\* cashSettlementMatchesRecord
MatchesRecord(rec, q) ==
  /\ rec.outcome = req[q].outcome
  /\ rec.received = req[q].received /\ rec.change = req[q].change

\* The row MarkRideSettlementOutcome writes.
Settled(rec, q) ==
  LET split == Split(req[q].received - req[q].change, rec.bps)
  IN  [bps |-> rec.bps, commission |-> split.commission, payout |-> split.payout,
       outcome |-> req[q].outcome, received |-> req[q].received, change |-> req[q].change,
       paid |-> req[q].outcome = "paid"]

\* LockCompletedRideForCashSettlement and the decisions up to the ledger: a
\* recorded outcome is acknowledged when the request repeats it, refused when not.
LockRide(q) ==
  LET r == req[q].r  rec == Repaired(r)  new == Settled(rec, q) IN
  /\ req[q].pc = "lock"
  /\ Free(RideRow(r), q)
  /\ IF r \notin completed \/ DriverOf[r] # req[q].d
     THEN Fail(q)
     ELSE IF Recorded(rec)
     THEN IF MatchesRecord(rec, q)
          THEN /\ Set(q, [req[q] EXCEPT !.pc = "ok"])
               /\ record' = [record EXCEPT ![r] = rec]
               /\ UNCHANGED <<completed, ledger, wallet>>
          ELSE Fail(q)
     ELSE IF /\ ValidCollection(Fare[r], req[q].received, req[q].change, req[q].outcome)
             /\ new.payout >= 0
     THEN /\ Set(q, [req[q] EXCEPT !.pc = IF new.payout > 0 THEN "ledger" ELSE "commit",
                                   !.locks = {RideRow(r)}, !.write = new])
          /\ UNCHANGED <<completed, record, ledger, wallet>>
     ELSE Fail(q)

\* CreateWalletLedger: the idempotency key is the ride; a conflict is an error.
CreateWalletLedger(q) ==
  /\ req[q].pc = "ledger"
  /\ IF ledger[req[q].r] = None
     THEN Set(q, [req[q] EXCEPT !.pc = "wallet"])
          /\ UNCHANGED <<completed, record, ledger, wallet>>
     ELSE Fail(q)

\* GetDriverWalletAccountForUpdate: waits for the row if there is one; a row that
\* another transaction has inserted but not committed is not there yet.
LockWallet(q) ==
  LET row == WalletRow(req[q].d) IN
  /\ req[q].pc = "wallet"
  /\ IF wallet[req[q].d] = None
     THEN Set(q, [req[q] EXCEPT !.pc = "createWallet"])
     ELSE /\ Free(row, q)
          /\ Set(q, [req[q] EXCEPT !.pc = "commit", !.locks = @ \cup {row}])
  /\ UNCHANGED <<completed, record, ledger, wallet>>

\* CreateDriverWalletAccount: waits for a concurrent insert of the same driver's
\* row, and fails if that one commits.
CreateDriverWalletAccount(q) ==
  LET row == WalletRow(req[q].d) IN
  /\ req[q].pc = "createWallet"
  /\ Free(row, q)
  /\ IF wallet[req[q].d] = None
     THEN /\ Set(q, [req[q] EXCEPT !.pc = "commit", !.locks = @ \cup {row}])
          /\ UNCHANGED <<completed, record, ledger, wallet>>
     ELSE Fail(q)

\* CreditDriverWalletAccount, MarkRideSettlementOutcome and the commit.
Commit(q) ==
  LET r == req[q].r  d == req[q].d  new == req[q].write IN
  /\ req[q].pc = "commit"
  /\ record' = [record EXCEPT ![r] = new]
  /\ IF new.payout > 0
     THEN /\ ledger' = [ledger EXCEPT ![r] = [amount     |-> new.payout,
                                              commission |-> new.commission]]
          /\ wallet' = [wallet EXCEPT ![d] = (IF @ = None THEN 0 ELSE @) + new.payout]
     ELSE UNCHANGED <<ledger, wallet>>
  /\ Set(q, [req[q] EXCEPT !.pc = "ok", !.locks = {}, !.write = None])
  /\ UNCHANGED completed

\* The client goes away, a statement fails or the process dies before the commit.
Abandon(q) == req[q].pc \notin {"idle", "ok"} /\ Fail(q)

\* CompleteTrip (RideLifecycle).
CompleteRide(r) ==
  /\ r \notin completed
  /\ completed' = completed \cup {r}
  /\ UNCHANGED <<record, ledger, wallet, req>>

Step(q) ==
  LockRide(q) \/ CreateWalletLedger(q) \/ LockWallet(q)
    \/ CreateDriverWalletAccount(q) \/ Commit(q)

Next ==
  \/ \E q \in Request, r \in Ride, d \in Driver, c \in Claim : SettleCash(q, r, d, c)
  \/ \E q \in Request : Step(q) \/ Abandon(q)
  \/ \E r \in Ride : CompleteRide(r)

Spec == Init /\ [][Next]_vars

\* The server runs the statements of a request without being asked again.  Strong
\* fairness, because PostgreSQL queues the waiters of a row: newcomers do not
\* overtake a request for ever.
FairSpec == Spec /\ \A q \in Request : SF_vars(Step(q))

----------------------------------------------------------------------------
(* Properties *)

EntryAmount(r) == ledger[r].amount

EntriesOf(d) == {r \in Ride : DriverOf[r] = d /\ ledger[r] # None}

\* A driver's balance is the sum of the driver's ledger entries, whatever
\* settlements of different rides overlap, retry or die half way.
WalletIsLedger ==
  \A d \in Driver :
    IF EntriesOf(d) = {} THEN wallet[d] = None ELSE wallet[d] = MapThenSumSet(EntryAmount, EntriesOf(d))

\* The ledger and the settlement row tell the same story: an entry exists exactly
\* when cash was kept, and payout and commission split what the driver kept.
LedgerMatchesRecord ==
  \A r \in Ride :
    LET kept == record[r].received - record[r].change IN
    /\ ledger[r] # None <=> (kept > 0 /\ record[r].payout > 0)
    /\ ledger[r] # None =>
         /\ ledger[r].amount = record[r].payout
         /\ ledger[r].commission = record[r].commission
         /\ ledger[r].amount + ledger[r].commission = kept
    /\ record[r].paid <=> (record[r].outcome = "paid" /\ kept = Fare[r])

\* A retried command gets the first answer: what a request was told is in the
\* record as long as the slot remembers it (unpaid with no money is not final).
AnswerIsRecorded ==
  \A q \in Request :
    req[q].pc = "ok" =>
      \/ MatchesRecord(record[req[q].r], q)
      \/ req[q].outcome = "unpaid" /\ req[q].received = 0

\* Ledger, records and answers agree in every state between two commits.
BooksAgree == TypeOK /\ LedgerMatchesRecord /\ AnswerIsRecorded

\* No settlement waits for ever: ride row before wallet row is one lock order.
EverySettlementEnds ==
  \A q \in Request : req[q].pc = "lock" ~> req[q].pc \in {"idle", "ok"}
=============================================================================
