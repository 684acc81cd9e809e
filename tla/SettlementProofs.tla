-------------------------- MODULE SettlementProofs --------------------------
(* Cash settlement, for any rides, drivers, fares, commissions, claims and
   numbers of requests. *)
EXTENDS Settlement, FiniteSetTheorems, WellFoundedInduction, TLAPS

\* The statements a request runs while it holds the row of its ride.
Working == {"ledger", "wallet", "createWallet", "commit"}

LockRows == ({"rides"} \X Ride) \cup ({"driver_wallet_accounts"} \X Driver)

Slot == [pc : {"idle", "lock", "ok"} \cup Working, r : Ride \cup {None}, d : Driver \cup {None},
         outcome : STRING \cup {None}, received : Int, change : Int,
         locks : SUBSET LockRows, write : Records \cup {None}]

Shapes ==
  /\ completed \subseteq Ride
  /\ record \in [Ride -> Records]
  /\ ledger \in [Ride -> [amount : Nat, commission : Nat] \cup {None}]
  /\ wallet \in [Driver -> Nat \cup {None}]
  /\ req \in [Request -> Slot]

\* No two requests hold a row.
RowsExclusive == \A q, u \in Request : q # u => req[q].locks \cap req[u].locks = {}

Kept(rec) == rec.received - rec.change

\* A settlement row that may be written: payout and commission split what was kept.
Sound(rec, r) ==
  /\ rec.payout > 0 => Kept(rec) > 0 /\ rec.payout + rec.commission = Kept(rec)
  /\ rec.paid <=> (rec.outcome = "paid" /\ Kept(rec) = Fare[r])

\* A request that goes on to write holds its ride's row, which has no outcome, and will write what
\* it was told.
WritesItsClaim(q) ==
  LET r == req[q].r  w == req[q].write IN
  /\ r \in Ride /\ req[q].d = DriverOf[r]
  /\ RideRow(r) \in req[q].locks
  /\ ~Recorded(record[r])
  /\ w \in Records /\ w.bps # None /\ Sound(w, r)
  /\ MatchesRecord(w, q)

ClaimsHold == \A q \in Request : req[q].pc \in Working => WritesItsClaim(q)

\* A request that waits for its ride or was answered has a ride.
RequestsHaveRides == \A q \in Request : req[q].pc # "idle" => req[q].r \in Ride

\* An outcome is only recorded with the commission it was split by.
RecordedWithCommission == \A r \in Ride : Recorded(record[r]) => record[r].bps # None

BooksInv ==
  /\ Shapes /\ RowsExclusive /\ ClaimsHold /\ RequestsHaveRides /\ RecordedWithCommission
  /\ LedgerMatchesRecord /\ AnswerIsRecorded

----------------------------------------------------------------------------
(* Sums *)

\* A set of natural numbers has a least one.
LEMMA LeastNumber ==
  ASSUME NEW N, N \subseteq Nat, N # {}
  PROVE  \E n \in N : \A m \in N : n <= m
<1> DEFINE Less == {p \in Nat \X Nat : p[1] < p[2]}
<1>1. IsWellFoundedOn(Less, Nat)
  BY NatLessThanWellFounded, Zenon DEF OpToRel
<1> HIDE DEF Less
<1>2. PICK n \in N : \A m \in N : ~(<<m, n>> \in Less)
  BY <1>1, WFMin, Zenon
<1>3. \A m \in N : ~(m < n)
  BY <1>2 DEF Less
<1> QED
  BY <1>3

\* f gives every part of a set of ledger entries its sum.
AddsUp(f, S) ==
  /\ f \in [SUBSET S -> Nat]
  /\ f[{}] = 0
  /\ \A s \in SUBSET S : \A r \in S \ s : f[s \cup {r}] = f[s] + EntryAmount(r)

First(s) == CHOOSE x \in s : TRUE

\* The equation of the fold in MapThenSumSet.
Unfolds(g, S) ==
  g = [s \in SUBSET S |-> IF s = {} THEN 0 ELSE EntryAmount(First(s)) + g[s \ {First(s)}]]

\* When the equation has a solution, MapThenSumSet is the value of one.
LEMMA SumUnfolds ==
  ASSUME NEW S, NEW f, Unfolds(f, S)
  PROVE  \E g : Unfolds(g, S) /\ MapThenSumSet(EntryAmount, S) = g[S]
<1> DEFINE g == CHOOSE h : h = [s \in SUBSET S |->
                                  IF s = {} THEN 0 ELSE EntryAmount(First(s)) + h[s \ {First(s)}]]
<1>1. Unfolds(g, S)
  BY Zenon DEF Unfolds
<1>2. MapThenSumSet(EntryAmount, S) = g[S]
  BY Zenon DEF MapThenSumSet, MapThenFoldSet, First
<1> QED
  BY <1>1, <1>2, Zenon

\* MapThenSumSet adds up: by induction over the size of the parts, in whatever order it takes them.
LEMMA SumAddsUp ==
  ASSUME NEW S, IsFiniteSet(S), NEW f, AddsUp(f, S),
         \A r \in S : EntryAmount(r) \in Nat
  PROVE  MapThenSumSet(EntryAmount, S) = f[S]
<1>1. ASSUME NEW s \in SUBSET S, s # {}
      PROVE  First(s) \in s /\ f[s] = EntryAmount(First(s)) + f[s \ {First(s)}]
  <2>1. First(s) \in s
    BY <1>1, Zenon DEF First
  <2>2. (s \ {First(s)}) \cup {First(s)} = s /\ s \ {First(s)} \in SUBSET S /\ First(s) \in S \ (s \ {First(s)})
    BY <2>1
  <2>3. f[(s \ {First(s)}) \cup {First(s)}] = f[s \ {First(s)}] + EntryAmount(First(s))
    BY <2>2, Zenon DEF AddsUp
  <2>4. f[s \ {First(s)}] \in Nat /\ EntryAmount(First(s)) \in Nat
    BY <2>2 DEF AddsUp
  <2> QED
    BY <2>1, <2>2, <2>3, <2>4
<1>2. Unfolds(f, S)
  <2> DEFINE rhs(s) == IF s = {} THEN 0 ELSE EntryAmount(First(s)) + f[s \ {First(s)}]
  <2>1. \A s \in SUBSET S : f[s] = rhs(s)
    BY <1>1 DEF AddsUp
  <2>2. f = [s \in SUBSET S |-> f[s]]
    BY DEF AddsUp
  <2> HIDE DEF rhs
  <2>3. f = [s \in SUBSET S |-> rhs(s)]
    BY <2>1, <2>2
  <2> QED
    BY <2>3, Zenon DEF Unfolds, rhs
<1>3. PICK g : Unfolds(g, S) /\ MapThenSumSet(EntryAmount, S) = g[S]
  BY <1>2, SumUnfolds
<1>4. \A s \in SUBSET S : g[s] = IF s = {} THEN 0 ELSE EntryAmount(First(s)) + g[s \ {First(s)}]
  BY <1>3, Zenon DEF Unfolds
<1> DEFINE Differ == {s \in SUBSET S : g[s] # f[s]}
           Sizes == {n \in Nat : \E s \in Differ : Cardinality(s) = n}
<1>5. \A s \in SUBSET S : IsFiniteSet(s) /\ Cardinality(s) \in Nat
  BY FS_Subset, FS_CardinalityType
<1>6. ASSUME Differ # {} PROVE FALSE
  <2>1. Sizes \in SUBSET Nat /\ Sizes # {}
    BY <1>5, <1>6
  <2>2. PICK n \in Sizes : \A m \in Sizes : n <= m
    BY <2>1, LeastNumber
  <2>3. PICK s \in Differ : Cardinality(s) = n
    BY <2>2
  <2>4. s # {}
    BY <1>4, <2>3 DEF AddsUp
  <2>5. First(s) \in s /\ f[s] = EntryAmount(First(s)) + f[s \ {First(s)}]
    BY <1>1, <2>3, <2>4
  <2>6. s \ {First(s)} \in SUBSET S /\ Cardinality(s \ {First(s)}) = n - 1
    BY <1>5, <2>3, <2>5, FS_RemoveElement
  <2>7. s \ {First(s)} \notin Differ
    BY <1>5, <2>2, <2>6
  <2> QED
    BY <1>4, <2>3, <2>4, <2>5, <2>6, <2>7
<1> QED
  BY <1>3, <1>6

----------------------------------------------------------------------------
(* The rows *)

\* A commission of at most the whole is at most the amount, rounded down or not.
LEMMA CommissionFits ==
  ASSUME NEW amount \in Nat, NEW bps \in BPS
  PROVE  (amount * bps) \div 10000 \in Nat /\ (amount * bps) \div 10000 <= amount
<1> DEFINE product == amount * bps
<1>1. product \in Nat /\ product <= amount * 10000
  BY DEF BPS
<1> HIDE DEF product
<1>2. product \div 10000 \in Nat /\ product \div 10000 <= amount
  BY <1>1
<1> QED
  BY <1>2 DEF product

\* A split that succeeds leaves a payout, and payout and commission make the amount.
LEMMA SnapshotSplits ==
  ASSUME NEW amount \in Int, NEW bps \in BPS, NewSettlementSnapshot(amount, bps).payout >= 0
  PROVE  /\ amount > 0
         /\ NewSettlementSnapshot(amount, bps).payout \in Nat
         /\ NewSettlementSnapshot(amount, bps).commission \in Nat
         /\ NewSettlementSnapshot(amount, bps).payout + NewSettlementSnapshot(amount, bps).commission = amount
<1> DEFINE commission == (amount * bps) \div 10000
<1>1. amount > 0
  BY DEF NewSettlementSnapshot, Invalid
<1>2. commission \in Nat /\ commission <= amount
  BY <1>1, CommissionFits
<1>3. NewSettlementSnapshot(amount, bps) = [payout |-> amount - commission, commission |-> commission]
  BY DEF NewSettlementSnapshot, Invalid
<1> HIDE DEF commission
<1> QED
  BY <1>1, <1>2, <1>3

\* A split that is not refused has no negative part.
LEMMA SnapshotSucceeds ==
  ASSUME NEW amount \in Nat, NEW bps \in BPS, NewSettlementSnapshot(amount, bps) # Invalid
  PROVE  NewSettlementSnapshot(amount, bps).payout >= 0
<1> DEFINE commission == (amount * bps) \div 10000
<1>1. commission \in Nat /\ commission <= amount
  BY CommissionFits
<1>2. NewSettlementSnapshot(amount, bps) = [payout |-> amount - commission, commission |-> commission]
  BY DEF NewSettlementSnapshot
<1> HIDE DEF commission
<1> QED
  BY <1>1, <1>2

\* The row as a settlement finds it: a row without an outcome has, or gets, a commission.
LEMMA RepairedRow ==
  ASSUME Shapes, LedgerMatchesRecord, NEW r \in Ride
  PROVE  /\ Repaired(r) \in Records
         /\ Recorded(Repaired(r)) <=> Recorded(record[r])
         /\ ~Recorded(record[r]) => Repaired(r).bps # None /\ Repaired(r).bps \in BPS
         /\ Repaired(r).outcome = record[r].outcome /\ Repaired(r).received = record[r].received
         /\ Repaired(r).change = record[r].change /\ Repaired(r).paid = record[r].paid
<1> DEFINE split == NewSettlementSnapshot(Fare[r], PlatformBPS)
<1>1. record[r] \in Records
  BY DEF Shapes
<1>2. split.payout \in Nat /\ split.commission \in Nat
  <2>1. split.payout >= 0
    <3>1. split # Invalid
      BY FaresSplit
    <3>2. Fare[r] \in Nat /\ PlatformBPS \in BPS
      BY SettlementConstants
    <3> QED
      BY <3>1, <3>2, SnapshotSucceeds
  <2>2. Fare[r] \in Int /\ PlatformBPS \in BPS
    BY SettlementConstants
  <2> QED
    BY <2>1, <2>2, SnapshotSplits
<1> HIDE DEF split
<1>3. CASE record[r].bps = None /\ ~record[r].paid
  <2>1. Repaired(r) = [record[r] EXCEPT !.bps = PlatformBPS, !.commission = split.commission,
                                        !.payout = split.payout]
    BY <1>3, Zenon DEF Repaired, split
  <2>2. PlatformBPS \in BPS /\ PlatformBPS # None
    BY SettlementConstants DEF BPS
  <2>3. Repaired(r) \in Records
    BY <1>1, <1>2, <2>1, <2>2 DEF Records
  <2>4. /\ Repaired(r).outcome = record[r].outcome /\ Repaired(r).received = record[r].received
        /\ Repaired(r).change = record[r].change /\ Repaired(r).paid = record[r].paid
        /\ Repaired(r).bps = PlatformBPS
    BY <1>1, <2>1 DEF Records
  <2>5. Recorded(Repaired(r)) <=> Recorded(record[r])
    BY <2>4, Zenon DEF Recorded
  <2> QED
    BY <2>2, <2>3, <2>4, <2>5
<1>4. CASE ~(record[r].bps = None /\ ~record[r].paid)
  <2>1. Repaired(r) = record[r]
    BY <1>4, Zenon DEF Repaired
  <2>2. record[r].paid => Recorded(record[r])
    BY DEF LedgerMatchesRecord, Recorded
  <2> QED
    BY <1>1, <1>4, <2>1, <2>2 DEF Records
<1> QED
  BY <1>3, <1>4

\* What NewCashSettlement lets through is a row whose payout and commission split the cash kept.
LEMMA SettledRow ==
  ASSUME NEW q \in Request, req[q] \in Slot, NEW r \in Ride, NEW rec \in Records,
         rec.bps \in BPS,
         ValidCollection(Fare[r], req[q].received, req[q].change, req[q].outcome),
         Settled(rec, q).payout >= 0
  PROVE  /\ Settled(rec, q) \in Records /\ Settled(rec, q).bps # None
         /\ Sound(Settled(rec, q), r) /\ MatchesRecord(Settled(rec, q), q)
<1> DEFINE new == Settled(rec, q)
           kept == req[q].received - req[q].change
           split == Split(kept, rec.bps)
           paid == req[q].outcome = "paid"
<1>1. /\ req[q].received \in Nat /\ req[q].change \in Nat /\ kept \in Nat /\ Fare[r] \in Nat
      /\ req[q].outcome \in Outcome /\ (req[q].outcome = "paid" => kept = Fare[r])
  BY SettlementConstants DEF Slot, ValidCollection, Outcome
<1>2. new = [bps |-> rec.bps, commission |-> split.commission, payout |-> split.payout,
             outcome |-> req[q].outcome, received |-> req[q].received, change |-> req[q].change,
             paid |-> paid]
  BY Zenon DEF Settled
<1>3. split.payout >= 0
  BY <1>2
<1>4. /\ split.payout \in Nat /\ split.commission \in Nat
      /\ split.payout > 0 => kept > 0 /\ split.payout + split.commission = kept
  <2> HIDE DEF kept
  <2>1. CASE kept > 0
    <3>1. split = NewSettlementSnapshot(kept, rec.bps)
      BY <2>1 DEF Split
    <3> HIDE DEF split
    <3> QED
      BY <1>1, <1>3, <2>1, <3>1, SnapshotSplits
  <2>2. CASE ~(kept > 0)
    BY <2>2 DEF Split
  <2> QED
    BY <2>1, <2>2
<1>5. paid \in BOOLEAN /\ (paid <=> req[q].outcome = "paid")
  BY Zenon
<1> HIDE DEF new, split, kept, paid
<1>6. /\ new.payout = split.payout /\ new.commission = split.commission /\ new.outcome = req[q].outcome
      /\ new.received = req[q].received /\ new.change = req[q].change /\ new.paid = paid
      /\ new.bps = rec.bps
  BY <1>2, Zenon
<1>7. new \in Records
  BY <1>1, <1>2, <1>4, <1>5 DEF Records
<1>8. Kept(new) = kept
  BY <1>6 DEF Kept, kept
<1>9. Sound(new, r)
  BY <1>1, <1>4, <1>5, <1>6, <1>8 DEF Sound
<1>10. MatchesRecord(new, q)
  BY <1>6, Zenon DEF MatchesRecord
<1>11. new.bps # None
  BY <1>6, SettlementConstants DEF BPS
<1> QED
  BY <1>7, <1>9, <1>10, <1>11 DEF new

----------------------------------------------------------------------------
(* The books *)

\* A step that changes nothing but one request keeps the books, as long as the request takes only
\* rows nobody holds, promises to write only what it was told, and answers what is recorded.
LEMMA SlotStep ==
  ASSUME BooksInv, NEW q \in Request, NEW new \in Slot, Set(q, new),
         UNCHANGED <<completed, record, ledger, wallet>>,
         \A u \in Request \ {q} : new.locks \cap req[u].locks = {},
         new.pc \in Working => WritesItsClaim(q)',
         new.pc # "idle" => new.r \in Ride,
         new.pc = "ok" => MatchesRecord(record[new.r], q)'
  PROVE  BooksInv'
<1>1. req \in [Request -> Slot] /\ req' = [req EXCEPT ![q] = new]
  BY DEF BooksInv, Shapes, Set
<1>2. \A u \in Request : req'[u] = IF u = q THEN new ELSE req[u]
  BY <1>1
<1>3. Shapes'
  BY <1>1 DEF BooksInv, Shapes
<1>4. RowsExclusive'
  <2> SUFFICES ASSUME NEW u \in Request, NEW v \in Request, u # v
               PROVE  req'[u].locks \cap req'[v].locks = {}
    BY DEF RowsExclusive
  <2>1. CASE u = q
    BY <1>2, <2>1
  <2>2. CASE v = q
    BY <1>2, <2>2
  <2>3. CASE u # q /\ v # q
    BY <1>2, <2>3 DEF BooksInv, RowsExclusive
  <2> QED
    BY <2>1, <2>2, <2>3
<1>5. ClaimsHold'
  <2> SUFFICES ASSUME NEW u \in Request, req'[u].pc \in Working PROVE WritesItsClaim(u)'
    BY DEF ClaimsHold
  <2>1. CASE u = q
    BY <1>2, <2>1
  <2>2. CASE u # q
    <3>1. req'[u] = req[u] /\ WritesItsClaim(u)
      BY <1>2, <2>2 DEF BooksInv, ClaimsHold
    <3> QED
      BY <3>1 DEF WritesItsClaim, MatchesRecord
  <2> QED
    BY <2>1, <2>2
<1>6. RequestsHaveRides'
  BY <1>2 DEF BooksInv, RequestsHaveRides
<1>7. RecordedWithCommission' /\ LedgerMatchesRecord'
  BY DEF BooksInv, RecordedWithCommission, LedgerMatchesRecord
<1>8. AnswerIsRecorded'
  <2> SUFFICES ASSUME NEW u \in Request, req'[u].pc = "ok"
               PROVE  MatchesRecord(record[req[u].r], u)' \/ (req'[u].outcome = "unpaid" /\ req'[u].received = 0)
    BY DEF AnswerIsRecorded
  <2>1. CASE u = q
    BY <1>2, <2>1
  <2>2. CASE u # q
    BY <1>2, <2>2 DEF BooksInv, AnswerIsRecorded, MatchesRecord
  <2> QED
    BY <2>1, <2>2
<1> QED
  BY <1>3, <1>4, <1>5, <1>6, <1>7, <1>8 DEF BooksInv

\* A request that fails holds nothing and promises nothing.
LEMMA FailStep == ASSUME BooksInv, NEW q \in Request, Fail(q) PROVE BooksInv'
<1>1. Idle \in Slot /\ Idle.pc = "idle" /\ Idle.locks = {}
  BY DEF Idle, Slot
<1> QED
  BY <1>1, SlotStep DEF Fail, Working

\* A request takes its ride's row when it is free and the row has no outcome, and repeats the answer
\* when it has the same.
LEMMA LockRideStep == ASSUME BooksInv, NEW q \in Request, LockRide(q) PROVE BooksInv'
<1> DEFINE r == req[q].r
           rec == Repaired(r)
           new == Settled(rec, q)
<1>1. req[q] \in Slot /\ req[q].pc = "lock" /\ r \in Ride /\ Free(RideRow(r), q)
  BY DEF BooksInv, Shapes, LockRide, RequestsHaveRides
<1>2. /\ rec \in Records
      /\ Recorded(rec) <=> Recorded(record[r])
      /\ ~Recorded(record[r]) => rec.bps \in BPS
  BY <1>1, RepairedRow DEF BooksInv
<1>3. CASE Fail(q)
  BY <1>3, FailStep
<1>4. CASE /\ r \in completed /\ DriverOf[r] = req[q].d /\ Recorded(rec) /\ MatchesRecord(rec, q)
           /\ Set(q, [req[q] EXCEPT !.pc = "ok"])
           /\ record' = [record EXCEPT ![r] = rec]
           /\ UNCHANGED <<completed, ledger, wallet>>
  <2>1. rec = record[r]
    BY <1>1, <1>2, <1>4, Zenon DEF BooksInv, RecordedWithCommission, Repaired
  <2>2. record' = record
    BY <1>4, <2>1 DEF BooksInv, Shapes
  <2>s. PICK slot : slot = [req[q] EXCEPT !.pc = "ok"]
    OBVIOUS
  <2>3. slot \in Slot /\ slot.pc = "ok" /\ slot.locks = req[q].locks /\ slot.r = r
        /\ slot.outcome = req[q].outcome /\ slot.received = req[q].received /\ slot.change = req[q].change
    BY <1>1, <2>s DEF Slot
  <2>4. Set(q, slot)
    BY <1>4, <2>s
  <2>5. req'[q] = slot
    BY <2>4 DEF Set, BooksInv, Shapes
  <2>6. MatchesRecord(record[slot.r], q)'
    <3>1. MatchesRecord(record[r], q)
      BY <1>4, <2>1
    <3> QED
      BY <2>2, <2>3, <2>5, <3>1 DEF MatchesRecord
  <2>7. \A u \in Request \ {q} : slot.locks \cap req[u].locks = {}
    BY <2>3 DEF BooksInv, RowsExclusive
  <2>8. UNCHANGED <<completed, record, ledger, wallet>>
    BY <1>4, <2>2
  <2>9. slot.pc \notin Working /\ slot.r \in Ride /\ slot \in Slot
    BY <1>1, <2>3 DEF Working
  <2> QED
    BY <2>4, <2>6, <2>7, <2>8, <2>9, SlotStep
<1>5. CASE /\ r \in completed /\ DriverOf[r] = req[q].d /\ ~Recorded(rec)
           /\ ValidCollection(Fare[r], req[q].received, req[q].change, req[q].outcome)
           /\ new.payout >= 0
           /\ Set(q, [req[q] EXCEPT !.pc = IF new.payout > 0 THEN "ledger" ELSE "commit",
                                    !.locks = {RideRow(r)}, !.write = new])
           /\ UNCHANGED <<completed, record, ledger, wallet>>
  <2>1. /\ new \in Records /\ new.bps # None
        /\ Sound(new, r) /\ MatchesRecord(new, q)
    BY <1>1, <1>2, <1>5, SettledRow
  <2> HIDE DEF new
  <2>s. PICK slot : slot = [req[q] EXCEPT !.pc = IF new.payout > 0 THEN "ledger" ELSE "commit",
                                          !.locks = {RideRow(r)}, !.write = new]
    OBVIOUS
  <2>2. /\ slot \in Slot /\ slot.pc \in Working /\ slot.locks = {RideRow(r)} /\ slot.r = r
        /\ slot.d = req[q].d /\ slot.write = new
        /\ slot.outcome = req[q].outcome /\ slot.received = req[q].received /\ slot.change = req[q].change
    <3>1. {RideRow(r)} \in SUBSET LockRows
      BY <1>1 DEF LockRows, RideRow
    <3> QED
      BY <1>1, <2>1, <2>s, <3>1 DEF Slot, Working
  <2>3. Set(q, slot)
    BY <1>5, <2>s
  <2>4. req'[q] = slot
    BY <2>3 DEF Set, BooksInv, Shapes
  <2>5. WritesItsClaim(q)'
    <3>1. MatchesRecord(new, q)'
      BY <2>1, <2>2, <2>4 DEF MatchesRecord, new, Settled
    <3> QED
      BY <1>1, <1>2, <1>5, <2>1, <2>2, <2>4, <3>1 DEF WritesItsClaim, MatchesRecord
  <2>6. \A u \in Request \ {q} : slot.locks \cap req[u].locks = {}
    BY <1>1, <2>2 DEF Free
  <2> QED
    BY <1>1, <1>5, <2>2, <2>3, <2>5, <2>6, SlotStep DEF Working
<1> QED
  BY <1>3, <1>4, <1>5, Zenon DEF LockRide

\* A new request has a ride and holds nothing.
LEMMA SettleCashStep ==
  ASSUME BooksInv, NEW q \in Request, NEW r \in Ride, NEW d \in Driver, NEW c \in Claim,
         SettleCash(q, r, d, c)
  PROVE  BooksInv'
<1>s. PICK slot : slot = [Idle EXCEPT !.pc = "lock", !.r = r, !.d = d, !.outcome = c.outcome,
                                      !.received = c.received, !.change = c.change]
  OBVIOUS
<1>1. c.outcome \in STRING /\ c.received \in Int /\ c.change \in Int
  BY SettlementConstants
<1>2. slot = [pc |-> "lock", r |-> r, d |-> d, outcome |-> c.outcome, received |-> c.received,
              change |-> c.change, locks |-> {}, write |-> None]
  BY <1>s DEF Idle
<1>3. slot \in Slot
  BY <1>1, <1>2 DEF Slot
<1>4. Set(q, slot) /\ UNCHANGED <<completed, record, ledger, wallet>>
  BY <1>s, Zenon DEF SettleCash
<1>5. slot.pc \notin Working /\ slot.pc # "ok" /\ slot.r \in Ride /\ slot.locks = {}
  BY <1>2 DEF Working
<1> QED
  BY <1>3, <1>4, <1>5, SlotStep

\* Moving on from one statement to the next, with the rows held so far and at most the driver's
\* wallet row, taken when nobody holds it.
LEMMA GoOnStep ==
  ASSUME BooksInv, NEW q \in Request, req[q].pc \in Working, NEW pc \in Working,
         NEW more, more \subseteq {WalletRow(req[q].d)}, \A x \in more : Free(x, q),
         NEW slot, slot = [req[q] EXCEPT !.pc = pc, !.locks = req[q].locks \cup more],
         Set(q, slot), UNCHANGED <<completed, record, ledger, wallet>>
  PROVE  BooksInv'
<1>1. req[q] \in Slot /\ WritesItsClaim(q)
  BY DEF BooksInv, Shapes, ClaimsHold
<1>2. req[q].d \in Driver
  BY <1>1, SettlementConstants DEF WritesItsClaim
<1>3. req[q].locks \cup more \in SUBSET LockRows
  BY <1>1, <1>2 DEF Slot, LockRows, WalletRow
<1>4. /\ slot \in Slot /\ slot.pc = pc /\ slot.locks = req[q].locks \cup more /\ slot.r = req[q].r
      /\ slot.d = req[q].d /\ slot.write = req[q].write
      /\ slot.outcome = req[q].outcome /\ slot.received = req[q].received /\ slot.change = req[q].change
  BY <1>1, <1>3 DEF Slot
<1>6. req'[q] = slot
  BY DEF Set, BooksInv, Shapes
<1>7. WritesItsClaim(q)'
  BY <1>1, <1>4, <1>6 DEF WritesItsClaim, MatchesRecord
<1>8. \A u \in Request \ {q} : slot.locks \cap req[u].locks = {}
  BY <1>4 DEF BooksInv, RowsExclusive, Free
<1>9. slot.pc \notin {"idle", "ok"} /\ slot.r \in Ride
  BY <1>1, <1>4 DEF Working, WritesItsClaim
<1> QED
  BY <1>4, <1>7, <1>8, <1>9, SlotStep

\* The ledger entry, and the driver's wallet row.
LEMMA StatementStep ==
  ASSUME BooksInv, NEW q \in Request,
         CreateWalletLedger(q) \/ LockWallet(q) \/ CreateDriverWalletAccount(q)
  PROVE  BooksInv'
<1>1. req[q] \in Slot
  BY DEF BooksInv, Shapes
<1>3. CASE Fail(q)
  BY <1>3, FailStep
<1>4. ASSUME NEW pc \in Working, req[q].pc \in Working, Set(q, [req[q] EXCEPT !.pc = pc]),
             UNCHANGED <<completed, record, ledger, wallet>>
      PROVE  BooksInv'
  <2>1. PICK slot, more : slot = [req[q] EXCEPT !.pc = pc] /\ more = {}
    BY Zenon
  <2>2. slot = [req[q] EXCEPT !.pc = pc, !.locks = req[q].locks \cup more]
    BY <1>1, <2>1 DEF Slot
  <2>3. Set(q, slot) /\ more \subseteq {WalletRow(req[q].d)} /\ \A x \in more : Free(x, q)
    BY <1>4, <2>1
  <2> QED
    BY <1>4, <2>2, <2>3, GoOnStep
<1>5. ASSUME req[q].pc \in Working, Free(WalletRow(req[q].d), q),
             Set(q, [req[q] EXCEPT !.pc = "commit", !.locks = @ \cup {WalletRow(req[q].d)}]),
             UNCHANGED <<completed, record, ledger, wallet>>
      PROVE  BooksInv'
  <2>1. PICK slot, more : /\ slot = [req[q] EXCEPT !.pc = "commit", !.locks = @ \cup {WalletRow(req[q].d)}]
                          /\ more = {WalletRow(req[q].d)}
    BY Zenon
  <2>2. slot = [req[q] EXCEPT !.pc = "commit", !.locks = req[q].locks \cup more]
    BY <1>1, <2>1 DEF Slot
  <2>3. Set(q, slot) /\ more \subseteq {WalletRow(req[q].d)} /\ \A x \in more : Free(x, q)
    BY <1>5, <2>1
  <2>4. "commit" \in Working
    BY DEF Working
  <2> QED
    BY <1>5, <2>2, <2>3, <2>4, GoOnStep
<1>6. CASE CreateWalletLedger(q)
  BY <1>3, <1>4, <1>6 DEF CreateWalletLedger, Working
<1>7. CASE LockWallet(q)
  BY <1>4, <1>5, <1>7 DEF LockWallet, Working
<1>8. CASE CreateDriverWalletAccount(q)
  BY <1>3, <1>5, <1>8 DEF CreateDriverWalletAccount, Working
<1> QED
  BY <1>6, <1>7, <1>8

\* The commit writes the row, the entry and the balance together; the row had no outcome, so no
\* earlier answer speaks of it, and nobody else is about to write it.
LEMMA CommitStep == ASSUME BooksInv, NEW q \in Request, Commit(q) PROVE BooksInv'
<1>c. PICK r, w, slot : r = req[q].r /\ w = req[q].write
                          /\ slot = [req[q] EXCEPT !.pc = "ok", !.locks = {}, !.write = None]
  BY Zenon
<1>1. req[q] \in Slot /\ req[q].pc = "commit" /\ WritesItsClaim(q)
  BY DEF BooksInv, Shapes, ClaimsHold, Commit, Working
<1>2. /\ r \in Ride /\ req[q].d \in Driver /\ w \in Records /\ w.bps # None /\ Sound(w, r)
      /\ ~Recorded(record[r]) /\ MatchesRecord(w, q) /\ RideRow(r) \in req[q].locks
  BY <1>1, <1>c, SettlementConstants DEF WritesItsClaim
<1>3. /\ slot \in Slot /\ slot.pc = "ok" /\ slot.locks = {} /\ slot.r = r
      /\ slot.outcome = req[q].outcome /\ slot.received = req[q].received /\ slot.change = req[q].change
  BY <1>1, <1>c DEF Slot
<1>4. /\ record' = [record EXCEPT ![r] = w] /\ req' = [req EXCEPT ![q] = slot]
      /\ completed' = completed
  BY <1>c DEF Commit, Set
<1>5. /\ \A u \in Request : req'[u] = IF u = q THEN slot ELSE req[u]
      /\ \A x \in Ride : record'[x] = IF x = r THEN w ELSE record[x]
  BY <1>2, <1>4 DEF BooksInv, Shapes
<1>6. ledger' = IF w.payout > 0 THEN [ledger EXCEPT ![r] = [amount |-> w.payout, commission |-> w.commission]]
                ELSE ledger
  BY <1>c DEF Commit
<1>7. Shapes'
  <2>1. w.payout \in Nat /\ w.commission \in Nat
    BY <1>2 DEF Records
  <2>2. ledger' \in [Ride -> [amount : Nat, commission : Nat] \cup {None}]
    BY <1>2, <1>6, <2>1 DEF BooksInv, Shapes
  <2>3. wallet' \in [Driver -> Nat \cup {None}]
    BY <1>2, <1>c, <2>1 DEF Commit, BooksInv, Shapes
  <2> QED
    BY <1>2, <1>3, <1>4, <2>2, <2>3 DEF BooksInv, Shapes
<1>8. RowsExclusive'
  BY <1>3, <1>5 DEF BooksInv, RowsExclusive
<1>9. ClaimsHold'
  <2> SUFFICES ASSUME NEW u \in Request, req'[u].pc \in Working PROVE WritesItsClaim(u)'
    BY DEF ClaimsHold
  <2>1. u # q /\ req'[u] = req[u]
    BY <1>3, <1>5 DEF Working
  <2>2. WritesItsClaim(u)
    BY <2>1 DEF BooksInv, ClaimsHold
  <2>3. req[u].r # r
    BY <1>2, <2>1, <2>2 DEF BooksInv, RowsExclusive, WritesItsClaim
  <2> QED
    BY <1>5, <2>1, <2>2, <2>3 DEF WritesItsClaim, MatchesRecord
<1>10. RequestsHaveRides'
  BY <1>2, <1>3, <1>5 DEF BooksInv, RequestsHaveRides
<1>11. RecordedWithCommission'
  BY <1>2, <1>5 DEF BooksInv, RecordedWithCommission
<1>12. LedgerMatchesRecord'
  <2>1. ledger[r] = None
    BY <1>2 DEF BooksInv, LedgerMatchesRecord, Recorded, Shapes, Records
  <2> SUFFICES ASSUME NEW x \in Ride
               PROVE  LET kept == record'[x].received - record'[x].change IN
                      /\ ledger'[x] # None <=> (kept > 0 /\ record'[x].payout > 0)
                      /\ ledger'[x] # None =>
                           /\ ledger'[x].amount = record'[x].payout
                           /\ ledger'[x].commission = record'[x].commission
                           /\ ledger'[x].amount + ledger'[x].commission = kept
                      /\ record'[x].paid <=> (record'[x].outcome = "paid" /\ kept = Fare[x])
    BY DEF LedgerMatchesRecord
  <2>2. CASE x # r
    BY <1>2, <1>5, <1>6, <2>2 DEF BooksInv, LedgerMatchesRecord, Shapes
  <2>3. CASE x = r
    <3>1. record'[x] = w
      BY <1>5, <2>3
    <3>2. ledger'[x] = IF w.payout > 0 THEN [amount |-> w.payout, commission |-> w.commission] ELSE None
      BY <1>6, <2>1, <2>3 DEF BooksInv, Shapes
    <3>3. w.payout \in Nat /\ w.commission \in Nat /\ [amount |-> w.payout, commission |-> w.commission] # None
      BY <1>2, SettlementConstants DEF Records
    <3>4. w.paid <=> (w.outcome = "paid" /\ w.received - w.change = Fare[r])
      BY <1>2, Zenon DEF Sound, Kept
    <3>5. w.payout > 0 => w.received - w.change > 0 /\ w.payout + w.commission = w.received - w.change
      BY <1>2 DEF Sound, Kept
    <3> QED
      BY <2>3, <3>1, <3>2, <3>3, <3>4, <3>5
  <2> QED
    BY <2>2, <2>3
<1>13. AnswerIsRecorded'
  <2> SUFFICES ASSUME NEW u \in Request, req'[u].pc = "ok"
               PROVE  MatchesRecord(record[req[u].r], u)' \/ (req'[u].outcome = "unpaid" /\ req'[u].received = 0)
    BY DEF AnswerIsRecorded
  <2>1. CASE u = q
    BY <1>2, <1>3, <1>5, <2>1 DEF MatchesRecord
  <2>2. CASE u # q
    BY <1>2, <1>5, <2>2 DEF BooksInv, AnswerIsRecorded, MatchesRecord, Recorded, RequestsHaveRides
  <2> QED
    BY <2>1, <2>2
<1> QED
  BY <1>7, <1>8, <1>9, <1>10, <1>11, <1>12, <1>13 DEF BooksInv

\* Every step keeps the books.
LEMMA BooksStep == BooksInv /\ [Next]_vars => BooksInv'
<1> SUFFICES ASSUME BooksInv, [Next]_vars PROVE BooksInv'
  OBVIOUS
<1>1. ASSUME NEW r \in Ride, CompleteRide(r) PROVE BooksInv'
  <2>1. completed' \subseteq Ride /\ UNCHANGED <<record, ledger, wallet, req>>
    BY <1>1 DEF CompleteRide, BooksInv, Shapes
  <2> QED
    BY <2>1 DEF BooksInv, Shapes, RowsExclusive, ClaimsHold, WritesItsClaim, MatchesRecord, RequestsHaveRides,
                RecordedWithCommission, LedgerMatchesRecord, AnswerIsRecorded
<1>2. CASE UNCHANGED vars
  BY <1>2 DEF vars, BooksInv, Shapes, RowsExclusive, ClaimsHold, WritesItsClaim, MatchesRecord, RequestsHaveRides,
              RecordedWithCommission, LedgerMatchesRecord, AnswerIsRecorded
<1> QED
  BY <1>1, <1>2, SettleCashStep, LockRideStep, StatementStep, CommitStep, FailStep DEF Next, Step, Abandon

\* Before the first settlement every row is unpaid, with a split of its fare.
LEMMA BooksInit == Init => BooksInv
<1> SUFFICES ASSUME Init PROVE BooksInv
  OBVIOUS
<1>1. PICK bps \in [Ride -> RecordedBPS] : record = [r \in Ride |-> NewRecord(r, bps[r])]
  BY DEF Init
<1>2. ASSUME NEW r \in Ride
      PROVE  /\ record[r] \in Records
             /\ record[r].outcome = "unpaid" /\ record[r].received = 0 /\ record[r].change = 0
             /\ ~record[r].paid
  <2>1. PICK b : b = IF bps[r] = None THEN PlatformBPS ELSE bps[r]
    OBVIOUS
  <2>2. /\ bps[r] \in BPS \cup {None} /\ b \in BPS /\ Fare[r] \in Nat
        /\ b \in (RecordedBPS \ {None}) \cup {PlatformBPS}
    BY <1>1, <2>1, SettlementConstants
  <2>3. PICK split : split = NewSettlementSnapshot(Fare[r], b)
    OBVIOUS
  <2>4. split # Invalid
    BY <2>2, <2>3, FaresSplit
  <2>5. split.payout >= 0
    BY <2>2, <2>3, <2>4, SnapshotSucceeds
  <2>6. split.payout \in Nat /\ split.commission \in Nat
    BY <2>2, <2>3, <2>5, SnapshotSplits
  <2>7. record[r] = [bps |-> bps[r], commission |-> split.commission, payout |-> split.payout,
                     outcome |-> "unpaid", received |-> 0, change |-> 0, paid |-> FALSE]
    BY <1>1, <2>1, <2>3, Zenon DEF NewRecord
  <2>8. record[r] \in Records
    BY <2>2, <2>6, <2>7 DEF Records, Outcome
  <2>9. record[r].outcome = "unpaid" /\ record[r].received = 0 /\ record[r].change = 0
    BY <2>7
  <2>10. ~record[r].paid
    BY <2>7
  <2> QED
    BY <2>8, <2>9, <2>10
<1>3. Idle \in Slot /\ Idle.pc = "idle" /\ Idle.locks = {}
  BY DEF Idle, Slot
<1>4. \A q \in Request : req[q] = Idle
  BY DEF Init
<1>5. Shapes
  <2>1. record \in [Ride -> Records]
    BY <1>1, <1>2
  <2> QED
    BY <1>3, <2>1 DEF Init, Shapes
<1>6. RowsExclusive /\ ClaimsHold /\ RequestsHaveRides /\ AnswerIsRecorded
  BY <1>3, <1>4 DEF RowsExclusive, ClaimsHold, RequestsHaveRides, AnswerIsRecorded, Working
<1>7. RecordedWithCommission
  BY <1>2 DEF RecordedWithCommission, Recorded
<1>8. LedgerMatchesRecord
  <2> SUFFICES ASSUME NEW r \in Ride
               PROVE  /\ ledger[r] = None
                      /\ ~(record[r].received - record[r].change > 0)
                      /\ record[r].outcome # "paid"
                      /\ ~record[r].paid
    BY Zenon DEF LedgerMatchesRecord
  <2> QED
    BY <1>2 DEF Init
<1> QED
  BY <1>5, <1>6, <1>7, <1>8 DEF BooksInv

\* However settlements of rides overlap, repeat, wait, fail and die half way, the ledger, the
\* settlement rows and the answers given agree: no two requests hold one ride's row, so an outcome
\* is written once.
THEOREM BooksAgreeAlways == Spec => []BooksAgree
<1>1. BooksInv => BooksAgree
  <2> SUFFICES ASSUME BooksInv PROVE TypeOK
    BY DEF BooksInv, BooksAgree
  <2> QED
    BY DEF BooksInv, Shapes, TypeOK, Slot, Working
<1> QED
  BY <1>1, BooksInit, BooksStep, PTL DEF Spec

----------------------------------------------------------------------------
(* The wallets *)

\* WalletIsLedger with the sum given by its laws instead of by a fold.
WalletAddsUp ==
  \A d \in Driver :
    IF EntriesOf(d) = {} THEN wallet[d] = None
    ELSE \E f : AddsUp(f, EntriesOf(d)) /\ wallet[d] = f[EntriesOf(d)]

\* The sums over some entries and one more.
LEMMA SumsExtend ==
  ASSUME NEW S, NEW r, r \notin S, NEW f, AddsUp(f, S), EntryAmount(r)' \in Nat,
         \A x \in S : EntryAmount(x)' = EntryAmount(x) /\ EntryAmount(x) \in Nat
  PROVE  \E g : AddsUp(g, S \cup {r})' /\ g[S \cup {r}] = f[S] + EntryAmount(r)'
<1>1. PICK amount : amount = EntryAmount(r)'
  OBVIOUS
<1>2. PICK g : g = [s \in SUBSET (S \cup {r}) |-> IF r \in s THEN f[s \ {r}] + amount ELSE f[s]]
  OBVIOUS
<1>3. /\ \A s \in SUBSET S : s \in SUBSET (S \cup {r}) /\ r \notin s /\ f[s] \in Nat
      /\ \A s \in SUBSET (S \cup {r}) : s \ {r} \in SUBSET S /\ (r \notin s => s \in SUBSET S)
  BY DEF AddsUp
<1>4. g \in [SUBSET (S \cup {r}) -> Nat]
  BY <1>1, <1>2, <1>3
<1>5. \A s \in SUBSET (S \cup {r}) : g[s] = IF r \in s THEN f[s \ {r}] + amount ELSE f[s]
  BY <1>2
<1>6. g[{}] = 0
  BY <1>5 DEF AddsUp
<1>7. ASSUME NEW s \in SUBSET (S \cup {r}), NEW x \in (S \cup {r}) \ s
      PROVE  g[s \cup {x}] = g[s] + EntryAmount(x)'
  <2>1. CASE x = r
    <3>1. r \notin s /\ (s \cup {x}) \ {r} = s /\ s \cup {x} \in SUBSET (S \cup {r})
      BY <1>7, <2>1
    <3> QED
      BY <1>1, <1>3, <1>5, <2>1, <3>1
  <2>2. CASE x # r /\ r \in s
    <3>1. /\ (s \cup {x}) \ {r} = (s \ {r}) \cup {x} /\ s \ {r} \in SUBSET S /\ x \in S \ (s \ {r})
          /\ s \cup {x} \in SUBSET (S \cup {r}) /\ r \in s \cup {x}
      BY <1>7, <2>2
    <3>2. f[(s \ {r}) \cup {x}] = f[s \ {r}] + EntryAmount(x)
      BY <3>1, Zenon DEF AddsUp
    <3>3. g[s \cup {x}] = f[(s \ {r}) \cup {x}] + amount /\ g[s] = f[s \ {r}] + amount
      BY <1>5, <2>2, <3>1
    <3>4. f[s \ {r}] \in Nat /\ EntryAmount(x) \in Nat /\ EntryAmount(x)' = EntryAmount(x)
      BY <1>3, <3>1
    <3> QED
      BY <1>1, <3>2, <3>3, <3>4
  <2>3. CASE x # r /\ r \notin s
    <3>1. s \in SUBSET S /\ x \in S \ s /\ s \cup {x} \in SUBSET (S \cup {r}) /\ r \notin s \cup {x}
      BY <1>7, <2>3
    <3>2. f[s \cup {x}] = f[s] + EntryAmount(x)
      BY <3>1, Zenon DEF AddsUp
    <3>3. g[s \cup {x}] = f[s \cup {x}] /\ g[s] = f[s]
      BY <1>5, <2>3, <3>1
    <3> QED
      BY <3>1, <3>2, <3>3
  <2> QED
    BY <2>1, <2>2, <2>3
<1>8. AddsUp(g, S \cup {r})'
  BY <1>4, <1>6, <1>7 DEF AddsUp
<1>9. g[S \cup {r}] = f[S] + amount
  <2>1. (S \cup {r}) \ {r} = S /\ S \cup {r} \in SUBSET (S \cup {r}) /\ r \in S \cup {r}
    OBVIOUS
  <2> QED
    BY <1>5, <2>1
<1> QED
  BY <1>1, <1>8, <1>9

\* Steps that write no ledger entry leave the sums alone.
LEMMA SumsKept ==
  ASSUME WalletAddsUp, UNCHANGED <<ledger, wallet>>
  PROVE  WalletAddsUp'
<1>1. ASSUME NEW d \in Driver PROVE EntriesOf(d)' = EntriesOf(d) /\ wallet'[d] = wallet[d]
  BY DEF EntriesOf
<1>2. ASSUME NEW f, NEW S, AddsUp(f, S) PROVE AddsUp(f, S)'
  BY <1>2 DEF AddsUp, EntryAmount
<1> SUFFICES ASSUME NEW d \in Driver, EntriesOf(d)' # {}
             PROVE  \E f : AddsUp(f, EntriesOf(d))' /\ wallet'[d] = f[EntriesOf(d)']
  BY <1>1 DEF WalletAddsUp
<1>3. PICK f, S : S = EntriesOf(d) /\ AddsUp(f, S) /\ wallet[d] = f[S]
  BY <1>1 DEF WalletAddsUp
<1>4. AddsUp(f, S)'
  BY <1>2, <1>3
<1> QED
  BY <1>1, <1>3, <1>4

\* A commit adds its entry to the sum of its driver, and to no other.
LEMMA CommitAddsUp ==
  ASSUME BooksInv, WalletAddsUp, NEW q \in Request, Commit(q)
  PROVE  WalletAddsUp'
<1>1. PICK r, w, d : r = req[q].r /\ w = req[q].write /\ d = req[q].d
  OBVIOUS
<1>2. /\ r \in Ride /\ d = DriverOf[r] /\ d \in Driver /\ w \in Records
      /\ ~Recorded(record[r]) /\ record[r] \in Records
  BY <1>1, SettlementConstants DEF BooksInv, Shapes, ClaimsHold, WritesItsClaim, Working, Commit
<1>3. ledger[r] = None
  BY <1>2 DEF BooksInv, LedgerMatchesRecord, Recorded
<1>4. CASE ~(w.payout > 0)
  BY <1>1, <1>4, SumsKept DEF Commit
<1>5. CASE w.payout > 0
  <2>1. PICK entry : entry = [amount |-> w.payout, commission |-> w.commission]
    OBVIOUS
  <2>2. /\ entry.amount = w.payout /\ entry # None /\ w.payout \in Nat
        /\ entry \in [amount : Nat, commission : Nat]
    BY <1>2, <2>1, SettlementConstants DEF Records
  <2>3. /\ ledger' = [ledger EXCEPT ![r] = entry]
        /\ wallet' = [wallet EXCEPT ![d] = (IF @ = None THEN 0 ELSE @) + w.payout]
    BY <1>1, <1>5, <2>1 DEF Commit
  <2>4. /\ ledger \in [Ride -> [amount : Nat, commission : Nat] \cup {None}]
        /\ wallet \in [Driver -> Nat \cup {None}]
    BY DEF BooksInv, Shapes
  <2>5. ledger'[r] = entry /\ \A x \in Ride \ {r} : ledger'[x] = ledger[x]
    BY <1>2, <2>3, <2>4
  <2>6. EntryAmount(r)' = w.payout /\ \A x \in Ride \ {r} : EntryAmount(x)' = EntryAmount(x)
    BY <2>2, <2>5 DEF EntryAmount
  <2>7. SUFFICES ASSUME NEW e \in Driver
                 PROVE  IF EntriesOf(e)' = {} THEN wallet'[e] = None
                        ELSE \E f : AddsUp(f, EntriesOf(e))' /\ wallet'[e] = f[EntriesOf(e)']
    BY DEF WalletAddsUp
  <2>8. CASE e # d
    <3>1. EntriesOf(e)' = EntriesOf(e)
      BY <1>2, <2>5, <2>8 DEF EntriesOf
    <3>2. wallet'[e] = wallet[e]
      BY <2>3, <2>4, <2>8
    <3>3. CASE EntriesOf(e) = {}
      BY <3>1, <3>2, <3>3 DEF WalletAddsUp
    <3>4. CASE EntriesOf(e) # {}
      <4>1. PICK f : AddsUp(f, EntriesOf(e)) /\ wallet[e] = f[EntriesOf(e)]
        BY <3>4 DEF WalletAddsUp
      <4>2. r \notin EntriesOf(e) /\ EntriesOf(e) \subseteq Ride
        BY <1>2, <2>8 DEF EntriesOf
      <4>3. PICK E : E = EntriesOf(e)
        OBVIOUS
      <4>4. \A x \in E : EntryAmount(x)' = EntryAmount(x)
        BY <2>6, <4>2, <4>3
      <4>5. AddsUp(f, E)
        BY <4>1, <4>3
      <4>6. AddsUp(f, E)'
        BY <4>4, <4>5 DEF AddsUp
      <4> QED
        BY <3>1, <3>2, <3>4, <4>1, <4>3, <4>6
    <3> QED
      BY <3>3, <3>4
  <2>9. CASE e = d
    <3>1. PICK E : E = EntriesOf(d)
      OBVIOUS
    <3>2. r \notin E /\ EntriesOf(d)' = E \cup {r} /\ E \subseteq Ride
      BY <1>2, <1>3, <2>2, <2>5, <3>1 DEF EntriesOf
    <3>3. wallet'[d] = (IF wallet[d] = None THEN 0 ELSE wallet[d]) + w.payout
      BY <1>2, <2>3, <2>4
    <3>4. \A x \in E : EntryAmount(x)' = EntryAmount(x) /\ EntryAmount(x) \in Nat
      BY <2>4, <2>6, <3>1, <3>2 DEF EntriesOf, EntryAmount
    <3>5. PICK f : AddsUp(f, E) /\ f[E] = IF wallet[d] = None THEN 0 ELSE wallet[d]
      <4>1. CASE E = {}
        <5>1. wallet[d] = None
          BY <1>2, <3>1, <4>1 DEF WalletAddsUp
        <5>2. PICK f : f = [s \in SUBSET E |-> 0]
          OBVIOUS
        <5>3. AddsUp(f, E) /\ f[E] = 0
          BY <4>1, <5>2 DEF AddsUp
        <5> QED
          BY <5>1, <5>3
      <4>2. CASE E # {}
        <5>1. PICK f : AddsUp(f, E) /\ wallet[d] = f[E]
          BY <1>2, <3>1, <4>2 DEF WalletAddsUp
        <5>2. wallet[d] \in Nat
          BY <5>1 DEF AddsUp
        <5>3. wallet[d] # None
          BY <5>2, SettlementConstants
        <5> QED
          BY <5>1, <5>3
      <4> QED
        BY <4>1, <4>2
    <3>6. EntryAmount(r)' \in Nat
      BY <2>2, <2>6
    <3>7. PICK g : AddsUp(g, E \cup {r})' /\ g[E \cup {r}] = f[E] + EntryAmount(r)'
      BY <3>2, <3>4, <3>5, <3>6, SumsExtend
    <3>8. wallet'[d] = g[E \cup {r}]
      BY <2>6, <3>3, <3>5, <3>7
    <3>9. AddsUp(g, EntriesOf(d))' /\ wallet'[d] = g[EntriesOf(d)'] /\ EntriesOf(d)' # {}
      BY <3>2, <3>7, <3>8
    <3> QED
      BY <2>9, <3>9
  <2> QED
    BY <2>8, <2>9
<1> QED
  BY <1>4, <1>5

LEMMA WalletStep == BooksInv /\ WalletAddsUp /\ [Next]_vars => WalletAddsUp'
<1> SUFFICES ASSUME BooksInv, WalletAddsUp, [Next]_vars PROVE WalletAddsUp'
  OBVIOUS
<1>1. ASSUME NEW q \in Request, Step(q), ~Commit(q) PROVE UNCHANGED <<ledger, wallet>>
  BY <1>1 DEF Step, LockRide, CreateWalletLedger, LockWallet, CreateDriverWalletAccount, Fail
<1>2. ASSUME NEW q \in Request, Abandon(q) PROVE UNCHANGED <<ledger, wallet>>
  BY <1>2 DEF Abandon, Fail
<1>3. ASSUME NEW q \in Request, NEW r \in Ride, NEW d \in Driver, NEW c \in Claim, SettleCash(q, r, d, c)
      PROVE  UNCHANGED <<ledger, wallet>>
  BY <1>3 DEF SettleCash
<1>4. ASSUME NEW r \in Ride, CompleteRide(r) PROVE UNCHANGED <<ledger, wallet>>
  BY <1>4 DEF CompleteRide
<1>5. CASE UNCHANGED vars
  BY <1>5, SumsKept DEF vars
<1> QED
  BY <1>1, <1>2, <1>3, <1>4, <1>5, SumsKept, CommitAddsUp DEF Next

\* The balance of every driver is the sum of the driver's ledger entries, for any number of rides,
\* drivers and settlements under way: the row lock lets one settlement of a ride reach the ledger,
\* and that one credits the driver of the ride with its entry.
THEOREM WalletIsLedgerAlways == Spec => []WalletIsLedger
<1>1. Init => WalletAddsUp
  BY DEF Init, WalletAddsUp, EntriesOf
<1>2. BooksInv /\ WalletAddsUp => WalletIsLedger
  <2> SUFFICES ASSUME BooksInv, WalletAddsUp, NEW d \in Driver, EntriesOf(d) # {}
               PROVE  wallet[d] = MapThenSumSet(EntryAmount, EntriesOf(d))
    BY Zenon DEF WalletIsLedger, WalletAddsUp
  <2>1. PICK f : AddsUp(f, EntriesOf(d)) /\ wallet[d] = f[EntriesOf(d)]
    BY DEF WalletAddsUp
  <2>2. EntriesOf(d) \subseteq Ride /\ \A r \in EntriesOf(d) : EntryAmount(r) \in Nat
    BY DEF BooksInv, Shapes, EntriesOf, EntryAmount
  <2>3. IsFiniteSet(EntriesOf(d))
    BY <2>2, FS_Subset, SettlementConstants
  <2> QED
    BY <2>1, <2>2, <2>3, SumAddsUp
<1> QED
  BY <1>1, <1>2, BooksInit, BooksStep, WalletStep, PTL DEF Spec
=============================================================================
