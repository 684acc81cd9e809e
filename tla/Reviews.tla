------------------------------ MODULE Reviews ------------------------------
(* Reviews of completed rides: how they are created (review/app, its repository
   and the two tables with their unique indexes) and how a client pages through
   those of one driver (review/transport/http, httpx/request/cursor.go) while
   others are added. Creating is a check and an insert without a transaction
   around them; created_at is taken when the insert starts, the id and the row
   come when it ends. *)
EXTENDS Naturals, FiniteSets, Sequences, Functions

CONSTANTS Ride,      \* rides of one driver
          Rating,
          Rater,     \* handlers of POST requests
          PageSize,
          MaxClock,  \* bound on the clock created_at is read from
          Blank      \* no value

Kind == {"driver", "passenger"}   \* the tables: reviews and passenger_reviews
Mode == {"cursor", "offset"}      \* how the client may page

Row == [kind : Kind, ride : Ride, rating : Rating, stamp : 1 .. MaxClock, id : Nat]

ReviewConstants ==
  /\ PageSize \in Nat \ {0} /\ MaxClock \in Nat \ {0}
  /\ Rating \cap {Blank, "refused", "error"} = {}
  /\ Blank \notin Kind /\ Blank \notin Mode /\ Blank \notin Row

VARIABLES
  over,   \* the completed rides
  rows,   \* both tables
  today, nextId,
  req,    \* the POST requests in progress
  page    \* the paging client: its mode, boundary, what it saw, and what was there at the start

reviewVars == <<over, rows, today, nextId, req, page>>

Fresh == [at |-> "idle", kind |-> Blank, ride |-> Blank, rating |-> Blank, stamp |-> Blank, answer |-> Blank]
FirstPage == [mode |-> Blank, before |-> Blank, offset |-> 0, seen |-> <<>>, there |-> {}, grown |-> FALSE, done |-> FALSE]

ReviewTypeOK ==
  /\ over \subseteq Ride /\ rows \subseteq Row /\ today \in 1 .. MaxClock /\ nextId \in Nat
  /\ req \in [Rater -> [at : {"idle", "validate", "check", "insert", "commit", "load", "done"},
                        kind : Kind \cup {Blank}, ride : Ride \cup {Blank}, rating : Rating \cup {Blank},
                        stamp : 1 .. MaxClock \cup {Blank}, answer : Rating \cup {Blank, "refused", "error"}]]
  /\ page \in [mode : Mode \cup {Blank}, before : Row \cup {Blank}, offset : Nat, seen : Seq(Row),
               there : SUBSET Row, grown : BOOLEAN, done : BOOLEAN]

ReviewInit ==
  /\ over = {} /\ rows = {} /\ today = 1 /\ nextId = 1
  /\ req = [q \in Rater |-> Fresh]
  /\ page = FirstPage

(***************************************************************************)
(* CreateReview and CreatePassengerReview                                  *)
(***************************************************************************)

Onward(q, at) == req' = [req EXCEPT ![q].at = at]
Answer(q, a) == req' = [req EXCEPT ![q].at = "done", ![q].answer = a]
ReviewOf(kind, ride) == {w \in rows : w.kind = kind /\ w.ride = ride}

\* A rider or driver rates a ride; the rating is within its limits.
Submit(q, kind, ride, rating) ==
  /\ req[q].at = "idle"
  /\ req' = [req EXCEPT ![q] = [Fresh EXCEPT !.at = "validate", !.kind = kind, !.ride = ride, !.rating = rating]]
  /\ UNCHANGED <<over, rows, today, nextId, page>>

\* validateReviewableRide: the ride is read and must be completed, and the caller one of its two.
Validate(q) ==
  /\ req[q].at = "validate"
  /\ \/ req[q].ride \in over /\ Onward(q, "check")
     \/ Answer(q, "refused")
  /\ UNCHANGED <<over, rows, today, nextId, page>>

\* HasReviewForRide; the name of the passenger is read for the new row.
Check(q) ==
  /\ req[q].at = "check"
  /\ Onward(q, IF ReviewOf(req[q].kind, req[q].ride) = {} THEN "insert" ELSE "load")
  /\ UNCHANGED <<over, rows, today, nextId, page>>

\* The INSERT begins: CURRENT_TIMESTAMP.
Stamp(q) ==
  /\ req[q].at = "insert"
  /\ req' = [req EXCEPT ![q].at = "commit", ![q].stamp = today]
  /\ UNCHANGED <<over, rows, today, nextId, page>>

\* (mutant: the caller is told of the review it sent, not of the one that stands)
InsertOwnAnswer(q) ==
  /\ IF ReviewOf(req[q].kind, req[q].ride) = {}
     THEN rows' = rows \cup {[kind |-> req[q].kind, ride |-> req[q].ride, rating |-> req[q].rating,
                              stamp |-> req[q].stamp, id |-> nextId]} /\ nextId' = nextId + 1
     ELSE UNCHANGED <<rows, nextId>>
  /\ Answer(q, req[q].rating)

\* The unique index lets one review per ride in; the other caller goes on to load it.
Insert(q) ==
  IF ReviewOf(req[q].kind, req[q].ride) = {}
  THEN /\ rows' = rows \cup {[kind |-> req[q].kind, ride |-> req[q].ride, rating |-> req[q].rating,
                              stamp |-> req[q].stamp, id |-> nextId]}
       /\ nextId' = nextId + 1
       /\ Answer(q, req[q].rating)
  ELSE Onward(q, "load") /\ UNCHANGED <<rows, nextId>>

Grows == page' = [page EXCEPT !.grown = @ \/ (page.mode # Blank /\ rows' # rows)]

CommitReview(q) ==
  /\ req[q].at = "commit"
  /\ Insert(q) /\ Grows
  /\ UNCHANGED <<over, today>>

\* The answer of a committed INSERT is lost.
CommitUnanswered(q) ==
  /\ req[q].at = "commit" /\ ReviewOf(req[q].kind, req[q].ride) = {}
  /\ rows' = rows \cup {[kind |-> req[q].kind, ride |-> req[q].ride, rating |-> req[q].rating,
                         stamp |-> req[q].stamp, id |-> nextId]}
  /\ nextId' = nextId + 1
  /\ Answer(q, "error") /\ Grows
  /\ UNCHANGED <<over, today>>

\* existingDriverReview, existingPassengerReview: the review that stands is the answer.
Load(q) ==
  /\ req[q].at = "load"
  /\ \E w \in ReviewOf(req[q].kind, req[q].ride) : Answer(q, w.rating)
  /\ UNCHANGED <<over, rows, today, nextId, page>>

Fail(q) ==
  /\ req[q].at \notin {"idle", "done"}
  /\ Answer(q, "error")
  /\ UNCHANGED <<over, rows, today, nextId, page>>

Retire(q) ==
  /\ req[q].at = "done"
  /\ req' = [req EXCEPT ![q] = Fresh]
  /\ UNCHANGED <<over, rows, today, nextId, page>>

CompleteRide(r) == r \notin over /\ over' = over \cup {r} /\ UNCHANGED <<rows, today, nextId, req, page>>

ReviewTick == today < MaxClock /\ today' = today + 1 /\ UNCHANGED <<over, rows, nextId, req, page>>

(***************************************************************************)
(* DriverReviews                                                           *)
(***************************************************************************)

\* ORDER BY created_at DESC, id DESC.
Newer(v, w) == v.stamp > w.stamp \/ (v.stamp = w.stamp /\ v.id > w.id)

\* (mutant: only the times are compared)
OlderByTime(w, b) == w.stamp < b.stamp

\* (created_at, id) < (before_created_at, before_id).
Older(w, b) == Newer(b, w)

\* How many of S come before w.
Place(w, S) == Cardinality({v \in S : Newer(v, w)})

\* ListDriverReviews, one statement over what is committed.
List(b, offset, limit) ==
  LET match == {w \in rows : w.kind = "driver" /\ (b = Blank \/ Older(w, b))}
      total == Cardinality(match)
      last == IF offset + limit < total THEN offset + limit ELSE total
  IN [i \in 1 .. last - offset |-> CHOOSE w \in match : Place(w, match) = offset + i - 1]

\* EncodeListCursor of the last review of the page.
Boundary(items) == items[PageSize]

Open(mode) ==
  /\ page.mode = Blank
  /\ page' = [FirstPage EXCEPT !.mode = mode, !.there = {w \in rows : w.kind = "driver"}]
  /\ UNCHANGED <<over, rows, today, nextId, req>>

\* One review more than the page is asked for; if it comes, there is a next page.
CursorPage ==
  LET items == List(page.before, 0, PageSize + 1)
      more == Len(items) > PageSize
      shown == IF more THEN SubSeq(items, 1, PageSize) ELSE items
  IN /\ page.mode = "cursor" /\ ~page.done
     /\ page' = [page EXCEPT !.seen = @ \o shown,
                             !.before = IF more THEN Boundary(items) ELSE @,
                             !.done = ~more]
     /\ UNCHANGED <<over, rows, today, nextId, req>>

\* Older callers ask by offset, until a page is not full.
OffsetPage ==
  LET items == List(Blank, page.offset, PageSize)
  IN /\ page.mode = "offset" /\ ~page.done
     /\ page' = [page EXCEPT !.seen = @ \o items, !.offset = @ + Len(items), !.done = Len(items) < PageSize]
     /\ UNCHANGED <<over, rows, today, nextId, req>>

ReviewNext ==
  \/ \E q \in Rater :
       \/ \E k \in Kind, r \in Ride, n \in Rating : Submit(q, k, r, n)
       \/ Validate(q) \/ Check(q) \/ Stamp(q) \/ CommitReview(q) \/ CommitUnanswered(q)
       \/ Load(q) \/ Fail(q) \/ Retire(q)
  \/ \E r \in Ride : CompleteRide(r)
  \/ ReviewTick
  \/ \E m \in Mode : Open(m)
  \/ CursorPage \/ OffsetPage

ReviewSpec == ReviewInit /\ [][ReviewNext]_reviewVars

(***************************************************************************)
(* Properties                                                              *)
(***************************************************************************)

\* A ride has one review of each kind, although the check and the insert are not one step.
OneReviewPerRide == \A v, w \in rows : v.kind = w.kind /\ v.ride = w.ride => v = w

\* Who is answered with a review is answered with the one that stands, also if another request
\* came first or an earlier answer was lost.
AnswerStands ==
  \A q \in Rater :
    req[q].answer \in Rating
      => \E w \in ReviewOf(req[q].kind, req[q].ride) : w.rating = req[q].answer

\* A client that has paged to the end has seen every review that was there when it began, however
\* many were added in between and with whatever times.
PagesComplete == page.done => page.there \subseteq {page.seen[i] : i \in DOMAIN page.seen}

\* With a cursor no review comes twice; by offset one does only if reviews were added meanwhile.
PagesDisjoint == IsInjective(page.seen) \/ (page.mode = "offset" /\ page.grown)

\* Reviews: a ride has one review of each kind, and who is answered with a review is answered with
\* the one that stands; a client that paged to the end has seen every review that was there when it
\* began, and with a cursor none twice, whatever was added meanwhile.
ReviewsStand == ReviewTypeOK /\ OneReviewPerRide /\ AnswerStands /\ PagesComplete /\ PagesDisjoint
=============================================================================
