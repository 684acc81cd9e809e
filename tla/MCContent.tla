----------------------------- MODULE MCContent -----------------------------
(* What people keep and leave behind: a driver's profile (DriverPresence), messages
   and pictures (Chat), reviews (Reviews) and private objects (PrivateObjects). They
   share no state, so each behaviour moves one of them, the last three in one of two
   settings. *)
EXTENDS DriverPresence, Chat, Reviews, PrivateObjects, TLC

ASSUME ContentAssumption ==
  PresenceConstants /\ ChatConstants /\ ReviewConstants /\ ObjectConstants

VARIABLE focus   \* what moves

\* The room is open: the members may have talked, by requests that are left out.
ReceiptsInit ==
  /\ contact = TRUE /\ room = [exists |-> TRUE, locked |-> FALSE] /\ members = {Passenger, Driver}
  /\ history = <<>> /\ watermark = [u \in User |-> 0] /\ objects = {} /\ time = 1
  /\ talk = [q \in Talker |-> NoTalk] /\ broken = {} /\ known = [u \in User |-> 0]

\* The rides are over, and two reviews of the same instant are there.
PagingInit ==
  /\ over = Ride /\ today = 1 /\ nextId = 3
  /\ rows = {[kind |-> "driver", ride |-> r, rating |-> "high", stamp |-> 1, id |-> r] : r \in {1, 2}}
  /\ req = [q \in Rater |-> Fresh] /\ page = FirstPage

ContentInit ==
  /\ focus \in {"profile", "talk", "receipts", "rate", "paging", "storage", "migration"}
  /\ Init /\ (focus # "profile" => vehicle = CHOOSE v \in Vehicles : TRUE)
  /\ IF focus = "receipts" THEN ReceiptsInit ELSE ChatInit
  /\ IF focus = "paging" THEN PagingInit ELSE ReviewInit
  /\ ObjectInit /\ mig.pc = IF focus = "migration" THEN "next" ELSE "done"

\* Everybody opens, writes, sends pictures and resolves, at one instant and at most three of them.
Talking ==
  /\ \A q \in Talker : talk[q].op # "read"
  /\ time = 1 /\ Cardinality({q \in Talker : talk[q].pc # "idle"}) <= 3

\* Messages and acknowledgements in an open room, without failures.
Acknowledging == \A q \in Talker : talk[q].op \in {"none", "text", "read"} /\ talk[q].answer # "refused"

Raters == {q \in Rater : req[q].at # "idle"}

\* Both parties of one ride rate it.
RatingOneRide ==
  /\ Cardinality(Raters) <= 2 /\ today = 1 /\ page.mode = Blank
  /\ over \subseteq {1} /\ \A q \in Raters : req[q].ride = 1

\* A client pages through a driver's reviews while others come; rides without a review are alike, so
\* they are rated in order.
Paging ==
  LET rated == {w.ride : w \in rows} \cup {req[q].ride : q \in Raters}
  IN /\ Cardinality(Raters) <= 2 /\ \A q \in Raters : req[q].kind = "driver" /\ req[q].rating = "high"
     /\ \A r \in Ride, s \in Ride : r < s /\ s \in rated => r \in rated

\* Uploads that overlap and fail, without the migration or a download.
Storing == mig.pc = "done" /\ \A r \in Readers : reader[r].pc = "idle"

\* An upload of an avatar and a download while the migration runs.
Migrating == \A u \in Uploads \ {CHOOSE a \in Avatars : TRUE} : up[u].pc = "idle"

ContentNext ==
  /\ \/ focus = "profile" /\ Next /\ UNCHANGED <<chatVars, reviewVars, objectVars>>
     \/ /\ ChatNext /\ UNCHANGED <<vars, reviewVars, objectVars>>
        /\ (focus = "talk" /\ Talking') \/ (focus = "receipts" /\ Acknowledging')
     \/ /\ ReviewNext /\ UNCHANGED <<vars, chatVars, objectVars>>
        /\ (focus = "rate" /\ RatingOneRide') \/ (focus = "paging" /\ Paging')
     \/ /\ ObjectNext /\ UNCHANGED <<vars, chatVars, reviewVars>>
        /\ (focus = "storage" /\ Storing') \/ (focus = "migration" /\ Migrating')
  /\ UNCHANGED focus

ContentSpec == ContentInit /\ [][ContentNext]_<<focus, vars, chatVars, reviewVars, objectVars>>

Symmetry == Permutations(Talker)
=============================================================================
