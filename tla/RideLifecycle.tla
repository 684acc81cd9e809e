--------------------------- MODULE RideLifecycle ---------------------------
(***************************************************************************)
(* One ride from its request to its end.  A command first reads the ride   *)
(* and decides (service.store.Get and the checks after it), then writes    *)
(* with a compare-and-set on the row; other commands run in between.       *)
(* Cancel reads twice: LifecycleService.transition loads the ride again.   *)
(*                                                                         *)
(* Left out: the payload of events, the details of a reason (two commands  *)
(* that give the same reason give the same details), coordinates (near:    *)
(* the driver's telemetry is fresh and within the arrival radius), and the *)
(* status "assigned", which no command of this version writes and every    *)
(* check treats as "accepted".                                             *)
(***************************************************************************)
EXTENDS Naturals, Sequences

CONSTANTS
  Driver,       \* drivers who may take the ride
  Request,      \* request slots: each runs one command after another
  None

Passenger == "passenger"
Actor == Driver \cup {Passenger}

ASSUME LifecycleConstants == None \notin Driver /\ Passenger \notin Driver

VARIABLES
  status,       \* rides.status
  driver,       \* rides.driver_id
  cancelledBy,  \* rides.cancelled_by
  reason,       \* rides.cancellation_reason
  blame,        \* rides.cancellation_responsibility
  events,       \* ride_events of the ride, oldest first
  wait,         \* how far the pickup wait has come since arrived_at
  near,         \* the driver is at the pickup point, by fresh telemetry
  req           \* the commands

row  == <<status, driver, cancelledBy, reason, blame, events>>
vars == <<row, wait, near, req>>

Status   == {"requested", "accepted", "arrived", "in_transit", "completed", "cancelled"}
Terminal == {"completed", "cancelled"}

\* "recent": less than three seconds after arrived_at; "almost": within the five
\* seconds the service tolerates before waiting_until; "over": past it.
Wait == {"none", "recent", "waiting", "almost", "over"}
NextWait == [recent |-> "waiting", waiting |-> "almost", almost |-> "over"]

\* Ordinary reasons of the passenger and of the driver ("other" is in both
\* lists), and reasons of an emergency stop.
PassengerReason == {"changed_mind", "other"}
DriverReason    == {"vehicle_problem", "accident", "other"}
EmergencyReason == {"accident", "other"}
Reason == PassengerReason \cup DriverReason \cup EmergencyReason \cup {"no_show"}

\* passengerCancellationResponsibility, driverCancellationResponsibility
Responsibility(a, why) ==
  IF a = Passenger
  THEN IF why = "other" THEN "pending_review" ELSE "passenger_fault"
  ELSE [vehicle_problem |-> "driver_fault", accident |-> "safety_related",
        other |-> "pending_review"][why]

Blame == {"passenger_fault", "driver_fault", "safety_related", "pending_review"}

CanTransition(from, to) ==
  <<from, to>> \in
    {<<"requested", "accepted">>, <<"accepted", "arrived">>, <<"arrived", "in_transit">>,
     <<"in_transit", "completed">>, <<"requested", "cancelled">>, <<"accepted", "cancelled">>,
     <<"arrived", "cancelled">>, <<"in_transit", "cancelled">>}

CanEmergencyStop(st) == st \in {"accepted", "arrived", "in_transit"}

IsActive(st) == st \notin Terminal

----------------------------------------------------------------------------
(* Commands: what they are and how far they got *)

Command == {"AcceptRide", "UpdateStatus", "MarkArrived", "StartTrip", "CompleteTrip",
            "MarkPassengerNoShow", "Cancel", "EmergencyStop"}

\* pc: idle, reload (Cancel before transition's read), write, ok; seen: the status
\* the write will compare with.  A slot keeps its last successful answer until
\* its next command; an error answer leaves nothing behind.
NoCommand == [pc |-> "idle", cmd |-> None, actor |-> None, why |-> None, seen |-> None]

EventType == {"ride.status_changed", "ride.cancelled", "ride.emergency_stopped"}

TypeOK ==
  /\ status \in Status
  /\ driver \in Driver \cup {None}
  /\ cancelledBy \in Actor \cup {None}
  /\ reason \in Reason \cup {None}
  /\ blame \in Blame \cup {None}
  /\ events \in Seq([type : EventType, by : Actor, from : Status, to : Status,
                     why : Reason \cup {None}])
  /\ wait \in Wait
  /\ near \in BOOLEAN
  /\ req \in [Request -> [pc : {"idle", "reload", "write", "ok"},
                          cmd : Command \cup {None}, actor : Actor \cup {None},
                          why : Reason \cup {None}, seen : Status \cup {None}]]

Init ==
  /\ status = "requested" /\ driver = None
  /\ cancelledBy = None /\ reason = None /\ blame = None
  /\ events = <<>> /\ wait = "none" /\ near = FALSE
  /\ req = [q \in Request |-> NoCommand]

IsParticipant(a) == a = Passenger \/ a = driver

\* The command decides after a read: it answers (ok, failed) or goes on.
Outcome(cmd, a, why, pc) ==
  IF pc = "failed" THEN NoCommand
  ELSE [pc |-> pc, cmd |-> cmd, actor |-> a, why |-> why,
        seen |-> IF pc = "write" THEN status ELSE None]

Decide(q, cmd, a, why, pc) ==
  /\ req[q].pc \in {"idle", "ok"}
  /\ req' = [req EXCEPT ![q] = Outcome(cmd, a, why, pc)]
  /\ UNCHANGED <<row, wait, near>>

----------------------------------------------------------------------------
(* First reads *)

\* AcceptRide: replayed when the driver already has the ride, else the store
\* tries to take it whatever the read said.
ReadAcceptRide(q, d) ==
  Decide(q, "AcceptRide", d, None,
         IF driver = d /\ IsActive(status) /\ status # "requested" THEN "ok" ELSE "write")

\* UpdateStatus: transition with an ordinary status change.  Every status a
\* participant could move to has a command of its own, so it only ever
\* acknowledges the status the ride already has.
ReadUpdateStatus(q, a, next) ==
  Decide(q, "UpdateStatus", a, None,
         IF IsParticipant(a) /\ status = next THEN "ok" ELSE "failed")

ReadMarkArrived(q, d) ==
  Decide(q, "MarkArrived", d, None,
         IF driver # d THEN "failed"
         ELSE IF status = "arrived" THEN "ok"
         ELSE IF status = "accepted" /\ near THEN "write"
         ELSE "failed")

ReadStartTrip(q, d) ==
  Decide(q, "StartTrip", d, None,
         IF driver # d THEN "failed"
         ELSE IF status = "in_transit" THEN "ok"
         ELSE IF status = "arrived" /\ near /\ wait # "recent" THEN "write"
         ELSE "failed")

ReadCompleteTrip(q, d) ==
  Decide(q, "CompleteTrip", d, None,
         IF driver # d THEN "failed"
         ELSE IF status = "completed" THEN "ok"
         ELSE IF status = "in_transit" THEN "write"
         ELSE "failed")

ReadMarkPassengerNoShow(q, d) ==
  Decide(q, "MarkPassengerNoShow", d, None,
         IF driver # d THEN "failed"
         ELSE IF /\ status = "cancelled" /\ cancelledBy = d
                 /\ reason = "no_show" /\ blame = "passenger_fault" THEN "ok"
         ELSE IF status = "arrived" /\ wait \in {"almost", "over"} THEN "write"
         ELSE "failed")

ReadCancel(q, a, why) ==
  Decide(q, "Cancel", a, why,
         IF ~IsParticipant(a) THEN "failed"
         ELSE IF status = "cancelled"
         THEN IF cancelledBy = a /\ reason = why THEN "ok" ELSE "failed"
         ELSE IF /\ CanTransition(status, "cancelled")
                 /\ why \in IF a = Passenger THEN PassengerReason ELSE DriverReason
         THEN "reload" ELSE "failed")

ReadEmergencyStop(q, a, why) ==
  Decide(q, "EmergencyStop", a, why,
         IF ~IsParticipant(a) THEN "failed"
         ELSE IF status = "cancelled" /\ cancelledBy = a /\ reason = why THEN "ok"
         ELSE IF CanEmergencyStop(status) THEN "write" ELSE "failed")

\* transition loads the ride again; a ride that already has the next status is
\* returned as it is.
Reload(q) ==
  /\ req[q].pc = "reload"
  /\ req' = [req EXCEPT ![q] =
       Outcome("Cancel", req[q].actor, req[q].why,
               IF ~IsParticipant(req[q].actor) THEN "failed"
               ELSE IF status = "cancelled" THEN "ok"
               ELSE IF CanTransition(status, "cancelled") THEN "write"
               ELSE "failed")]
  /\ UNCHANGED <<row, wait, near>>

----------------------------------------------------------------------------
(* Writes: the UPDATE's WHERE, the row, and the ride event, in one transaction *)

Write(q, cmd) == req[q].pc = "write" /\ req[q].cmd = cmd

\* Mutant: the WHERE clauses without their status.
MatchesById(q) ==
  req[q].cmd \in {"Cancel", "EmergencyStop"} => IsParticipant(req[q].actor)

\* Mutant: the no-show UPDATE trusts the service's reading of the clock.
MatchesUntimed(q) ==
  CASE req[q].cmd = "AcceptRide" -> status = "requested"
    [] req[q].cmd \in {"Cancel", "EmergencyStop"} ->
         IsParticipant(req[q].actor) /\ status = req[q].seen
    [] OTHER -> driver = req[q].actor /\ status = req[q].seen

Matches(q) ==
  LET a == req[q].actor IN
  CASE req[q].cmd = "AcceptRide"          -> status = "requested"
    [] req[q].cmd = "MarkArrived"         -> driver = a /\ status = req[q].seen
    [] req[q].cmd = "StartTrip"           -> driver = a /\ status = "arrived"
    [] req[q].cmd = "CompleteTrip"        -> driver = a /\ status = "in_transit"
    [] req[q].cmd = "MarkPassengerNoShow" -> driver = a /\ status = "arrived" /\ wait = "over"
    [] OTHER                              -> IsParticipant(a) /\ status = req[q].seen

Finish(q, pc) ==
  req' = [req EXCEPT ![q] = Outcome(@.cmd, @.actor, @.why, pc)]

\* The event's from_status is what the command read, not what the row holds.
Record(q, type, to, why) ==
  /\ status' = to
  /\ events' = Append(events, [type |-> type, by |-> req[q].actor,
                               from |-> req[q].seen, to |-> to, why |-> why])

\* The UPDATE matches no row, or the transaction fails: nothing is written.
WriteFails(q) ==
  /\ req[q].pc = "write"
  /\ Finish(q, "failed")
  /\ UNCHANGED <<row, wait, near>>

WriteAcceptRide(q) ==
  /\ Write(q, "AcceptRide") /\ Matches(q)
  /\ status' = "accepted" /\ driver' = req[q].actor
  /\ Finish(q, "ok")
  /\ UNCHANGED <<cancelledBy, reason, blame, events, wait, near>>

WriteMarkArrived(q) ==
  /\ Write(q, "MarkArrived") /\ Matches(q)
  /\ Record(q, "ride.status_changed", "arrived", None)
  /\ wait' = "recent"
  /\ Finish(q, "ok")
  /\ UNCHANGED <<driver, cancelledBy, reason, blame, near>>

\* Mutant: the trip starts without its ride event.
StartTripUnrecorded(q) ==
  /\ Write(q, "StartTrip") /\ Matches(q)
  /\ status' = "in_transit"
  /\ Finish(q, "ok")
  /\ UNCHANGED <<driver, cancelledBy, reason, blame, events, wait, near>>

WriteStartTrip(q) ==
  /\ Write(q, "StartTrip") /\ Matches(q)
  /\ Record(q, "ride.status_changed", "in_transit", None)
  /\ Finish(q, "ok")
  /\ UNCHANGED <<driver, cancelledBy, reason, blame, wait, near>>

WriteCompleteTrip(q) ==
  /\ Write(q, "CompleteTrip") /\ Matches(q)
  /\ Record(q, "ride.status_changed", "completed", None)
  /\ Finish(q, "ok")
  /\ UNCHANGED <<driver, cancelledBy, reason, blame, wait, near>>

WriteCancelled(q, cmd, type, why, fault) ==
  /\ Write(q, cmd) /\ Matches(q)
  /\ Record(q, type, "cancelled", why)
  /\ cancelledBy' = req[q].actor /\ reason' = why /\ blame' = fault
  /\ Finish(q, "ok")
  /\ UNCHANGED <<driver, wait, near>>

WriteMarkPassengerNoShow(q) ==
  WriteCancelled(q, "MarkPassengerNoShow", "ride.cancelled", "no_show", "passenger_fault")

\* The responsibility was derived at the first read; it depends on actor and reason.
WriteCancel(q) ==
  WriteCancelled(q, "Cancel", "ride.cancelled", req[q].why,
                 Responsibility(req[q].actor, req[q].why))

WriteEmergencyStop(q) ==
  WriteCancelled(q, "EmergencyStop", "ride.emergency_stopped", req[q].why, "safety_related")

----------------------------------------------------------------------------
(* Time and telemetry *)

WaitPasses ==
  /\ status = "arrived"
  /\ wait \in DOMAIN NextWait
  /\ wait' = NextWait[wait]
  /\ UNCHANGED <<row, near, req>>

DriverMoves ==
  /\ near' = ~near
  /\ UNCHANGED <<row, wait, req>>

Next ==
  \/ \E q \in Request, d \in Driver :
       \/ ReadAcceptRide(q, d) \/ ReadMarkArrived(q, d) \/ ReadStartTrip(q, d)
       \/ ReadCompleteTrip(q, d) \/ ReadMarkPassengerNoShow(q, d)
  \/ \E q \in Request, a \in Actor :
       \/ \E why \in Reason : ReadCancel(q, a, why)
       \/ \E next \in Status : ReadUpdateStatus(q, a, next)
       \/ \E why \in EmergencyReason : ReadEmergencyStop(q, a, why)
  \/ \E q \in Request :
       \/ Reload(q) \/ WriteFails(q) \/ WriteAcceptRide(q) \/ WriteMarkArrived(q)
       \/ WriteStartTrip(q) \/ WriteCompleteTrip(q) \/ WriteMarkPassengerNoShow(q)
       \/ WriteCancel(q) \/ WriteEmergencyStop(q)
  \/ WaitPasses
  \/ DriverMoves

Spec == Init /\ [][Next]_vars

----------------------------------------------------------------------------
(* Properties *)

LastEvent == events[Len(events)]

\* Whatever commands race between their reads and their writes, the status only
\* moves along CanTransition; in particular a finished ride stays finished.
StatusPath == [][status' # status => CanTransition(status, status')]_vars

\* ride_events is the history of the row although each from_status was read
\* before the UPDATE: the events form one chain from acceptance (or from the
\* request, when that is cancelled) to the current status, none missing.
EventsTellHistory ==
  /\ TypeOK
  /\ events = <<>> <=> status \in {"requested", "accepted"}
  /\ events # <<>> => /\ LastEvent.to = status
                     /\ events[1].from = IF driver = None THEN "requested" ELSE "accepted"
  /\ \A i \in 1..Len(events) : CanTransition(events[i].from, events[i].to)
  /\ \A i \in 1..(Len(events) - 1) : events[i].to = events[i + 1].from

\* What a command answered stays true: a driver who was told the ride is theirs
\* keeps it, an arrival is not undone, a completion is never turned into a
\* cancellation nor the reverse.
AnswersHold ==
  \A q \in Request : req[q].pc = "ok" =>
    CASE req[q].cmd = "AcceptRide"   -> driver = req[q].actor
      [] req[q].cmd = "MarkArrived"  -> status \notin {"requested", "accepted"}
      [] req[q].cmd = "StartTrip"    -> status \in {"in_transit"} \cup Terminal
      [] req[q].cmd = "CompleteTrip" -> status = "completed"
      [] req[q].cmd = "UpdateStatus" -> TRUE
      [] OTHER                       -> status = "cancelled"

\* "A driver's statement alone is not enough to penalize a passenger": a driver
\* can put the fault on the passenger only by the no-show command, on a ride that
\* waited at the pickup to the end of waiting_until.  A passenger's claim never
\* puts the fault on the driver, and an emergency stop blames neither.
BlameNeedsEvidence ==
  status = "cancelled" =>
    /\ cancelledBy = LastEvent.by /\ reason = LastEvent.why
    /\ blame = "passenger_fault" /\ cancelledBy # Passenger =>
         reason = "no_show" /\ wait = "over" /\ LastEvent.from = "arrived"
    /\ blame = "driver_fault" => cancelledBy = driver
    /\ LastEvent.type = "ride.emergency_stopped" => blame = "safety_related"

\* TestCancelRejectsDifferentRetryForAnAlreadyCancelledRide: a Cancel that the
\* recorded cancellation does not match is refused, not acknowledged.
CancelAcknowledgesOwnCancellation ==
  \A q \in Request :
    req[q].pc = "ok" /\ req[q].cmd = "Cancel" =>
      cancelledBy = req[q].actor /\ reason = req[q].why
============================================================================
