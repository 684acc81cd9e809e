------------------------ MODULE RideLifecycleProofs ------------------------
(* One ride, for any drivers and any number of commands between their reads
   and their writes. *)
EXTENDS RideLifecycle, TLAPS

Slot == [pc : {"idle", "reload", "write", "ok"}, cmd : Command \cup {None}, actor : Actor \cup {None},
         why : Reason \cup {None}, seen : Status \cup {None}]

Event == [type : EventType, by : Actor, from : Status, to : Status, why : Reason \cup {None}]

OfDriver == {"AcceptRide", "MarkArrived", "StartTrip", "CompleteTrip", "MarkPassengerNoShow"}

OwnReason(a) == IF a = Passenger THEN PassengerReason ELSE DriverReason

\* What is known of a command once its first read has let it pass.
Checked(c) ==
  /\ c.pc # "idle" => c.cmd \in Command /\ c.actor \in Actor
  /\ c.pc # "idle" /\ c.cmd \in OfDriver => c.actor \in Driver
  /\ c.pc = "reload" => c.cmd = "Cancel" /\ c.why \in OwnReason(c.actor)
  /\ c.pc = "write" =>
       \/ c.cmd = "AcceptRide"
       \/ c.cmd = "MarkArrived" /\ c.seen = "accepted"
       \/ c.cmd \in {"StartTrip", "MarkPassengerNoShow"} /\ c.seen = "arrived"
       \/ c.cmd = "CompleteTrip" /\ c.seen = "in_transit"
       \/ c.cmd = "Cancel" /\ CanTransition(c.seen, "cancelled") /\ c.why \in OwnReason(c.actor)
       \/ c.cmd = "EmergencyStop" /\ CanEmergencyStop(c.seen) /\ c.why \in EmergencyReason

\* AnswersHold for one slot.
Told(c) ==
  c.pc = "ok" =>
    CASE c.cmd = "AcceptRide"   -> driver = c.actor
      [] c.cmd = "MarkArrived"  -> status \notin {"requested", "accepted"}
      [] c.cmd = "StartTrip"    -> status \in {"in_transit"} \cup Terminal
      [] c.cmd = "CompleteTrip" -> status = "completed"
      [] c.cmd = "UpdateStatus" -> TRUE
      [] OTHER                  -> status = "cancelled"

\* A ride has a driver from its acceptance on.
TakenByDriver ==
  /\ status = "requested" => driver = None
  /\ status \notin {"requested", "cancelled"} => driver \in Driver

RideInv ==
  /\ EventsTellHistory /\ AnswersHold /\ BlameNeedsEvidence
  /\ TakenByDriver
  /\ \A q \in Request : Checked(req[q])

----------------------------------------------------------------------------
(* Slots *)

LEMMA OutcomeHasShape ==
  ASSUME TypeOK, NEW cmd \in Command, NEW a \in Actor, NEW why \in Reason \cup {None},
         NEW pc \in {"reload", "write", "ok", "failed"}
  PROVE  Outcome(cmd, a, why, pc) \in Slot
BY DEF Outcome, Slot, NoCommand, TypeOK

LEMMA NothingChecked == NoCommand \in Slot /\ Checked(NoCommand) /\ Told(NoCommand)
BY DEF NoCommand, Slot, Checked, Told

LEMMA SlotsTell == AnswersHold <=> \A q \in Request : Told(req[q])
BY DEF AnswersHold, Told

\* A command that read and decided, and wrote nothing.
LEMMA SlotStep ==
  ASSUME RideInv, NEW q \in Request, NEW c \in Slot, Checked(c), Told(c),
         req' = [req EXCEPT ![q] = c], UNCHANGED <<row, wait, near>>
  PROVE  RideInv'
<1>1. req \in [Request -> Slot]
  BY DEF RideInv, EventsTellHistory, TypeOK, Slot
<1>2. TypeOK'
  BY <1>1 DEF RideInv, EventsTellHistory, TypeOK, row, Slot
<1>3. EventsTellHistory' /\ BlameNeedsEvidence' /\ TakenByDriver'
  BY <1>2 DEF RideInv, EventsTellHistory, BlameNeedsEvidence, TakenByDriver, LastEvent, row
<1>4. \A u \in Request : Checked(req'[u])
  BY <1>1 DEF RideInv
<1>5. ASSUME NEW u \in Request PROVE Told(req[u])'
  <2>1. Told(req[u]) /\ Told(c)
    BY SlotsTell DEF RideInv
  <2>2. req'[u] = IF u = q THEN c ELSE req[u]
    BY <1>1
  <2> QED
    BY <2>1, <2>2 DEF Told, row
<1>6. AnswersHold'
  BY <1>5 DEF AnswersHold, Told
<1> QED
  BY <1>3, <1>4, <1>6 DEF RideInv

\* The first read of a command.
LEMMA DecideStep ==
  ASSUME RideInv, NEW q \in Request, NEW cmd \in Command, NEW a \in Actor,
         NEW why \in Reason \cup {None}, NEW pc \in {"reload", "write", "ok", "failed"},
         req' = [req EXCEPT ![q] = Outcome(cmd, a, why, pc)], UNCHANGED <<row, wait, near>>,
         pc # "failed" => Checked(Outcome(cmd, a, why, pc)),
         pc = "ok" => Told(Outcome(cmd, a, why, pc))
  PROVE  RideInv'
<1>1. PICK c : c = Outcome(cmd, a, why, pc)
  OBVIOUS
<1>2. c \in Slot
  BY <1>1, OutcomeHasShape DEF RideInv, EventsTellHistory
<1>3. Checked(c) /\ Told(c)
  <2>1. CASE pc = "failed"
    BY <1>1, <2>1, NothingChecked DEF Outcome
  <2>2. CASE pc = "ok"
    BY <1>1, <2>2
  <2>3. CASE pc \notin {"failed", "ok"}
    BY <1>1, <2>3 DEF Outcome, Told
  <2> QED
    BY <2>1, <2>2, <2>3
<1> QED
  BY <1>1, <1>2, <1>3, SlotStep

LEMMA ReadAcceptRideStep ==
  ASSUME RideInv, NEW q \in Request, NEW d \in Driver, ReadAcceptRide(q, d) PROVE RideInv'
<1>1. PICK pc : pc = IF driver = d /\ IsActive(status) /\ status # "requested" THEN "ok" ELSE "write"
  OBVIOUS
<1>2. /\ Checked(Outcome("AcceptRide", d, None, pc))
      /\ pc = "ok" => Told(Outcome("AcceptRide", d, None, pc))
  BY <1>1 DEF Outcome, Checked, Told, Command, Actor, OfDriver
<1> QED
  BY <1>1, <1>2, DecideStep DEF ReadAcceptRide, Decide, Command, Actor

LEMMA ReadUpdateStatusStep ==
  ASSUME RideInv, NEW q \in Request, NEW a \in Actor, NEW next \in Status, ReadUpdateStatus(q, a, next)
  PROVE  RideInv'
<1>1. PICK pc : pc = IF IsParticipant(a) /\ status = next THEN "ok" ELSE "failed"
  OBVIOUS
<1>2. /\ pc # "failed" => Checked(Outcome("UpdateStatus", a, None, pc))
      /\ pc = "ok" => Told(Outcome("UpdateStatus", a, None, pc))
  BY <1>1 DEF Outcome, Checked, Told, Command, OfDriver
<1> QED
  BY <1>1, <1>2, DecideStep DEF ReadUpdateStatus, Decide, Command

LEMMA ReadMarkArrivedStep ==
  ASSUME RideInv, NEW q \in Request, NEW d \in Driver, ReadMarkArrived(q, d) PROVE RideInv'
<1>1. PICK pc : pc = IF driver # d THEN "failed"
                     ELSE IF status = "arrived" THEN "ok"
                     ELSE IF status = "accepted" /\ near THEN "write"
                     ELSE "failed"
  OBVIOUS
<1>2. /\ pc # "failed" => Checked(Outcome("MarkArrived", d, None, pc))
      /\ pc = "ok" => Told(Outcome("MarkArrived", d, None, pc))
  BY <1>1 DEF Outcome, Checked, Told, Command, Actor, OfDriver
<1> QED
  BY <1>1, <1>2, DecideStep DEF ReadMarkArrived, Decide, Command, Actor

LEMMA ReadStartTripStep ==
  ASSUME RideInv, NEW q \in Request, NEW d \in Driver, ReadStartTrip(q, d) PROVE RideInv'
<1>1. PICK pc : pc = IF driver # d THEN "failed"
                     ELSE IF status = "in_transit" THEN "ok"
                     ELSE IF status = "arrived" /\ near /\ wait # "recent" THEN "write"
                     ELSE "failed"
  OBVIOUS
<1>2. /\ pc # "failed" => Checked(Outcome("StartTrip", d, None, pc))
      /\ pc = "ok" => Told(Outcome("StartTrip", d, None, pc))
  BY <1>1 DEF Outcome, Checked, Told, Command, Actor, OfDriver
<1> QED
  BY <1>1, <1>2, DecideStep DEF ReadStartTrip, Decide, Command, Actor

LEMMA ReadCompleteTripStep ==
  ASSUME RideInv, NEW q \in Request, NEW d \in Driver, ReadCompleteTrip(q, d) PROVE RideInv'
<1>1. PICK pc : pc = IF driver # d THEN "failed"
                     ELSE IF status = "completed" THEN "ok"
                     ELSE IF status = "in_transit" THEN "write"
                     ELSE "failed"
  OBVIOUS
<1>2. /\ pc # "failed" => Checked(Outcome("CompleteTrip", d, None, pc))
      /\ pc = "ok" => Told(Outcome("CompleteTrip", d, None, pc))
  BY <1>1 DEF Outcome, Checked, Told, Command, Actor, OfDriver
<1> QED
  BY <1>1, <1>2, DecideStep DEF ReadCompleteTrip, Decide, Command, Actor

LEMMA ReadMarkPassengerNoShowStep ==
  ASSUME RideInv, NEW q \in Request, NEW d \in Driver, ReadMarkPassengerNoShow(q, d) PROVE RideInv'
<1>1. PICK pc : pc = IF driver # d THEN "failed"
                     ELSE IF /\ status = "cancelled" /\ cancelledBy = d
                             /\ reason = "no_show" /\ blame = "passenger_fault" THEN "ok"
                     ELSE IF status = "arrived" /\ wait \in {"almost", "over"} THEN "write"
                     ELSE "failed"
  OBVIOUS
<1>2. /\ pc # "failed" => Checked(Outcome("MarkPassengerNoShow", d, None, pc))
      /\ pc = "ok" => Told(Outcome("MarkPassengerNoShow", d, None, pc))
  BY <1>1 DEF Outcome, Checked, Told, Command, Actor, OfDriver
<1> QED
  BY <1>1, <1>2, DecideStep DEF ReadMarkPassengerNoShow, Decide, Command, Actor

LEMMA ReadCancelStep ==
  ASSUME RideInv, NEW q \in Request, NEW a \in Actor, NEW why \in Reason, ReadCancel(q, a, why)
  PROVE  RideInv'
<1>1. PICK pc : pc = IF ~IsParticipant(a) THEN "failed"
                     ELSE IF status = "cancelled"
                     THEN IF cancelledBy = a /\ reason = why THEN "ok" ELSE "failed"
                     ELSE IF /\ CanTransition(status, "cancelled")
                             /\ why \in IF a = Passenger THEN PassengerReason ELSE DriverReason
                     THEN "reload" ELSE "failed"
  OBVIOUS
<1>2. /\ pc # "failed" => Checked(Outcome("Cancel", a, why, pc))
      /\ pc = "ok" => Told(Outcome("Cancel", a, why, pc))
  BY <1>1 DEF Outcome, Checked, Told, Command, OfDriver, OwnReason
<1> QED
  BY <1>1, <1>2, DecideStep DEF ReadCancel, Decide, Command

LEMMA ReadEmergencyStopStep ==
  ASSUME RideInv, NEW q \in Request, NEW a \in Actor, NEW why \in EmergencyReason, ReadEmergencyStop(q, a, why)
  PROVE  RideInv'
<1>1. PICK pc : pc = IF ~IsParticipant(a) THEN "failed"
                     ELSE IF status = "cancelled" /\ cancelledBy = a /\ reason = why THEN "ok"
                     ELSE IF CanEmergencyStop(status) THEN "write" ELSE "failed"
  OBVIOUS
<1>2. /\ pc # "failed" => Checked(Outcome("EmergencyStop", a, why, pc))
      /\ pc = "ok" => Told(Outcome("EmergencyStop", a, why, pc))
  BY <1>1 DEF Outcome, Checked, Told, Command, OfDriver
<1> QED
  BY <1>1, <1>2, DecideStep DEF ReadEmergencyStop, Decide, Command, Reason

LEMMA ReloadStep ==
  ASSUME RideInv, NEW q \in Request, Reload(q) PROVE RideInv'
<1>1. PICK pc : pc = IF ~IsParticipant(req[q].actor) THEN "failed"
                     ELSE IF status = "cancelled" THEN "ok"
                     ELSE IF CanTransition(status, "cancelled") THEN "write"
                     ELSE "failed"
  OBVIOUS
<1>2. PICK a, why : a = req[q].actor /\ why = req[q].why
  OBVIOUS
<1>3. a \in Actor /\ why \in OwnReason(a)
  BY <1>2 DEF RideInv, Checked, Reload
<1>4. why \in Reason
  BY <1>3 DEF OwnReason, Reason
<1>5. /\ pc # "failed" => Checked(Outcome("Cancel", a, why, pc))
      /\ pc = "ok" => Told(Outcome("Cancel", a, why, pc))
  BY <1>1, <1>3 DEF Outcome, Checked, Told, Command, OfDriver
<1> QED
  BY <1>1, <1>2, <1>3, <1>4, <1>5, DecideStep DEF Reload, Command

LEMMA WriteFailsStep ==
  ASSUME RideInv, NEW q \in Request, WriteFails(q) PROVE RideInv'
<1>1. req' = [req EXCEPT ![q] = NoCommand]
  BY DEF WriteFails, Finish, Outcome
<1> QED
  BY <1>1, NothingChecked, SlotStep DEF WriteFails

----------------------------------------------------------------------------
(* Writes *)

\* What the row may do: the status moves along CanTransition, and a driver stays.
Forward == CanTransition(status, status') /\ (driver # None => driver' = driver)

\* An answer that was given stays true.
LEMMA AnswersStay ==
  ASSUME NEW c \in Slot, Checked(c), Told(c), Forward
  PROVE  Told(c)'
BY LifecycleConstants
   DEF Slot, Checked, Told, Forward, CanTransition, Terminal, OfDriver, Actor, Command

\* The event of a write continues the history.
LEMMA RecordStep ==
  ASSUME EventsTellHistory, NEW q \in Request, NEW type \in EventType, NEW to \in Status,
         NEW why \in Reason \cup {None},
         Record(q, type, to, why), req[q].seen = status, req[q].actor \in Actor,
         CanTransition(status, to), to # "accepted", UNCHANGED driver, TypeOK',
         status = "requested" <=> driver = None
  PROVE  /\ EventsTellHistory' /\ status' = to
         /\ LastEvent' = [type |-> type, by |-> req[q].actor, from |-> status, to |-> to, why |-> why]
<1>1. PICK e : e = [type |-> type, by |-> req[q].actor, from |-> status, to |-> to, why |-> why]
  OBVIOUS
<1>2. events \in Seq(Event) /\ e \in Event /\ status \in Status
  BY <1>1 DEF EventsTellHistory, TypeOK, Event
<1>3. events' = Append(events, e) /\ status' = to
  BY <1>1 DEF Record
<1>4. /\ Len(events') = Len(events) + 1 /\ events' # <<>> /\ Len(events) \in Nat
      /\ events'[Len(events) + 1] = e
      /\ \A i \in 1..Len(events) : events'[i] = events[i]
  BY <1>2, <1>3
<1>5. e.from = status /\ e.to = to
  BY <1>1
<1>6. LastEvent' = e
  BY <1>4 DEF LastEvent
<1>7. to \notin {"requested", "accepted"}
  BY DEF CanTransition
<1>8. CASE events = <<>>
  <2>1. Len(events) = 0 /\ status \in {"requested", "accepted"} /\ Len(events') = 1 /\ events'[1] = e
    BY <1>4, <1>8 DEF EventsTellHistory
  <2>2. events'[1].from = IF driver = None THEN "requested" ELSE "accepted"
    BY <1>5, <2>1
  <2>3. \A i \in 1..Len(events') : CanTransition(events'[i].from, events'[i].to)
    BY <1>5, <2>1
  <2>4. \A i \in 1..(Len(events') - 1) : events'[i].to = events'[i + 1].from
    BY <2>1
  <2> QED
    BY <1>1, <1>3, <1>4, <1>5, <1>6, <1>7, <2>2, <2>3, <2>4 DEF EventsTellHistory
<1>9. CASE events # <<>>
  <2>1. Len(events) >= 1 /\ LastEvent.to = status /\ LastEvent = events[Len(events)]
    BY <1>2, <1>9 DEF EventsTellHistory, LastEvent
  <2>2. events'[1].from = IF driver' = None THEN "requested" ELSE "accepted"
    BY <1>4, <1>9, <2>1 DEF EventsTellHistory
  <2>3. \A i \in 1..Len(events') : CanTransition(events'[i].from, events'[i].to)
    <3> SUFFICES ASSUME NEW i \in 1..Len(events') PROVE CanTransition(events'[i].from, events'[i].to)
      OBVIOUS
    <3>1. CASE i = Len(events) + 1
      BY <1>4, <1>5, <3>1
    <3>2. CASE i # Len(events) + 1
      <4>1. i \in 1..Len(events)
        BY <1>4, <3>2
      <4> QED
        BY <1>4, <4>1 DEF EventsTellHistory
    <3> QED
      BY <3>1, <3>2
  <2>4. \A i \in 1..(Len(events') - 1) : events'[i].to = events'[i + 1].from
    <3> SUFFICES ASSUME NEW i \in 1..(Len(events') - 1) PROVE events'[i].to = events'[i + 1].from
      OBVIOUS
    <3>1. i \in 1..Len(events) /\ events'[i] = events[i]
      BY <1>4
    <3>2. CASE i = Len(events)
      BY <1>4, <1>5, <2>1, <3>1, <3>2
    <3>3. CASE i # Len(events)
      <4>1. i \in 1..(Len(events) - 1) /\ i + 1 \in 1..Len(events)
        BY <1>4, <3>1, <3>3
      <4> QED
        BY <1>4, <3>1, <4>1 DEF EventsTellHistory
    <3> QED
      BY <3>2, <3>3
  <2> QED
    BY <1>1, <1>3, <1>4, <1>5, <1>6, <1>7, <2>2, <2>3, <2>4 DEF EventsTellHistory
<1> QED
  BY <1>8, <1>9

\* A write answers its command, and takes no answer back.
LEMMA WriteAnswers ==
  ASSUME RideInv, NEW q \in Request, req[q].pc = "write", Finish(q, "ok"), Forward,
         NEW c, c = [pc |-> "ok", cmd |-> req[q].cmd, actor |-> req[q].actor, why |-> req[q].why, seen |-> None],
         Told(c)'
  PROVE  /\ req' \in [Request -> Slot] /\ AnswersHold'
         /\ \A u \in Request : Checked(req'[u])
<1>1. req \in [Request -> Slot] /\ req[q] \in Slot /\ Checked(req[q])
  BY DEF RideInv, EventsTellHistory, TypeOK, Slot
<1>2. req' = [req EXCEPT ![q] = c]
  BY <1>1 DEF Finish, Outcome
<1>3. c \in Slot /\ Checked(c)
  BY <1>1 DEF Slot, Checked
<1>4. ASSUME NEW u \in Request PROVE Checked(req'[u]) /\ Told(req[u])'
  <2>1. PICK s : s = req'[u]
    OBVIOUS
  <2>2. s = c \/ s = req[u]
    BY <1>1, <1>2, <2>1
  <2>3. Checked(s) /\ Told(s)'
    <3>1. CASE s = c
      BY <1>3, <3>1
    <3>2. CASE s = req[u]
      <4>1. s \in Slot /\ Checked(s) /\ Told(s)
        BY <1>1, <3>2, SlotsTell DEF RideInv
      <4> QED
        BY <4>1, AnswersStay
    <3> QED
      BY <2>2, <3>1, <3>2
  <2> QED
    BY <2>1, <2>3 DEF Told
<1>5. AnswersHold'
  BY <1>4 DEF AnswersHold, Told
<1> QED
  BY <1>1, <1>2, <1>3, <1>4, <1>5

LEMMA WriteAcceptRideStep ==
  ASSUME RideInv, NEW q \in Request, WriteAcceptRide(q) PROVE RideInv' /\ Forward
<1>1. PICK c, d : /\ c = [pc |-> "ok", cmd |-> req[q].cmd, actor |-> req[q].actor, why |-> req[q].why, seen |-> None]
                  /\ d = req[q].actor
  OBVIOUS
<1>2. /\ req[q].pc = "write" /\ req[q].cmd = "AcceptRide" /\ status = "requested" /\ driver = None
      /\ status' = "accepted" /\ driver' = d /\ d \in Driver
      /\ UNCHANGED <<cancelledBy, reason, blame, events, wait, near>>
  BY <1>1 DEF WriteAcceptRide, Write, Matches, RideInv, TakenByDriver, Checked, OfDriver
<1>3. Forward
  BY <1>2 DEF Forward, CanTransition
<1>4. Told(c)'
  BY <1>1, <1>2 DEF Told
<1>5. req' \in [Request -> Slot] /\ AnswersHold' /\ \A u \in Request : Checked(req'[u])
  BY <1>1, <1>2, <1>3, <1>4, WriteAnswers DEF WriteAcceptRide
<1>6. TypeOK'
  BY <1>2, <1>5 DEF RideInv, EventsTellHistory, TypeOK, Slot, Status
<1>7. events = <<>> /\ Len(events) = 0
  BY <1>2 DEF RideInv, EventsTellHistory
<1>8. EventsTellHistory'
  BY <1>2, <1>6, <1>7 DEF EventsTellHistory
<1>9. BlameNeedsEvidence' /\ TakenByDriver'
  BY <1>2 DEF BlameNeedsEvidence, TakenByDriver
<1> QED
  BY <1>3, <1>5, <1>8, <1>9 DEF RideInv

\* The writes of arrival, start and end of the trip.
LEMMA StatusChangeStep ==
  ASSUME RideInv, NEW q \in Request, NEW cmd \in {"MarkArrived", "StartTrip", "CompleteTrip"},
         NEW to \in {"arrived", "in_transit", "completed"},
         Write(q, cmd), driver = req[q].actor, req[q].seen = status, CanTransition(status, to),
         cmd = "MarkArrived" => to = "arrived", cmd = "StartTrip" => to = "in_transit",
         cmd = "CompleteTrip" => to = "completed",
         Record(q, "ride.status_changed", to, None), Finish(q, "ok"), wait' \in Wait,
         UNCHANGED <<driver, cancelledBy, reason, blame, near>>
  PROVE  RideInv' /\ Forward
<1>1. PICK c : c = [pc |-> "ok", cmd |-> req[q].cmd, actor |-> req[q].actor, why |-> req[q].why, seen |-> None]
  OBVIOUS
<1>2. /\ req[q].pc = "write" /\ req[q].cmd = cmd /\ status' = to
      /\ req[q].actor \in Driver /\ driver \in Driver /\ driver # None
  BY LifecycleConstants DEF Write, Record, RideInv, Checked, OfDriver
<1>3. Forward
  BY <1>2 DEF Forward
<1>4. Told(c)'
  BY <1>1, <1>2 DEF Told
<1>5. req' \in [Request -> Slot] /\ AnswersHold' /\ \A u \in Request : Checked(req'[u])
  BY <1>1, <1>2, <1>3, <1>4, WriteAnswers
<1>6. TypeOK'
  <2>1. PICK e : e = [type |-> "ride.status_changed", by |-> req[q].actor, from |-> req[q].seen, to |-> to, why |-> None]
    OBVIOUS
  <2>2. e \in Event /\ events \in Seq(Event) /\ events' = Append(events, e)
    BY <1>2, <2>1 DEF Event, EventType, Actor, Status, RideInv, EventsTellHistory, TypeOK, Record
  <2>3. events' \in Seq(Event)
    BY <2>2
  <2> QED
    BY <1>2, <1>5, <2>3 DEF RideInv, EventsTellHistory, TypeOK, Slot, Status, Event
<1>7. status # "requested" /\ req[q].actor \in Actor /\ to \in Status
  BY <1>2 DEF RideInv, TakenByDriver, Actor, Status
<1>8. EventsTellHistory'
  BY <1>2, <1>6, <1>7, RecordStep DEF RideInv, EventType
<1>9. BlameNeedsEvidence' /\ TakenByDriver'
  BY <1>2 DEF BlameNeedsEvidence, TakenByDriver
<1> QED
  BY <1>3, <1>5, <1>8, <1>9 DEF RideInv

LEMMA TripStep ==
  ASSUME RideInv, NEW q \in Request, WriteMarkArrived(q) \/ WriteStartTrip(q) \/ WriteCompleteTrip(q)
  PROVE  RideInv' /\ Forward
<1>1. CASE WriteMarkArrived(q)
  <2>1. req[q].seen = "accepted" /\ status = "accepted" /\ driver = req[q].actor
    BY <1>1 DEF WriteMarkArrived, Write, Matches, RideInv, Checked
  <2> QED
    BY <1>1, <2>1, StatusChangeStep DEF WriteMarkArrived, CanTransition, Wait
<1>2. CASE WriteStartTrip(q)
  <2>1. req[q].seen = "arrived" /\ status = "arrived" /\ driver = req[q].actor
    BY <1>2 DEF WriteStartTrip, Write, Matches, RideInv, Checked
  <2>2. wait' \in Wait
    BY <1>2 DEF WriteStartTrip, RideInv, EventsTellHistory, TypeOK
  <2> QED
    BY <1>2, <2>1, <2>2, StatusChangeStep DEF WriteStartTrip, CanTransition
<1>3. CASE WriteCompleteTrip(q)
  <2>1. req[q].seen = "in_transit" /\ status = "in_transit" /\ driver = req[q].actor
    BY <1>3 DEF WriteCompleteTrip, Write, Matches, RideInv, Checked
  <2>2. wait' \in Wait
    BY <1>3 DEF WriteCompleteTrip, RideInv, EventsTellHistory, TypeOK
  <2> QED
    BY <1>3, <2>1, <2>2, StatusChangeStep DEF WriteCompleteTrip, CanTransition
<1> QED
  BY <1>1, <1>2, <1>3

\* The writes that end a ride early, with the evidence each must have.
LEMMA CancelledStep ==
  ASSUME RideInv, NEW q \in Request, NEW cmd \in {"MarkPassengerNoShow", "Cancel", "EmergencyStop"},
         NEW type \in EventType, NEW why \in Reason, NEW fault \in Blame,
         WriteCancelled(q, cmd, type, why, fault),
         IsParticipant(req[q].actor), req[q].actor \in Actor,
         req[q].seen = status, CanTransition(status, "cancelled"),
         fault = "passenger_fault" /\ req[q].actor # Passenger =>
           why = "no_show" /\ wait = "over" /\ status = "arrived",
         fault = "driver_fault" => req[q].actor = driver,
         type = "ride.emergency_stopped" => fault = "safety_related"
  PROVE  RideInv' /\ Forward
<1>1. PICK c, a : /\ c = [pc |-> "ok", cmd |-> req[q].cmd, actor |-> req[q].actor, why |-> req[q].why, seen |-> None]
                  /\ a = req[q].actor
  OBVIOUS
<1>2. /\ req[q].pc = "write" /\ req[q].cmd = cmd /\ a \in Actor
      /\ status' = "cancelled" /\ cancelledBy' = a /\ reason' = why /\ blame' = fault
      /\ Record(q, type, "cancelled", why) /\ Finish(q, "ok")
      /\ UNCHANGED <<driver, wait, near>>
  BY <1>1 DEF WriteCancelled, Write, Record
<1>3. Forward
  BY <1>2 DEF Forward
<1>4. Told(c)'
  BY <1>1, <1>2 DEF Told
<1>5. req' \in [Request -> Slot] /\ AnswersHold' /\ \A u \in Request : Checked(req'[u])
  BY <1>1, <1>2, <1>3, <1>4, WriteAnswers
<1>6. TypeOK'
  <2>1. PICK e : e = [type |-> type, by |-> a, from |-> req[q].seen, to |-> "cancelled", why |-> why]
    OBVIOUS
  <2>2. e \in Event /\ events \in Seq(Event) /\ events' = Append(events, e)
    BY <1>1, <1>2, <2>1 DEF Event, Status, RideInv, EventsTellHistory, TypeOK, Record
  <2>3. events' \in Seq(Event)
    BY <2>2
  <2> QED
    BY <1>2, <1>5, <2>3 DEF RideInv, EventsTellHistory, TypeOK, Slot, Status, Event
<1>7. (status = "requested" <=> driver = None) /\ "cancelled" \in Status
  BY LifecycleConstants DEF RideInv, TakenByDriver, CanTransition, Status
<1>8. /\ EventsTellHistory'
      /\ LastEvent' = [type |-> type, by |-> a, from |-> status, to |-> "cancelled", why |-> why]
  BY <1>1, <1>2, <1>6, <1>7, RecordStep DEF RideInv
<1>9. BlameNeedsEvidence'
  <2>1. LastEvent'.by = a /\ LastEvent'.why = why /\ LastEvent'.from = status /\ LastEvent'.type = type
    BY <1>8
  <2> QED
    BY <1>1, <1>2, <2>1 DEF BlameNeedsEvidence
<1>10. TakenByDriver'
  BY <1>2 DEF TakenByDriver
<1> QED
  BY <1>3, <1>5, <1>8, <1>9, <1>10 DEF RideInv

LEMMA EarlyEndStep ==
  ASSUME RideInv, NEW q \in Request, WriteMarkPassengerNoShow(q) \/ WriteCancel(q) \/ WriteEmergencyStop(q)
  PROVE  RideInv' /\ Forward
<1>1. CASE WriteMarkPassengerNoShow(q)
  <2>1. /\ req[q].seen = "arrived" /\ status = "arrived" /\ driver = req[q].actor /\ wait = "over"
        /\ req[q].actor \in Driver
    BY <1>1 DEF WriteMarkPassengerNoShow, WriteCancelled, Write, Matches, RideInv, Checked, OfDriver
  <2> QED
    BY <1>1, <2>1, CancelledStep
    DEF WriteMarkPassengerNoShow, CanTransition, IsParticipant, Actor, EventType, Reason, Blame
<1>2. CASE WriteCancel(q)
  <2>1. PICK a, why, fault : a = req[q].actor /\ why = req[q].why /\ fault = Responsibility(a, why)
    OBVIOUS
  <2>2. /\ IsParticipant(a) /\ req[q].seen = status /\ CanTransition(status, "cancelled")
        /\ a \in Actor /\ why \in OwnReason(a)
    BY <1>2, <2>1 DEF WriteCancel, WriteCancelled, Write, Matches, RideInv, Checked
  <2>3. /\ fault \in Blame
        /\ fault = "passenger_fault" => a = Passenger
        /\ fault = "driver_fault" => a # Passenger
    BY <2>1, <2>2 DEF Responsibility, OwnReason, PassengerReason, DriverReason, Blame
  <2>4. why \in Reason /\ (fault = "driver_fault" => a = driver)
    BY <2>2, <2>3 DEF OwnReason, Reason, IsParticipant
  <2>5. WriteCancelled(q, "Cancel", "ride.cancelled", why, fault)
    BY <1>2, <2>1 DEF WriteCancel
  <2> QED
    BY <2>1, <2>2, <2>3, <2>4, <2>5, CancelledStep DEF EventType
<1>3. CASE WriteEmergencyStop(q)
  <2>1. PICK why : why = req[q].why
    OBVIOUS
  <2>2. /\ IsParticipant(req[q].actor) /\ req[q].seen = status /\ CanEmergencyStop(status)
        /\ req[q].actor \in Actor /\ why \in EmergencyReason
    BY <1>3, <2>1 DEF WriteEmergencyStop, WriteCancelled, Write, Matches, RideInv, Checked
  <2>3. CanTransition(status, "cancelled") /\ why \in Reason
    BY <2>2 DEF CanEmergencyStop, CanTransition, Reason
  <2>4. WriteCancelled(q, "EmergencyStop", "ride.emergency_stopped", why, "safety_related")
    BY <1>3, <2>1 DEF WriteEmergencyStop
  <2> QED
    BY <2>2, <2>3, <2>4, CancelledStep DEF EventType, Blame
<1> QED
  BY <1>1, <1>2, <1>3

----------------------------------------------------------------------------
(* The ride *)

LEMMA RideInit == Init => RideInv
<1> SUFFICES ASSUME Init PROVE RideInv
  OBVIOUS
<1>1. TypeOK
  <2>1. <<>> \in Seq(Event)
    OBVIOUS
  <2> QED
    BY <2>1, NothingChecked DEF Init, TypeOK, Status, Wait, Slot, Event
<1>2. EventsTellHistory
  <2>1. Len(events) = 0
    BY DEF Init
  <2> QED
    BY <1>1, <2>1 DEF Init, EventsTellHistory
<1>3. \A q \in Request : Checked(req[q]) /\ Told(req[q])
  BY NothingChecked DEF Init
<1> QED
  BY <1>2, <1>3, SlotsTell DEF Init, RideInv, BlameNeedsEvidence, TakenByDriver

LEMMA ReadsStep ==
  ASSUME RideInv, NEW q \in Request,
         \/ \E d \in Driver : \/ ReadAcceptRide(q, d) \/ ReadMarkArrived(q, d) \/ ReadStartTrip(q, d)
                              \/ ReadCompleteTrip(q, d) \/ ReadMarkPassengerNoShow(q, d)
         \/ \E a \in Actor : \/ \E why \in Reason : ReadCancel(q, a, why)
                             \/ \E next \in Status : ReadUpdateStatus(q, a, next)
                             \/ \E why \in EmergencyReason : ReadEmergencyStop(q, a, why)
         \/ Reload(q) \/ WriteFails(q)
  PROVE  RideInv' /\ UNCHANGED row
<1>1. RideInv'
  BY ReadAcceptRideStep, ReadMarkArrivedStep, ReadStartTripStep, ReadCompleteTripStep,
     ReadMarkPassengerNoShowStep, ReadCancelStep, ReadUpdateStatusStep, ReadEmergencyStopStep,
     ReloadStep, WriteFailsStep, Zenon
<1>2. UNCHANGED row
  BY Zenon DEF ReadAcceptRide, ReadMarkArrived, ReadStartTrip, ReadCompleteTrip, ReadMarkPassengerNoShow,
         ReadCancel, ReadUpdateStatus, ReadEmergencyStop, Reload, WriteFails, Decide
<1> QED
  BY <1>1, <1>2

\* Time passes and the driver moves; neither touches the row of the ride.
LEMMA SurroundingsStep ==
  ASSUME RideInv, WaitPasses \/ DriverMoves \/ UNCHANGED vars
  PROVE  RideInv' /\ UNCHANGED row
<1>1. UNCHANGED <<row, req>> /\ (status = "cancelled" => UNCHANGED wait)
  BY DEF WaitPasses, DriverMoves, vars
<1>2. wait' \in Wait
  BY DEF RideInv, EventsTellHistory, TypeOK, WaitPasses, DriverMoves, vars, Wait, NextWait
<1>3. near' \in BOOLEAN
  BY DEF RideInv, EventsTellHistory, TypeOK, WaitPasses, DriverMoves, vars
<1>4. TypeOK'
  BY <1>1, <1>2, <1>3 DEF RideInv, EventsTellHistory, TypeOK, row
<1>5. EventsTellHistory' /\ BlameNeedsEvidence' /\ TakenByDriver'
  BY <1>1, <1>4 DEF RideInv, EventsTellHistory, BlameNeedsEvidence, TakenByDriver, LastEvent, row
<1>6. AnswersHold' /\ \A q \in Request : Checked(req'[q])
  BY <1>1 DEF RideInv, AnswersHold, row
<1> QED
  BY <1>1, <1>5, <1>6 DEF RideInv

LEMMA RideStep == RideInv /\ [Next]_vars => RideInv' /\ (UNCHANGED row \/ Forward)
<1> SUFFICES ASSUME RideInv, [Next]_vars PROVE RideInv' /\ (UNCHANGED row \/ Forward)
  OBVIOUS
<1> QED
  BY ReadsStep, SurroundingsStep, WriteAcceptRideStep, TripStep, EarlyEndStep, Zenon DEF Next

\* The events of a ride are its history, although every event carries a status read before the
\* UPDATE: the UPDATE compares the status with the one that was read, so what was read still holds.
THEOREM EventsTellHistoryAlways == Spec => []EventsTellHistory
<1>1. RideInv => EventsTellHistory
  BY DEF RideInv
<1> QED
  BY <1>1, RideInit, RideStep, PTL DEF Spec

\* No command that was answered is taken back by one that raced with it.
THEOREM AnswersHoldAlways == Spec => []AnswersHold
<1>1. RideInv => AnswersHold
  BY DEF RideInv
<1> QED
  BY <1>1, RideInit, RideStep, PTL DEF Spec

\* A passenger is only blamed by a driver for a no-show after the whole wait, and a driver never by
\* a passenger: the no-show UPDATE looks at the clock again, and a wait that is over stays over.
THEOREM BlameNeedsEvidenceAlways == Spec => []BlameNeedsEvidence
<1>1. RideInv => BlameNeedsEvidence
  BY DEF RideInv
<1> QED
  BY <1>1, RideInit, RideStep, PTL DEF Spec

\* The status of a ride only moves along the transitions of the lifecycle, whatever the commands
\* had read.
THEOREM StatusPathAlways == Spec => StatusPath
<1>1. RideInv /\ [Next]_vars => [status' # status => CanTransition(status, status')]_vars
  <2> SUFFICES ASSUME RideInv, [Next]_vars, status' # status PROVE CanTransition(status, status')
    OBVIOUS
  <2> QED
    BY RideStep DEF Forward, row
<1>2. RideInv /\ [Next]_vars => RideInv'
  BY RideStep
<1> QED
  BY <1>1, <1>2, RideInit, PTL DEF Spec, StatusPath
=============================================================================
