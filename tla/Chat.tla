-------------------------------- MODULE Chat --------------------------------
(* The chat room of one ride: chat/app/service.go over the Redis scripts of
   chat/adapter/redis/history_store.go, with the pictures in object storage.
   Every request makes several Redis calls and others run between them; each
   call may fail, and a failing Append may have been executed. *)
EXTENDS Naturals, Sequences, FiniteSets

CONSTANTS Talker,     \* requests
          Passenger, Driver, Stranger,
          ChatTime    \* bound on the clock

ChatConstants ==
  /\ IsFiniteSet(Talker) /\ ChatTime \in Nat \ {0}
  /\ Passenger # Driver /\ Stranger \notin {Passenger, Driver}

VARIABLES
  contact,    \* the ride's assignment still allows communication
  room,       \* the room's hash: [exists, locked]; its participants are set once, with exists
  members,    \* the participants stored in the hash
  history,    \* the room's list of messages
  watermark,  \* read:<user> fields of the hash
  objects,    \* keys in object storage
  time,
  talk,       \* requests: [op, by, pc, stamp, answer]
  broken,     \* history variable: image requests with a failed delete or a lost answer
  known       \* history variable: per user, the length of the list it acknowledged from

chatVars == <<contact, room, members, history, watermark, objects, time, talk, broken, known>>

ChatOps == {"open", "text", "image", "resolve", "read"}
User == {Passenger, Driver, Stranger}
Peer(u) == IF u = Passenger THEN Driver ELSE Passenger

Message == [id : Talker, by : User, image : BOOLEAN, at : 0 .. ChatTime]
TalkState ==
  [op : ChatOps \cup {"none"}, by : User, stamp : 0 .. ChatTime,
   pc : {"idle", "assigned", "stored", "open", "ready", "cleanup", "done"}, answer : {"none", "ok", "refused"}]
NoTalk == [op |-> "none", by |-> Passenger, pc |-> "idle", stamp |-> 0, answer |-> "none"]

ChatTypeOK ==
  /\ contact \in BOOLEAN /\ room \in [exists : BOOLEAN, locked : BOOLEAN]
  /\ members \subseteq {Passenger, Driver}
  /\ history \in Seq(Message) /\ Len(history) <= Cardinality(Talker)
  /\ watermark \in [User -> 0 .. ChatTime] /\ objects \subseteq Talker /\ time \in 0 .. ChatTime
  /\ talk \in [Talker -> TalkState] /\ broken \subseteq Talker /\ known \in [User -> Nat]

ChatInit ==
  /\ contact = TRUE /\ room = [exists |-> FALSE, locked |-> FALSE] /\ members = {}
  /\ history = <<>> /\ watermark = [u \in User |-> 0] /\ objects = {} /\ time = 1
  /\ talk = [q \in Talker |-> NoTalk] /\ broken = {} /\ known = [u \in User |-> 0]

(***************************************************************************)
(* Steps of a request                                                      *)
(***************************************************************************)

Move(q, pc) == talk' = [talk EXCEPT ![q].pc = pc]
Leave(q, answer) == talk' = [talk EXCEPT ![q].pc = "done", ![q].answer = answer]

IsParticipant(u) == u \in {Passenger, Driver}

\* A request arrives, stamped by the server, and its assignment is looked up: only reading
\* (MarkRead) does without the communication window.
Enter(q, op, u) ==
  /\ talk[q].pc = "idle"
  /\ LET allowed == IsParticipant(u) /\ (contact \/ op = "read")
     IN talk' = [talk EXCEPT ![q] = [op |-> op, by |-> u, stamp |-> time,
                                     pc |-> IF allowed THEN "assigned" ELSE "done",
                                     answer |-> IF allowed THEN "none" ELSE "refused"]]
  /\ UNCHANGED <<contact, room, members, history, watermark, objects, time, broken, known>>

\* Any call to Redis or storage fails without effect: the request is refused. A stored
\* picture is deleted first.
RedisFails(q) ==
  /\ talk[q].pc \in {"assigned", "stored", "open", "ready"}
  /\ IF talk[q].op = "image" /\ talk[q].pc # "assigned" THEN Move(q, "cleanup") ELSE Leave(q, "refused")
  /\ UNCHANGED <<contact, room, members, history, watermark, objects, time, broken, known>>

\* SendImage stores the picture before Relay repeats the assignment check.
StoreImage(q) ==
  /\ talk[q].op = "image" /\ talk[q].pc = "assigned"
  /\ objects' = objects \cup {q}
  /\ Move(q, IF contact THEN "stored" ELSE "cleanup")
  /\ UNCHANGED <<contact, room, members, history, watermark, time, broken, known>>

\* Rejected: a text is refused at once, a picture after its object is deleted.
Reject(q) == IF talk[q].op = "image" THEN Move(q, "cleanup") ELSE Leave(q, "refused")

Sends(q) == \/ talk[q].op = "text" /\ talk[q].pc = "assigned"
            \/ talk[q].op = "image" /\ talk[q].pc = "stored"

\* Relay: IsLocked, then IsMember.
CheckLock(q) ==
  /\ Sends(q)
  /\ IF room.locked THEN Reject(q) ELSE Move(q, "open")
  /\ UNCHANGED <<contact, room, members, history, watermark, objects, time, broken, known>>

CheckMember(q) ==
  /\ talk[q].op \in {"text", "image"} /\ talk[q].pc = "open"
  /\ IF talk[q].by \notin members THEN Reject(q) ELSE Move(q, "ready")
  /\ UNCHANGED <<contact, room, members, history, watermark, objects, time, broken, known>>

\* (mutant: the script relies on the check before it)
AppendsUnlocked(q) == room.exists /\ talk[q].by \in members

\* The Append script's conditions.
Appends(q) == room.exists /\ ~room.locked /\ talk[q].by \in members

\* The Append script; its answer may be lost after it ran.
AppendMessage(q) ==
  /\ talk[q].op \in {"text", "image"} /\ talk[q].pc = "ready"
  /\ IF Appends(q)
     THEN /\ history' = Append(history, [id |-> q, by |-> talk[q].by,
                                         image |-> talk[q].op = "image", at |-> talk[q].stamp])
          /\ \/ Leave(q, "ok") /\ UNCHANGED broken
             \/ Reject(q) /\ broken' = broken \cup {q}
     ELSE Reject(q) /\ UNCHANGED <<history, broken>>
  /\ UNCHANGED <<contact, room, members, watermark, objects, time, known>>

\* (mutant: the stored picture of a rejected message is kept)
CleanupForgotten(q) ==
  /\ talk[q].pc = "cleanup" /\ Leave(q, "refused")
  /\ UNCHANGED <<contact, room, members, history, watermark, objects, time, broken, known>>

\* images.Delete, with a context of its own; a failure is only logged.
Cleanup(q) ==
  /\ talk[q].pc = "cleanup"
  /\ \/ objects' = objects \ {q} /\ UNCHANGED broken
     \/ broken' = broken \cup {q} /\ UNCHANGED objects
  /\ Leave(q, "refused")
  /\ UNCHANGED <<contact, room, members, history, watermark, time, known>>

\* OpenRideRoom: RoomParticipants, which are the ride's when there are any, then IsLocked.
LookUpRoom(q) ==
  /\ talk[q].op = "open" /\ talk[q].pc = "assigned"
  /\ Move(q, IF members # {} THEN "open" ELSE "ready")
  /\ UNCHANGED <<contact, room, members, history, watermark, objects, time, broken, known>>

OpenExisting(q) ==
  /\ talk[q].op = "open" /\ talk[q].pc = "open"
  /\ Leave(q, IF room.locked THEN "refused" ELSE "ok")
  /\ UNCHANGED <<contact, room, members, history, watermark, objects, time, broken, known>>

\* The CreateRoom script.
CreateRoomScript ==
  IF room.exists THEN UNCHANGED <<room, members>>
  ELSE room' = [exists |-> TRUE, locked |-> FALSE] /\ members' = {Passenger, Driver}

CreateRoom(q) ==
  /\ talk[q].op = "open" /\ talk[q].pc = "ready"
  /\ CreateRoomScript /\ Leave(q, "ok")
  /\ UNCHANGED <<contact, history, watermark, objects, time, broken, known>>

\* ResolveForUser: CanAccessRoom (IsMember, then IsLocked), then HSET locked.
ResolveCheckMember(q) ==
  /\ talk[q].op = "resolve" /\ talk[q].pc = "assigned"
  /\ IF talk[q].by \in members THEN Move(q, "open") ELSE Leave(q, "refused")
  /\ UNCHANGED <<contact, room, members, history, watermark, objects, time, broken, known>>

ResolveCheckLock(q) ==
  /\ talk[q].op = "resolve" /\ talk[q].pc = "open"
  /\ IF room.locked THEN Leave(q, "refused") ELSE Move(q, "ready")
  /\ UNCHANGED <<contact, room, members, history, watermark, objects, time, broken, known>>

Resolve(q) ==
  /\ talk[q].op = "resolve" /\ talk[q].pc = "ready"
  /\ room' = [exists |-> TRUE, locked |-> TRUE] /\ Leave(q, "ok")
  /\ UNCHANGED <<contact, members, history, watermark, objects, time, broken, known>>

\* MarkRead: the list is loaded, and one message of the other participant acknowledged.
LoadMessages(q) ==
  /\ talk[q].op = "read" /\ talk[q].pc = "assigned"
  /\ LET u == talk[q].by
         others == {i \in DOMAIN history : history[i].by # u}
     IN IF (members # {} /\ u \notin members) \/ others = {}
        THEN Leave(q, "refused") /\ UNCHANGED known
        ELSE \E i \in others :
               /\ talk' = [talk EXCEPT ![q].pc = "ready", ![q].stamp = history[i].at]
               /\ known' = [known EXCEPT ![u] = IF Len(history) > @ THEN Len(history) ELSE @]
  /\ UNCHANGED <<contact, room, members, history, watermark, objects, time, broken>>

\* The MarkRead script: a watermark only rises.
Watermark(u, through) == watermark' = [watermark EXCEPT ![u] = IF @ < through THEN through ELSE @]

MarkRead(q) ==
  /\ talk[q].op = "read" /\ talk[q].pc = "ready"
  /\ Watermark(talk[q].by, talk[q].stamp) /\ Leave(q, "ok")
  /\ UNCHANGED <<contact, room, members, history, objects, time, broken, known>>

\* The ride is over and its contact window closes.
CloseContact ==
  /\ contact /\ contact' = FALSE
  /\ UNCHANGED <<room, members, history, watermark, objects, time, talk, broken, known>>

ChatTick ==
  /\ time < ChatTime /\ time' = time + 1
  /\ UNCHANGED <<contact, room, members, history, watermark, objects, talk, broken, known>>

ChatStep(q) ==
  \/ \E op \in ChatOps, u \in User : Enter(q, op, u)
  \/ RedisFails(q)
  \/ StoreImage(q) \/ CheckLock(q) \/ CheckMember(q) \/ AppendMessage(q) \/ Cleanup(q)
  \/ LookUpRoom(q) \/ OpenExisting(q) \/ CreateRoom(q)
  \/ ResolveCheckMember(q) \/ ResolveCheckLock(q) \/ Resolve(q)
  \/ LoadMessages(q) \/ MarkRead(q)

ChatNext == (\E q \in Talker : ChatStep(q)) \/ CloseContact \/ ChatTick

ChatSpec == ChatInit /\ [][ChatNext]_chatVars

(***************************************************************************)
(* Properties                                                              *)
(***************************************************************************)

\* A picture is kept exactly when its message is: a request that ended has its object in
\* storage if and only if the message is in the list, unless a delete failed or Redis' answer
\* was lost.
PictureMatchesMessage ==
  \A q \in Talker : talk[q].pc = "done" /\ talk[q].op = "image" /\ q \notin broken =>
    (q \in objects <=> \E i \in DOMAIN history : history[i].id = q)

\* Messages' Seen: the message is not after the watermark of the other participant.
Seen(m) == m.at <= watermark[Peer(m.by)]

\* A message shown as seen was in the list its reader acknowledged from, unless it was
\* stamped before a message that overtook it on the way to Redis.
SeenUnlessOvertaken ==
  \A i \in DOMAIN history :
    Seen(history[i]) /\ i > known[Peer(history[i].by)] =>
      \E j \in 1 .. i - 1 : history[j].at >= history[i].at

\* Chat: a picture is kept exactly when its message is, and a message shown as seen was in the list
\* its reader acknowledged from.
MessagesHold == ChatTypeOK /\ PictureMatchesMessage /\ SeenUnlessOvertaken

\* Chat: a resolved room gains no message and is not reopened, however far a sender or an opening
\* had come; an older acknowledgement never moves a watermark backwards.
NeverTurnsBack ==
  [][/\ room.locked => room'.locked /\ history' = history
     /\ \A u \in User : watermark'[u] >= watermark[u]]_chatVars
=============================================================================
