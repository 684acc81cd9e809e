----------------------------- MODULE ChatLimits -----------------------------
(* The budget of one participant in one chat room (chat/transport/ws/
   chat_limiter.go) and the connections that draw on it. The limiter decides
   under its lock; what it lets through is handled afterwards, by the reader of
   each connection. Times are ticks since, or until. *)
EXTENDS Naturals

CONSTANTS Conn,                         \* the participant's connections to the room
          MessageLimit, MessageWindow,
          TypingLimit, TypingWindow,
          Cooldown,                     \* typingCooldown
          Keep                          \* an idle budget is kept for longer than this

\* A budget is not dropped while messages it let through still count.
TalkConstants ==
  /\ MessageLimit \in Nat \ {0} /\ MessageWindow \in Nat /\ TypingLimit \in Nat /\ TypingWindow \in Nat
  /\ Cooldown \in Nat /\ Keep \in Nat /\ MessageWindow <= Keep

VARIABLES
  budget,       \* chatBudget; one that was never used is as good as none
  conn,         \* per connection: the typing event it may publish, or "none"
  shown,        \* the typing state the other side was told last, or "none"
  sent,         \* history: the ticks since the last messages let through, the latest first
  hidden,       \* history: an event was coalesced that the other side was not told and is not about to be
  unpublished,  \* history: an event that was let through was not published
  crossed       \* history: two connections had one to publish at a time

talkVars == <<budget, conn, shown, sent, hidden, unpublished, crossed>>

Typing == {"typing", "still"}

\* messageLeft and typingLeft are the ticks until now is after the reset.
Empty == [messages |-> 0, messageLeft |-> 0, typings |-> 0, typingLeft |-> 0,
          state |-> "none", since |-> Cooldown, idle |-> 0]

TalkTypeOK ==
  /\ budget \in [messages : 0 .. MessageLimit, messageLeft : 0 .. MessageWindow + 1,
                 typings : 0 .. TypingLimit, typingLeft : 0 .. TypingWindow + 1,
                 state : Typing \cup {"none"}, since : 0 .. Cooldown, idle : 0 .. Keep + 1]
  /\ conn \in [Conn -> Typing \cup {"none"}] /\ shown \in Typing \cup {"none"}
  /\ sent \in [1 .. 2 * MessageLimit -> 0 .. MessageWindow + 1]
  /\ hidden \in BOOLEAN /\ unpublished \in BOOLEAN /\ crossed \in BOOLEAN

TalkInit ==
  /\ budget = Empty /\ conn = [c \in Conn |-> "none"] /\ shown = "none"
  /\ sent = [i \in 1 .. 2 * MessageLimit |-> MessageWindow + 1]
  /\ hidden = FALSE /\ unpublished = FALSE /\ crossed = FALSE

\* (mutant: budgets are dropped whether or not they are in use)
CleanupAll(b) == Empty

\* cleanup.
Cleanup(b) == IF b.idle > Keep THEN Empty ELSE b

\* Every 128th operation, of whatever room, cleans up first; the caller's budget is then found or
\* made, and is in use.
Found(cleans) == [(IF cleans THEN Cleanup(budget) ELSE budget) EXCEPT !.idle = 0]

\* A message within the budget of its window.
AllowMessage ==
  \E cleans \in BOOLEAN :
    LET found == Found(cleans)
        b == IF found.messageLeft = 0
             THEN [found EXCEPT !.messages = 0, !.messageLeft = MessageWindow + 1] ELSE found
    IN /\ \/ /\ b.messages < MessageLimit
             /\ budget' = [b EXCEPT !.messages = @ + 1]
             /\ sent' = [i \in DOMAIN sent |-> IF i = 1 THEN 0 ELSE sent[i - 1]]
          \/ b.messages >= MessageLimit /\ budget' = b /\ UNCHANGED sent
       /\ UNCHANGED <<conn, shown, hidden, unpublished, crossed>>

\* The same state again within the cooldown.
Redundant(b, typing) == b.state = typing /\ b.since < Cooldown

TypingFits(b) == b.typings < TypingLimit

\* A typing event of a connection: coalesced, throttled, or recorded and let through.
AllowTyping(c, typing) ==
  /\ conn[c] = "none"
  /\ \E cleans \in BOOLEAN :
       LET found == Found(cleans)
           b == IF found.typingLeft = 0
                THEN [found EXCEPT !.typings = 0, !.typingLeft = TypingWindow + 1] ELSE found
       IN \/ /\ Redundant(found, typing)
             /\ budget' = found /\ hidden' = (hidden \/ (shown # typing /\ \A d \in Conn : conn[d] # typing))
             /\ UNCHANGED <<conn, crossed>>
          \/ /\ ~Redundant(found, typing) /\ ~TypingFits(b)
             /\ budget' = b
             /\ UNCHANGED <<conn, hidden, crossed>>
          \/ /\ ~Redundant(found, typing) /\ TypingFits(b)
             /\ budget' = [b EXCEPT !.typings = @ + 1, !.state = typing, !.since = 0]
             /\ conn' = [conn EXCEPT ![c] = typing]
             /\ crossed' = (crossed \/ \E d \in Conn : conn[d] # "none")
             /\ UNCHANGED hidden
  /\ UNCHANGED <<shown, sent, unpublished>>

\* sink.Handle publishes the event, or it is rejected.
Publish(c) ==
  /\ conn[c] # "none"
  /\ conn' = [conn EXCEPT ![c] = "none"]
  /\ \/ shown' = conn[c] /\ UNCHANGED unpublished
     \/ unpublished' = TRUE /\ UNCHANGED shown
  /\ UNCHANGED <<budget, sent, hidden, crossed>>

Less(n) == IF n = 0 THEN 0 ELSE n - 1
More(n, most) == IF n = most THEN most ELSE n + 1

TalkTick ==
  /\ budget' = [budget EXCEPT !.messageLeft = Less(@), !.typingLeft = Less(@),
                              !.since = More(@, Cooldown), !.idle = More(@, Keep + 1)]
  /\ sent' = [i \in DOMAIN sent |-> More(sent[i], MessageWindow + 1)]
  /\ UNCHANGED <<conn, shown, hidden, unpublished, crossed>>

TalkNext ==
  \/ AllowMessage
  \/ \E c \in Conn : Publish(c) \/ \E typing \in Typing : AllowTyping(c, typing)
  \/ TalkTick

TalkSpec == TalkInit /\ [][TalkNext]_talkVars

(***************************************************************************)
(* Properties                                                              *)
(***************************************************************************)

\* However many connections the participant has, and although its budget is dropped when idle, less
\* than two windows' messages pass in the time of one: of so many the first passed longer ago.
MessagesBounded == sent[2 * MessageLimit] > MessageWindow

\* "Coalesce redundant typing events": an event that is dropped for repeating the last one tells
\* the other side nothing new, unless the last one was not published or another connection's
\* came in between.
CoalescedIsKnown == hidden => unpublished \/ crossed

\* The limiter of the chat bounds the messages and drops no typing event that was news.
ChatBounded == TalkTypeOK /\ MessagesBounded /\ CoalescedIsKnown
=============================================================================
