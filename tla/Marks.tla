-------------------------------- MODULE Marks --------------------------------
(***************************************************************************)
(* What members attach to the messages of a conversation: pins and         *)
(* reactions, with the recall and the deletion for oneself that take a     *)
(* message from under them.                                                *)
(*                                                                         *)
(* Each of these is a transaction that locks the conversation first, so    *)
(* the transactions are atomic here.  Around them nothing is: a request    *)
(* takes the time of its pin before it waits for the lock, a recall checks *)
(* the message before, and after the commit each member's list of pins is  *)
(* loaded and sent while other requests go on.                             *)
(***************************************************************************)
EXTENDS Integers, FiniteSets, SequencesExt

CONSTANTS
    Users,     \* members of the conversation
    Messages,  \* its messages
    NoMessage, \* message id 0, or NULL
    Requests,  \* requests that are handled at the same time
    Scenarios, \* sets of operations: the requests of a behaviour are of one of them
    MaxTime,   \* bound: seconds that pass
    MaxArrived \* bound: requests that arrive

\* What the constants must satisfy.
MarkConstants ==
    /\ NoMessage \notin Messages
    /\ Scenarios \subseteq SUBSET {"pin", "unpin", "react", "unreact", "recall", "hide"}
    /\ MaxTime \in Nat /\ MaxArrived \in Nat

VARIABLES
    now,       \* the clock, in the seconds that a DATETIME column keeps
    pins,      \* chat_pinned_messages in the order of their ids
    cached,    \* pinned_message_id and message_pinned_at of the conversation
    reactions, \* chat_message_reactions: <<message, user>> (one emoji)
    recalled,  \* the messages that were recalled
    hidden,    \* hidden[u]: the messages that u deleted for himself
    scenario,  \* the operations of this behaviour
    arrived,   \* counts the requests
    request,   \* request[q] is what request q is doing
    audit,     \* history: <<message, pinned>> for each announced change of a pin
    sent,      \* history: sent[u] is the last list of pins sent to u,
               \* with the change it shows
    overtaken  \* history: the users whose last list is not the newest sent to them

vars == <<now, pins, cached, reactions, recalled, hidden, scenario, arrived, request,
          audit, sent, overtaken>>

NoPin  == [msg |-> NoMessage, at |-> 0]
NoUser == "nobody"
NoList == [list |-> {}, change |-> 0]
\* at is the time that a pin takes, todo the members that are to be told, seen
\* the list that was loaded for user.
Idle   == [pc |-> "idle", op |-> "none", user |-> NoUser, msg |-> NoMessage,
           at |-> 0, todo |-> {}, seen |-> NoList]

Init ==
    /\ now = 0
    /\ pins = <<>>
    /\ cached = NoPin
    /\ reactions = {}
    /\ recalled = {}
    /\ hidden = [u \in Users |-> {}]
    /\ scenario \in Scenarios
    /\ arrived = 0
    /\ request = [q \in Requests |-> Idle]
    /\ audit = <<>>
    /\ sent = [u \in Users |-> NoList]
    /\ overtaken = {}

-----------------------------------------------------------------------------
(* Queries.                                                                  *)

Pinned == {pins[i].msg : i \in DOMAIN pins}

\* ORDER BY pinned_at DESC, id DESC: of two pins of a second the later row.
Newest(list) ==
    IF list = <<>> THEN NoPin
    ELSE list[CHOOSE i \in DOMAIN list :
                \A j \in DOMAIN list : list[j].at < list[i].at \/ (list[j].at = list[i].at /\ j <= i)]

\* What messageInConversation and loadMessageReferences let a user see.
Visible(u, msgs) == msgs \ (recalled \cup hidden[u])

-----------------------------------------------------------------------------
(* A request arrives; what it asks before it waits for the lock.             *)

\* A message id of 0 unpins the newest; only a recall looks at the message first.
Arrive(q, u, op, m) ==
    /\ request[q] = Idle /\ arrived < MaxArrived
    /\ arrived' = arrived + 1
    /\ m = NoMessage => op = "unpin"
    /\ op = "recall" => m \notin recalled
    /\ request' = [request EXCEPT ![q] = [Idle EXCEPT !.pc = "wait", !.op = op, !.user = u, !.msg = m,
                                                       !.at = IF op = "pin" THEN now ELSE 0]]
    /\ UNCHANGED <<now, pins, cached, reactions, recalled, hidden, audit, sent, overtaken, scenario>>

Tick ==
    /\ now < MaxTime
    /\ now' = now + 1
    /\ UNCHANGED <<pins, cached, reactions, recalled, hidden, request, audit, sent, overtaken, scenario, arrived>>

Running(q, op) == request[q].pc = "wait" /\ request[q].op = op

Done(q) == request' = [request EXCEPT ![q] = Idle]

\* Nothing is changed: the request is refused, or there is nothing to change.
Refuse(q) ==
    /\ Done(q)
    /\ UNCHANGED <<now, pins, cached, reactions, recalled, hidden, audit, sent, overtaken, scenario, arrived>>

\* The transaction fails.
Rollback(q) == request[q].pc = "wait" /\ Refuse(q)

-----------------------------------------------------------------------------
(* updatePinnedMessageList.                                                  *)

\* Mutant: the conversation keeps the message that was pinned last.
ChangePinsAndKeepLast(q, list, m, pinned) ==
    /\ pins' = list
    /\ cached' = IF list = <<>> THEN NoPin ELSE list[Len(list)]
    /\ audit' = Append(audit, <<m, pinned>>)
    /\ request' = [request EXCEPT ![q] = [Idle EXCEPT !.pc = "tell", !.todo = Users]]
    /\ UNCHANGED <<now, reactions, recalled, hidden, sent, overtaken, scenario, arrived>>

\* The list is changed, the conversation keeps the newest pin, and the change is
\* announced: audit row and system message.
ChangePins(q, list, m, pinned) ==
    /\ pins' = list
    /\ cached' = Newest(list)
    /\ audit' = Append(audit, <<m, pinned>>)
    /\ request' = [request EXCEPT ![q] = [Idle EXCEPT !.pc = "tell", !.todo = Users]]
    /\ UNCHANGED <<now, reactions, recalled, hidden, sent, overtaken, scenario, arrived>>

Pin(q) ==
    LET r == request[q] IN
    /\ Running(q, "pin")
    /\ IF r.msg \in Visible(r.user, Messages) /\ r.msg \notin Pinned
       THEN ChangePins(q, Append(pins, [msg |-> r.msg, at |-> r.at]), r.msg, TRUE)
       ELSE Refuse(q)

\* DELETE ... WHERE message_id = ?: by the unique key it is one row.
Without(list, m) == RemoveAt(list, CHOOSE i \in DOMAIN list : list[i].msg = m)

\* Whether the member may see the message is not asked here.
Unpin(q) ==
    LET m == IF request[q].msg = NoMessage THEN Newest(pins).msg ELSE request[q].msg IN
    /\ Running(q, "unpin")
    /\ IF m \in Pinned
       THEN ChangePins(q, Without(pins, m), m, FALSE)
       ELSE Refuse(q)

-----------------------------------------------------------------------------
(* SetReaction, RecallMessageVersion, DeleteMessageForMe.                    *)

\* Mutant: a reaction does not ask whether the message was recalled.
ReactAnyway(q) ==
    LET r == request[q] IN
    /\ Running(q, "react") \/ Running(q, "unreact")
    /\ reactions' = IF r.op = "react" THEN reactions \cup {<<r.msg, r.user>>}
                    ELSE reactions \ {<<r.msg, r.user>>}
    /\ Done(q)
    /\ UNCHANGED <<now, pins, cached, recalled, hidden, audit, sent, overtaken, scenario, arrived>>

React(q) ==
    LET r == request[q] IN
    /\ Running(q, "react") \/ Running(q, "unreact")
    /\ reactions' = IF r.msg \in recalled THEN reactions
                    ELSE IF r.op = "react" THEN reactions \cup {<<r.msg, r.user>>}
                    ELSE reactions \ {<<r.msg, r.user>>}
    /\ Done(q)
    /\ UNCHANGED <<now, pins, cached, recalled, hidden, audit, sent, overtaken, scenario, arrived>>

\* The version that the recall read must still be there: of two recalls one
\* changes nothing.  Pins and reactions stay.
Recall(q) ==
    /\ Running(q, "recall")
    /\ recalled' = recalled \cup {request[q].msg}
    /\ Done(q)
    /\ UNCHANGED <<now, pins, cached, reactions, hidden, audit, sent, overtaken, scenario, arrived>>

Hide(q) ==
    /\ Running(q, "hide")
    /\ hidden' = [hidden EXCEPT ![request[q].user] = @ \cup {request[q].msg}]
    /\ Done(q)
    /\ UNCHANGED <<now, pins, cached, reactions, recalled, audit, sent, overtaken, scenario, arrived>>

-----------------------------------------------------------------------------
(* After the commit: the members are told one by one.                        *)

\* loadPinnedMessageState for one of the members that are left.
Load(q, u) ==
    /\ request[q].pc = "tell" /\ u \in request[q].todo
    /\ request' = [request EXCEPT ![q].pc = "send", ![q].user = u,
                                  ![q].todo = @ \ {u},
                                  ![q].seen = [list |-> Visible(u, Pinned), change |-> Len(audit)]]
    /\ UNCHANGED <<now, pins, cached, reactions, recalled, hidden, audit, sent, overtaken, scenario, arrived>>

\* The event replaces the member's list, a newer one as well.
Send(q) ==
    LET r == request[q] IN
    /\ r.pc = "send"
    /\ sent' = [sent EXCEPT ![r.user] = r.seen]
    /\ overtaken' = IF r.seen.change < sent[r.user].change
                    THEN overtaken \cup {r.user} ELSE overtaken
    /\ request' = [request EXCEPT ![q] = IF r.todo = {} THEN Idle
                                         ELSE [r EXCEPT !.pc = "tell"]]
    /\ UNCHANGED <<now, pins, cached, reactions, recalled, hidden, audit, scenario, arrived>>

-----------------------------------------------------------------------------
\* ensureChatTables when the server starts: INSERT IGNORE of the cached pin.
Restart ==
    /\ \A q \in Requests : request[q] = Idle
    /\ pins' = IF cached.msg \in Pinned \cup {NoMessage} THEN pins ELSE Append(pins, cached)
    /\ UNCHANGED <<now, cached, reactions, recalled, hidden, request, audit, sent, overtaken, scenario, arrived>>

Next ==
    \/ Tick \/ Restart
    \/ \E q \in Requests :
         \/ \E u \in Users, op \in scenario, m \in Messages \cup {NoMessage} : Arrive(q, u, op, m)
         \/ Pin(q) \/ Unpin(q) \/ React(q) \/ Recall(q) \/ Hide(q) \/ Rollback(q)
         \/ \E u \in Users : Load(q, u)
         \/ Send(q)

Spec == Init /\ [][Next]_vars

-----------------------------------------------------------------------------
(* Properties.                                                               *)

TypeOK ==
    /\ now \in 0 .. MaxTime
    /\ pins \in Seq([msg : Messages, at : 0 .. MaxTime])
    /\ cached \in [msg : Messages, at : 0 .. MaxTime] \cup {NoPin}
    /\ reactions \subseteq Messages \X Users /\ recalled \subseteq Messages
    /\ hidden \in [Users -> SUBSET Messages]
    /\ scenario \in Scenarios /\ arrived \in 0 .. MaxArrived /\ Len(audit) <= arrived

\* The pin that the conversation keeps is the newest of its list, in whatever
\* order the requests got the lock, and a message is pinned once.  So a restart
\* brings no pin back.
CachedIsNewest ==
    /\ cached = Newest(pins)
    /\ Cardinality(Pinned) = Len(pins)

\* Whether m is pinned by what the first n announcements say.
SaidPinned(n, m) ==
    \E i \in 1 .. n : audit[i] = <<m, TRUE>> /\ \A j \in i + 1 .. n : audit[j][1] # m

\* Each announcement is a change of what was said before, and what they say in the
\* end is what is pinned.
AnnouncementsAreChanges ==
    /\ \A n \in DOMAIN audit : audit[n][2] <=> ~SaidPinned(n - 1, audit[n][1])
    /\ \A m \in Messages : m \in Pinned <=> SaidPinned(Len(audit), m)

MarksOf(m) == {u \in Users : <<m, u>> \in reactions}

\* A message that was recalled gets no pin and keeps its reactions, though the
\* request may have arrived before.
RecalledIsLeftAlone ==
    [][\A m \in recalled : m \in recalled' => MarksOf(m)' = MarksOf(m) /\ (m \in Pinned' => m \in Pinned)]_vars

\* When every request has ended, a member shows his pins: he was sent the newest
\* list, unless an older one was sent after a newer.
ShownIsPinned ==
    (\A q \in Requests : request[q] = Idle) =>
        \A u \in Users \ overtaken : Visible(u, sent[u].list) = Visible(u, Pinned)
=============================================================================
