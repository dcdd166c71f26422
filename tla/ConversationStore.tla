-------------------------- MODULE ConversationStore --------------------------
(***************************************************************************)
(* The rows of one group conversation: its messages, its members with      *)
(* their read cursors and cached unread counts, the receipts, and what     *)
(* members deleted for themselves.                                         *)
(*                                                                         *)
(* Every operation is one MySQL transaction at REPEATABLE READ.  Most      *)
(* begin by locking the row of the conversation (lockChatConversationRows) *)
(* and lock rows of chat_members later; MarkRead and MarkDelivered lock    *)
(* only the member's own row; the system messages of votes lock nothing.   *)
(* An action is a statement or the statements between two lock waits.      *)
(* Rows written by a transaction become visible when it commits, so the    *)
(* writes are part of the Commit action; only the insertion of a message,  *)
(* which draws the next id at once, comes earlier.                         *)
(***************************************************************************)
EXTENDS Integers, FiniteSets

CONSTANTS
    Users,      \* the people who may be members
    Owner,      \* who created the group
    ClientIds,  \* client_message_id values
    Workers,    \* transactions running at the same time
    None,       \* no user, no client id, no worker
    Scenarios,  \* what a run exercises: some operations, with so many message ids
    MaxVersion  \* bound: no edit starts at this version

Kinds == {"send", "poll", "vote", "read", "deliver", "edit", "recall",
          "hide", "add", "remove"}

ASSUME StoreAssumption ==
    /\ Owner \in Users
    /\ None \notin Users \cup ClientIds \cup Workers
    /\ IsFiniteSet(Users)
    /\ Scenarios \subseteq [operations : SUBSET Kinds, ids : Nat \ {0}]
    /\ MaxVersion \in Nat \ {0}

VARIABLES
    scenario, \* one of Scenarios; the operations and ids of this behaviour
    messages, \* messages[m] is the row with id m, NoMessage when there is none
    nextId,   \* AUTO_INCREMENT of chat_messages
    members,  \* members[u] is the row of user u, NoMember when there is none
    receipts, \* receipts[m][u] is how far message m got with recipient u
    hidden,   \* <<m, u>>: user u deleted message m for himself
    changes,  \* history: changes[m] counts the acknowledged edits and recalls
    convLock, \* the transaction that has locked the conversation
    rowLock,  \* rowLock[u] is the transaction that has locked the row of u
    tx        \* tx[w] is what worker w is doing

rows  == <<messages, members, receipts, hidden, changes>>
locks == <<convLock, rowLock>>
vars  == <<scenario, messages, nextId, members, receipts, hidden, changes, convLock, rowLock, tx>>

Ids == 1 .. scenario.ids

NoMessage == [state |-> "none", sender |-> None, kind |-> "none",
              cid |-> None, deleted |-> FALSE, version |-> 0]

NoMember == [role |-> "none", base |-> 0, read |-> 0, delivered |-> 0, unread |-> 0]

\* A new row; a member who is added has read all there is.  Where he began is
\* remembered as a history.
NewMember(role, base) ==
    [role |-> role, base |-> base, read |-> base, delivered |-> base, unread |-> 0]

Idle == [pc |-> "idle", op |-> "none", user |-> None, other |-> None,
         cid |-> None, id |-> 0, note |-> 0, version |-> 0, count |-> 0]

\* Every request, loaded with what it needs.
Request(pc, op, user) == [Idle EXCEPT !.pc = pc, !.op = op, !.user = user]

-----------------------------------------------------------------------------
(* Queries.                                                                  *)

Larger(a, b) == IF a > b THEN a ELSE b

IsMember(u) == members[u].role # "none"
Members     == {u \in Users : IsMember(u)}

Stored(m) == messages[m].state = "stored"

SameClientId(u, c) == {m \in Ids : Stored(m) /\ messages[m].sender = u /\ messages[m].cid = c}

\* What the recount of MarkRead counts: messages of others after a cursor.
Unseen(u, after) ==
    {m \in Ids : /\ Stored(m) /\ m > after
                 /\ messages[m].sender # u
                 /\ messages[m].kind # "system"
                 /\ ~messages[m].deleted
                 /\ <<m, u>> \notin hidden}

\* SELECT MAX(id) ... WHERE message_type <> 'system'
Newest ==
    LET posts == {m \in Ids : Stored(m) /\ messages[m].kind # "system"}
    IN CHOOSE b \in posts \cup {0} : \A m \in posts : m <= b

-----------------------------------------------------------------------------
Init ==
    /\ scenario \in Scenarios
    /\ messages = [m \in Ids |-> NoMessage]
    /\ nextId = 1
    /\ \E others \in SUBSET (Users \ {Owner}) :
         members = [u \in Users |-> IF u = Owner THEN NewMember("owner", 0)
                                    ELSE IF u \in others THEN NewMember("member", 0)
                                    ELSE NoMember]
    /\ receipts = [m \in Ids |-> [u \in Users |-> "none"]]
    /\ hidden = {}
    /\ changes = [m \in Ids |-> 0]
    /\ convLock = None
    /\ rowLock = [u \in Users |-> None]
    /\ tx = [w \in Workers |-> Idle]

\* A request comes in; what it reads before its transaction is in r.
Enter(w, r) ==
    /\ r.op \in scenario.operations
    /\ tx[w] = Idle
    /\ tx' = [tx EXCEPT ![w] = r]
    /\ UNCHANGED <<scenario, rows, nextId>>

Start(w, r) == Enter(w, r) /\ UNCHANGED locks

\* A request that has read nothing by then begins with its first lock: that of
\* the conversation ...
StartLocked(w, r) ==
    /\ convLock = None
    /\ convLock' = w
    /\ Enter(w, r)
    /\ UNCHANGED rowLock

\* SendMessageIdempotent: the optimistic lookup finds no message of that id.
StartSend(w, u, c) ==
    /\ IsMember(u) /\ SameClientId(u, c) = {}
    /\ Start(w, [Request("lock", "send", u) EXCEPT !.cid = c])

StartPoll(w, u) == StartLocked(w, Request("note", "poll", u))

\* AddMembers (one at a time) and RemoveMember check under the lock.
StartAdd(w, u, v)    == StartLocked(w, [Request("note", "add", u) EXCEPT !.other = v])
StartRemove(w, u, v) == StartLocked(w, [Request("rows", "remove", u) EXCEPT !.other = v])

\* VotePoll and ClosePoll: a transaction that inserts a system message and
\* does not lock the conversation.
StartVote(w, u) ==
    /\ IsMember(u)
    /\ \E m \in Ids : Stored(m) /\ messages[m].kind = "poll"
    /\ Start(w, Request("note", "vote", u))

\* EditMessage and RecallMessageVersion load the message before the transaction.
StartChange(w, u, m, op) ==
    /\ Stored(m) /\ messages[m].sender = u /\ messages[m].kind = "text"
    /\ IsMember(u) /\ ~messages[m].deleted
    /\ messages[m].version < MaxVersion
    /\ Start(w, [Request("lock", op, u) EXCEPT !.id = m, !.version = messages[m].version])

StartHide(w, u, m) ==
    /\ Stored(m)
    /\ StartLocked(w, [Request("rows", "hide", u) EXCEPT !.id = m])

\* ... or, MarkRead and MarkDelivered, that of the member's own row.
StartMark(w, u, m, op) ==
    /\ Stored(m)
    /\ rowLock[u] = None
    /\ rowLock' = [rowLock EXCEPT ![u] = w]
    /\ Enter(w, [Request("rows", op, u) EXCEPT !.id = m])
    /\ UNCHANGED convLock

-----------------------------------------------------------------------------
(* Locks.                                                                    *)

\* The rows of chat_members that the transaction of w locks one by one.
Wanted(w) ==
    LET t == tx[w] IN
    CASE t.op \in {"send", "poll", "recall"} -> Members \ {t.user}
      [] t.op \in {"read", "deliver", "hide"} -> {t.user}
      [] t.op = "remove" -> {t.other}
      [] OTHER -> {}

HasRows(w) == \A u \in Wanted(w) : rowLock[u] = w

\* A send, an edit or a recall gets the lock of the conversation.
LockConversation(w) ==
    /\ tx[w].pc = "lock"
    /\ convLock = None
    /\ convLock' = w
    /\ tx' = [tx EXCEPT ![w].pc = IF tx[w].op = "send" THEN "insert" ELSE "rows"]
    /\ UNCHANGED <<scenario, rows, nextId, rowLock>>

\* Mutant: a row of chat_members may be locked before the conversation.
LockRowEarly(w, u) ==
    /\ tx[w].pc \in {"lock", "rows"}
    /\ u \in Wanted(w) /\ IsMember(u)
    /\ rowLock[u] = None
    /\ rowLock' = [rowLock EXCEPT ![u] = w]
    /\ UNCHANGED <<scenario, rows, nextId, convLock, tx>>

LockRow(w, u) ==
    /\ tx[w].pc = "rows"
    /\ u \in Wanted(w) /\ IsMember(u)
    /\ rowLock[u] = None
    /\ rowLock' = [rowLock EXCEPT ![u] = w]
    /\ UNCHANGED <<scenario, rows, nextId, convLock, tx>>

Released(w) ==
    /\ convLock' = IF convLock = w THEN None ELSE convLock
    /\ rowLock' = [u \in Users |-> IF rowLock[u] = w THEN None ELSE rowLock[u]]

\* A statement fails, a check under the lock refuses the request, or the
\* instance dies: the transaction is undone, the ids it drew stay unused.
Rollback(w) ==
    /\ tx[w] # Idle
    /\ messages' = [m \in Ids |-> IF m \in {tx[w].id, tx[w].note} /\ messages[m].state = "pending"
                                  THEN NoMessage ELSE messages[m]]
    /\ tx' = [tx EXCEPT ![w] = Idle]
    /\ Released(w)
    /\ UNCHANGED <<scenario, nextId, members, receipts, hidden, changes>>

-----------------------------------------------------------------------------
(* Insertions.                                                               *)

Message(u, kind, c) ==
    [state |-> "pending", sender |-> u, kind |-> kind, cid |-> c,
     deleted |-> FALSE, version |-> 1]

\* Mutant: the unique key (sender_userid, client_message_id) is missing.
InsertDuplicate(w) ==
    LET t == tx[w] IN
    /\ t.pc = "insert" /\ nextId \in Ids
    /\ IsMember(t.user)
    /\ t.op = "send" => rowLock[t.user] = None
    /\ messages' = [messages EXCEPT ![nextId] =
                      Message(t.user, IF t.op = "poll" THEN "poll" ELSE "text", t.cid)]
    /\ rowLock' = IF t.op = "send" THEN [rowLock EXCEPT ![t.user] = w] ELSE rowLock
    /\ nextId' = nextId + 1
    /\ tx' = [tx EXCEPT ![w].pc = "rows", ![w].id = nextId]
    /\ UNCHANGED <<scenario, members, receipts, hidden, changes, convLock>>

\* The message itself.  A send first locks the row of its sender; the unique
\* key (sender_userid, client_message_id) is the final arbiter of retries.
Insert(w) ==
    LET t == tx[w] IN
    /\ t.pc = "insert" /\ nextId \in Ids
    /\ IsMember(t.user)
    /\ t.op = "send" => rowLock[t.user] = None /\ SameClientId(t.user, t.cid) = {}
    /\ messages' = [messages EXCEPT ![nextId] =
                      Message(t.user, IF t.op = "poll" THEN "poll" ELSE "text", t.cid)]
    /\ rowLock' = IF t.op = "send" THEN [rowLock EXCEPT ![t.user] = w] ELSE rowLock
    /\ nextId' = nextId + 1
    /\ tx' = [tx EXCEPT ![w].pc = "rows", ![w].id = nextId]
    /\ UNCHANGED <<scenario, members, receipts, hidden, changes, convLock>>

\* Who may do what, checked in the transaction: owners remove anybody, others
\* only themselves; nobody is added twice.
Allowed(t) ==
    /\ IsMember(t.user)
    /\ t.op = "add" => ~IsMember(t.other)
    /\ t.op = "remove" => /\ IsMember(t.other)
                          /\ t.other = t.user \/ members[t.user].role = "owner"

\* createSystemMessage: a poll has it before the message, a member change after.
InsertNote(w) ==
    LET t == tx[w] IN
    /\ t.pc = "note" /\ nextId \in Ids
    /\ t.op # "vote" => Allowed(t)
    /\ messages' = [messages EXCEPT ![nextId] = Message(t.user, "system", None)]
    /\ nextId' = nextId + 1
    /\ tx' = [tx EXCEPT ![w].pc = IF t.op = "poll" THEN "insert" ELSE "commit",
                        ![w].note = nextId]
    /\ UNCHANGED <<scenario, members, receipts, hidden, changes, locks>>

\* The DELETE of RemoveMember has the row.
DeleteMember(w) ==
    /\ tx[w].pc = "rows" /\ tx[w].op = "remove"
    /\ Allowed(tx[w]) /\ HasRows(w)
    /\ tx' = [tx EXCEPT ![w].pc = "note"]
    /\ UNCHANGED <<scenario, rows, nextId, locks>>

-----------------------------------------------------------------------------
(* Commits.                                                                  *)

Finished(w) ==
    /\ tx' = [tx EXCEPT ![w] = Idle]
    /\ Released(w)
    /\ UNCHANGED <<scenario, nextId>>

Publish(ids) ==
    [m \in Ids |-> IF m \in ids THEN [messages[m] EXCEPT !.state = "stored"] ELSE messages[m]]

\* Mutant: only ordinary messages count as unread.
CommitPostUncounted(w) ==
    LET t == tx[w]
        recipients == Members \ {t.user}
    IN /\ t.pc = "rows" /\ t.op \in {"send", "poll"} /\ HasRows(w)
       /\ messages' = Publish({t.id, t.note})
       /\ members' = [u \in Users |-> IF u \in recipients /\ t.op = "send"
                                      THEN [members[u] EXCEPT !.unread = @ + 1] ELSE members[u]]
       /\ receipts' = [receipts EXCEPT ![t.id] =
                         [u \in Users |-> IF u \in recipients THEN "sent" ELSE @[u]]]
       /\ Finished(w)
       /\ UNCHANGED <<hidden, changes>>

\* SendMessageIdempotent and CreatePoll: the message, the unread counts of the
\* other members and their receipts become visible together.
CommitPost(w) ==
    LET t == tx[w]
        recipients == Members \ {t.user}
    IN /\ t.pc = "rows" /\ t.op \in {"send", "poll"} /\ HasRows(w)
       /\ messages' = Publish({t.id, t.note})
       /\ members' = [u \in Users |-> IF u \in recipients
                                      THEN [members[u] EXCEPT !.unread = @ + 1] ELSE members[u]]
       /\ receipts' = [receipts EXCEPT ![t.id] =
                         [u \in Users |-> IF u \in recipients THEN "sent" ELSE @[u]]]
       /\ Finished(w)
       /\ UNCHANGED <<hidden, changes>>

CommitVote(w) ==
    /\ tx[w].pc = "commit" /\ tx[w].op = "vote"
    /\ messages' = Publish({tx[w].note})
    /\ Finished(w)
    /\ UNCHANGED <<members, receipts, hidden, changes>>

\* Mutant: a new member starts from nothing instead of the newest message.
CommitAddAtZero(w) ==
    LET t == tx[w] IN
    /\ t.pc = "commit" /\ t.op = "add"
    /\ messages' = Publish({t.note})
    /\ members' = [members EXCEPT ![t.other] = NewMember("member", 0)]
    /\ Finished(w)
    /\ UNCHANGED <<receipts, hidden, changes>>

CommitAdd(w) ==
    LET t == tx[w] IN
    /\ t.pc = "commit" /\ t.op = "add"
    /\ messages' = Publish({t.note})
    /\ members' = [members EXCEPT ![t.other] = NewMember("member", Newest)]
    /\ Finished(w)
    /\ UNCHANGED <<receipts, hidden, changes>>

CommitRemove(w) ==
    LET t == tx[w] IN
    /\ t.pc = "commit" /\ t.op = "remove"
    /\ messages' = Publish({t.note})
    /\ members' = [members EXCEPT ![t.other] = NoMember]
    /\ Finished(w)
    /\ UNCHANGED <<receipts, hidden, changes>>

\* UPDATE ... WHERE deleted_at IS NULL AND version = <the loaded one>
Unchanged(t) ==
    /\ ~messages[t.id].deleted
    /\ messages[t.id].version = t.version
    /\ IsMember(t.user)

\* Mutant: an edit does not test the version it was made from.
CommitEditAnyVersion(w) ==
    LET t == tx[w] IN
    /\ t.pc = "rows" /\ t.op = "edit"
    /\ ~messages[t.id].deleted /\ IsMember(t.user)
    /\ messages' = [messages EXCEPT ![t.id].version = t.version + 1]
    /\ changes' = [changes EXCEPT ![t.id] = @ + 1]
    /\ Finished(w)
    /\ UNCHANGED <<members, receipts, hidden>>

CommitEdit(w) ==
    LET t == tx[w] IN
    /\ t.pc = "rows" /\ t.op = "edit" /\ Unchanged(t)
    /\ messages' = [messages EXCEPT ![t.id].version = t.version + 1]
    /\ changes' = [changes EXCEPT ![t.id] = @ + 1]
    /\ Finished(w)
    /\ UNCHANGED <<members, receipts, hidden>>

\* A recall takes the message out of the unread counts it is part of.
CommitRecall(w) ==
    LET t == tx[w] IN
    /\ t.pc = "rows" /\ t.op = "recall" /\ Unchanged(t) /\ HasRows(w)
    /\ messages' = [messages EXCEPT ![t.id].version = t.version + 1, ![t.id].deleted = TRUE]
    /\ changes' = [changes EXCEPT ![t.id] = @ + 1]
    /\ members' = [u \in Users |->
                     IF /\ u \in Wanted(w) /\ members[u].read < t.id
                        /\ <<t.id, u>> \notin hidden /\ members[u].unread > 0
                     THEN [members[u] EXCEPT !.unread = @ - 1] ELSE members[u]]
    /\ Finished(w)
    /\ UNCHANGED <<receipts, hidden>>

\* Mutant: a message that is hidden already is discounted again.
CommitHideAgain(w) ==
    LET t == tx[w]
        msg == messages[t.id]
    IN /\ t.pc = "rows" /\ t.op = "hide" /\ IsMember(t.user) /\ HasRows(w)
       /\ hidden' = hidden \cup {<<t.id, t.user>>}
       /\ members' = IF /\ msg.sender # t.user /\ msg.kind # "system" /\ ~msg.deleted
                        /\ members[t.user].read < t.id
                     THEN [members EXCEPT ![t.user].unread = @ - 1] ELSE members
       /\ Finished(w)
       /\ UNCHANGED <<messages, receipts, changes>>

\* DeleteMessageForMe; doing it again changes nothing.
CommitHide(w) ==
    LET t == tx[w]
        msg == messages[t.id]
        row == members[t.user]
    IN /\ t.pc = "rows" /\ t.op = "hide" /\ IsMember(t.user) /\ HasRows(w)
       /\ hidden' = hidden \cup {<<t.id, t.user>>}
       /\ members' = IF /\ <<t.id, t.user>> \notin hidden
                        /\ msg.sender # t.user /\ msg.kind # "system" /\ ~msg.deleted
                        /\ row.read < t.id /\ row.unread > 0
                     THEN [members EXCEPT ![t.user].unread = @ - 1] ELSE members
       /\ Finished(w)
       /\ UNCHANGED <<messages, receipts, changes>>

\* Mutant: a cursor is moved to the requested message, be it an older one.
RecountRequested(w) ==
    LET t == tx[w]
    IN /\ t.pc = "rows" /\ t.op = "read" /\ IsMember(t.user) /\ HasRows(w)
       /\ tx' = [tx EXCEPT ![w].pc = "commit",
                           ![w].count = Cardinality(Unseen(t.user, t.id))]
       /\ UNCHANGED <<scenario, rows, nextId, locks>>

\* Mutant: the recount also counts what the reader has deleted for himself.
RecountHidden(w) ==
    LET t == tx[w]
        through == Larger(t.id, members[t.user].read)
        waiting == {m \in Ids : /\ Stored(m) /\ m > through /\ ~messages[m].deleted
                                /\ messages[m].sender # t.user /\ messages[m].kind # "system"}
    IN /\ t.pc = "rows" /\ t.op = "read" /\ IsMember(t.user) /\ HasRows(w)
       /\ tx' = [tx EXCEPT ![w].pc = "commit", ![w].id = through,
                           ![w].count = Cardinality(waiting)]
       /\ UNCHANGED <<scenario, rows, nextId, locks>>

\* MarkRead counts in its snapshot and writes afterwards; the row is locked.
Recount(w) ==
    LET t == tx[w]
        through == Larger(t.id, members[t.user].read)
    IN /\ t.pc = "rows" /\ t.op = "read" /\ IsMember(t.user) /\ HasRows(w)
       /\ tx' = [tx EXCEPT ![w].pc = "commit", ![w].id = through,
                           ![w].count = Cardinality(Unseen(t.user, through))]
       /\ UNCHANGED <<scenario, rows, nextId, locks>>

\* The receipts of u for the messages in (after, through] reach at least stage.
Reached(u, after, through, stage) ==
    [m \in Ids |->
       IF /\ after < m /\ m <= through
          /\ receipts[m][u] \in (IF stage = "read" THEN {"sent", "delivered"} ELSE {"sent"})
       THEN [receipts[m] EXCEPT ![u] = stage] ELSE receipts[m]]

CommitRead(w) ==
    LET t == tx[w]
        row == members[t.user]
    IN /\ t.pc = "commit" /\ t.op = "read"
       /\ members' = [members EXCEPT ![t.user].read = t.id,
                                     ![t.user].delivered = Larger(t.id, row.delivered),
                                     ![t.user].unread = t.count]
       /\ receipts' = Reached(t.user, row.read, t.id, "read")
       /\ Finished(w)
       /\ UNCHANGED <<messages, hidden, changes>>

CommitDeliver(w) ==
    LET t == tx[w]
        row == members[t.user]
        through == Larger(t.id, row.delivered)
    IN /\ t.pc = "rows" /\ t.op = "deliver" /\ IsMember(t.user) /\ HasRows(w)
       /\ members' = [members EXCEPT ![t.user].delivered = through]
       /\ receipts' = Reached(t.user, row.delivered, through, "delivered")
       /\ Finished(w)
       /\ UNCHANGED <<messages, hidden, changes>>

-----------------------------------------------------------------------------
\* Requests come from members, who may have left when they are handled; to the
\* others the transaction answers with a rollback that leaves nothing behind.
Begin(w) ==
    \E u \in Members :
      \/ \E c \in ClientIds : StartSend(w, u, c)
      \/ StartPoll(w, u) \/ StartVote(w, u)
      \/ \E v \in Users \ Members : StartAdd(w, u, v)
      \/ \E v \in Members : StartRemove(w, u, v)
      \/ \E m \in Ids : \/ \E op \in {"edit", "recall"} : StartChange(w, u, m, op)
                        \/ \E op \in {"read", "deliver"} : StartMark(w, u, m, op)
                        \/ StartHide(w, u, m)

Work(w) ==
    \/ LockConversation(w)
    \/ \E u \in Users : LockRow(w, u)
    \/ Insert(w) \/ InsertNote(w) \/ DeleteMember(w) \/ Recount(w)
    \/ CommitPost(w) \/ CommitVote(w) \/ CommitAdd(w) \/ CommitRemove(w)
    \/ CommitEdit(w) \/ CommitRecall(w) \/ CommitHide(w)
    \/ CommitRead(w) \/ CommitDeliver(w)

Next == \E w \in Workers : Begin(w) \/ Work(w) \/ Rollback(w)

Spec == Init /\ [][Next]_vars

-----------------------------------------------------------------------------
(* Properties.                                                               *)

MessageRows == [state : {"none", "pending", "stored"}, sender : Users \cup {None},
                kind : {"none", "text", "poll", "system"}, cid : ClientIds \cup {None},
                deleted : BOOLEAN, version : Nat]

MemberRows == [role : {"none", "owner", "member"}, base : Nat, read : Nat, delivered : Nat, unread : Nat]

Transactions == [pc : {"idle", "lock", "insert", "note", "rows", "commit"},
                 op : Kinds \cup {"none"},
                 user : Users \cup {None}, other : Users \cup {None},
                 cid : ClientIds \cup {None}, id : Nat, note : Nat,
                 version : Nat, count : Nat]

\* The columns keep their types; unread_count is unsigned, so no sequence of
\* recalls and deletions may bring it below zero.
TypeOK ==
    /\ messages \in [Ids -> MessageRows]
    /\ scenario \in Scenarios /\ nextId \in 1 .. scenario.ids + 1
    /\ members \in [Users -> MemberRows]
    /\ receipts \in [Ids -> [Users -> {"none", "sent", "delivered", "read"}]]
    /\ hidden \subseteq Ids \X Users
    /\ changes \in [Ids -> Nat]
    /\ convLock \in Workers \cup {None}
    /\ rowLock \in [Users -> Workers \cup {None}]
    /\ tx \in [Workers -> Transactions]

\* The cached unread_count of a member is what a recount would give, however
\* sends, reads, recalls and deletions of the same messages overlap.
UnreadIsExact ==
    \A u \in Members : members[u].unread = Cardinality(Unseen(u, members[u].read))

\* With votes the cached unread_count may be too high, because the system message
\* of a vote, written without the lock of the conversation, overtakes a message
\* with a lower id.  But a message that is waiting is never left out.
UnreadIsNeverTooLow ==
    /\ \A u \in Members : members[u].unread >= Cardinality(Unseen(u, members[u].read))
    /\ "vote" \notin scenario.operations => UnreadIsExact

\* Recipients are snapshot with the message: whoever joins, leaves and comes back
\* meanwhile, a member has a receipt of each message that waits for him.  Without
\* votes again, what the sender sees of a recipient's receipts is what the
\* recipient's two cursors say, for every message up to them and for none after
\* them.  Receipts from before a member left and came back stay as they were.
ReceiptsMatchCursors ==
    /\ \A u \in Members : \A m \in Unseen(u, members[u].read) : receipts[m][u] # "none"
    /\ "vote" \notin scenario.operations =>
         \A u \in Members, m \in Ids :
           (receipts[m][u] # "none" /\ m > members[u].base) =>
             /\ receipts[m][u] = "read" <=> m <= members[u].read
             /\ receipts[m][u] # "sent" <=> m <= members[u].delivered

\* Retries of a send, also concurrent ones, store the message once.
OneMessagePerClientId ==
    \A u \in Users, c \in ClientIds : Cardinality(SameClientId(u, c)) <= 1

\* No acknowledged edit or recall is lost: each one made a version of its own.
EachChangeHasItsVersion ==
    \A m \in Ids : Stored(m) => messages[m].version = 1 + changes[m]

\* The transactions that w waits for.
Blockers(w) ==
    LET t == tx[w] IN
    (CASE t.pc = "lock" -> {convLock}
       [] t.pc = "insert" /\ t.op = "send" -> {rowLock[t.user]}
       [] t.pc = "rows" -> {rowLock[u] : u \in Wanted(w)}
       [] OTHER -> {}) \ {None, w}

\* The conversation is locked before any row of a member, so transactions
\* never wait for each other in a circle.
NoDeadlock ==
    \A S \in (SUBSET Workers) \ {{}} : \E w \in S : Blockers(w) \cap S = {}

\* As long as somebody stays a member his cursors only advance, whatever order
\* his devices' requests are handled in.
CursorsNeverGoBack ==
    [][\A u \in Users : (IsMember(u) /\ IsMember(u)') =>
         /\ members[u].read <= members'[u].read
         /\ members[u].delivered <= members'[u].delivered]_vars
=============================================================================
