------------------------ MODULE ConversationStoreProofs ------------------------
(***************************************************************************)
(* Proofs about ConversationStore for any users, client ids, number of     *)
(* concurrent transactions, operations and message ids.                    *)
(***************************************************************************)
EXTENDS ConversationStore, FiniteSetTheorems, TLAPS

\* What a transaction is doing fits its operation: a message it has inserted is in
\* id, a system message in note.
TransactionOK(t) ==
    /\ t.op = "none" <=> t.pc = "idle"
    /\ t.op # "none" => t.user \in Users
    /\ t.op \in {"add", "remove"} => t.other \in Users
    /\ t.op = "send" <=> t.cid # None
    /\ t.op \in {"send", "poll"} => (t.id # 0 <=> t.pc = "rows")
    /\ t.op \in {"none", "vote", "add", "remove"} => t.id = 0
    /\ t.note # 0 <=> \/ t.op \in {"vote", "add", "remove"} /\ t.pc = "commit"
                      \/ t.op = "poll" /\ t.pc \in {"insert", "rows"}
    /\ t.pc = "lock" => t.op \in {"send", "edit", "recall"}
    /\ t.pc = "insert" => t.op \in {"send", "poll"}
    /\ t.pc = "note" => t.op \in {"poll", "vote", "add", "remove"}
    /\ t.pc = "rows" => t.op \in Kinds \ {"vote", "add"}
    /\ t.pc = "commit" => t.op \in {"vote", "add", "remove", "read"}

TransactionsOK == \A w \in Workers : TransactionOK(tx[w])

\* Who holds the lock of a row of chat_members holds that of the conversation too,
\* unless it only moves a cursor; who changes rows holds what it has to.
LockOK(w) ==
    LET t == tx[w] IN
    /\ \A u \in Users : rowLock[u] = w =>
         /\ t.pc \notin {"idle", "lock"}
         /\ convLock # w => t.op \in {"read", "deliver"} /\ t.user = u
    /\ t.pc \notin {"idle", "lock"} /\ t.op \notin {"read", "deliver", "vote"} => convLock = w
    /\ t.op \in {"read", "deliver"} => rowLock[t.user] = w
    /\ t.op = "send" /\ t.pc = "rows" => rowLock[t.user] = w
    /\ t.op = "remove" /\ t.pc \in {"note", "commit"} => rowLock[t.other] = w

LocksOK == \A w \in Workers : LockOK(w)

\* The messages that a transaction has inserted.
Own(w) == ({tx[w].note} \cup (IF tx[w].op \in {"send", "poll"} THEN {tx[w].id} ELSE {})) \ {0}

\* They are pending; the others that it works on are stored.
OwnOK(w) ==
    LET t == tx[w] IN
    /\ t.op \in {"send", "poll"} /\ t.id # 0 =>
         /\ t.id \in Ids
         /\ messages[t.id] = Message(t.user, IF t.op = "poll" THEN "poll" ELSE "text", t.cid)
    /\ t.note # 0 => t.note \in Ids /\ messages[t.note] = Message(t.user, "system", None)
    /\ t.op \in {"edit", "recall", "hide", "read", "deliver"} => t.id \in Ids /\ Stored(t.id)
    /\ t.op \in {"edit", "recall"} => messages[t.id].kind = "text" /\ messages[t.id].sender = t.user

OwnsOK ==
    /\ \A w \in Workers : OwnOK(w)
    /\ \A v, w \in Workers : v # w => Own(v) \cap Own(w) = {}

\* Ids that were not drawn are free; only stored messages are edited, recalled or
\* hidden; cursors stand at stored messages.
RowsOK ==
    /\ \A m \in Ids : m >= nextId => messages[m] = NoMessage
    /\ \A m \in Ids : ~Stored(m) => changes[m] = 0
    /\ \A m \in Ids, u \in Users : <<m, u>> \in hidden => Stored(m)
    /\ \A u \in Users : members[u].read # 0 => members[u].read \in Ids /\ Stored(members[u].read)

Basis == TypeOK /\ TransactionsOK /\ LocksOK /\ OwnsOK /\ RowsOK

-----------------------------------------------------------------------------
(* Types.                                                                    *)

LEMMA IdsAreNumbers ==
    ASSUME scenario \in Scenarios
    PROVE  scenario.ids \in Nat /\ Ids \subseteq Nat \ {0} /\ IsFiniteSet(Ids)
  <1>1. scenario.ids \in Nat
    BY StoreAssumption
  <1>2. IsFiniteSet(1 .. scenario.ids)
    BY <1>1, FS_Interval
  <1>3. 1 .. scenario.ids \subseteq Nat \ {0}
    BY <1>1
  <1> QED
    BY <1>1, <1>2, <1>3 DEF Ids

LEMMA RecordTypes ==
    /\ NoMessage \in MessageRows
    /\ NoMember \in MemberRows
    /\ Idle \in Transactions
    /\ \A role \in {"owner", "member"}, base \in Nat : NewMember(role, base) \in MemberRows
    /\ \A u \in Users, kind \in {"text", "poll", "system"}, c \in ClientIds \cup {None} :
         Message(u, kind, c) \in MessageRows
    /\ \A pc \in {"lock", "note", "rows"}, op \in Kinds, u \in Users : Request(pc, op, u) \in Transactions
  BY DEF NoMessage, MessageRows, NoMember, MemberRows, Idle, Transactions, NewMember, Message, Request, Kinds

\* A set of ids has a largest member; Newest is one.
LEMMA NewestIsLargest ==
    ASSUME scenario \in Scenarios
    PROVE  /\ Newest \in Nat
           /\ Newest # 0 => Newest \in Ids /\ Stored(Newest)
           /\ \A m \in Ids : Stored(m) /\ messages[m].kind # "system" => m <= Newest
  <1> DEFINE posts == {m \in Ids : Stored(m) /\ messages[m].kind # "system"}
             all == posts \cup {0}
             above == {{m \in all : m > b} : b \in all}
             R == StrictSubsetOrdering(all)
  <1>1. all \subseteq Nat /\ IsFiniteSet(all)
    <2>1. IsFiniteSet(posts)
      BY IdsAreNumbers, FS_Subset
    <2> QED
      BY <2>1, IdsAreNumbers, FS_AddElement
  <1>2. IsWellFoundedOn(R, FiniteSubsetsOf(all))
    BY FS_StrictSubsetOrderingWellFounded
  <1>3. above \subseteq FiniteSubsetsOf(all) /\ above # {}
    <2>1. FiniteSubsetsOf(all) = SUBSET all
      BY <1>1, FS_FiniteSubsetsOfFinite
    <2>2. above \subseteq SUBSET all
      OBVIOUS
    <2>3. {m \in all : m > 0} \in above
      OBVIOUS
    <2> QED
      BY <2>1, <2>2, <2>3
  <1>4. PICK least \in above : \A other \in above : ~(<<other, least>> \in R)
    <2> HIDE DEF above, R
    <2> QED
      BY <1>2, <1>3, WFMin
  <1>5. PICK b \in all : least = {m \in all : m > b}
    BY <1>4
  <1>6. ASSUME NEW m \in all, m > b PROVE FALSE
    <2> DEFINE other == {k \in all : k > m}
    <2>1. other \in above
      BY <1>6
    <2>2. other \subseteq least /\ m \in least /\ m \notin other
      BY <1>1, <1>5, <1>6
    <2>3. <<other, least>> \in R
      BY <2>1, <2>2, <1>4, <1>3 DEF StrictSubsetOrdering, FiniteSubsetsOf
    <2> QED
      BY <2>1, <2>3, <1>4
  <1>7. \A m \in all : m <= b
    BY <1>1, <1>6
  <1>8. \E c \in all : \A m \in posts : m <= c
    BY <1>7
  <1>9. Newest \in all /\ \A m \in posts : m <= Newest
    BY <1>8 DEF Newest
  <1> QED
    BY <1>1, <1>9

LEMMA CountsAreNumbers ==
    ASSUME scenario \in Scenarios, NEW u, NEW after
    PROVE  IsFiniteSet(Unseen(u, after)) /\ Cardinality(Unseen(u, after)) \in Nat
  <1>1. Unseen(u, after) \in SUBSET Ids
    BY DEF Unseen
  <1> QED
    BY <1>1, IdsAreNumbers, FS_Subset, FS_CardinalityType

-----------------------------------------------------------------------------
(* How a transaction begins and ends.                                        *)

\* What a request that comes in has read, and the locks that it takes at once.
Beginning(w, r) ==
    /\ r \in Transactions /\ TransactionOK(r)
    /\ r.op \in scenario.operations
    /\ r.note = 0 /\ r.count = 0
    /\ r.op \in {"send", "poll"} => r.id = 0
    /\ r.op \in {"edit", "recall", "hide", "read", "deliver"} => r.id \in Ids /\ Stored(r.id)
    /\ r.op \in {"edit", "recall"} => messages[r.id].kind = "text" /\ messages[r.id].sender = r.user
    /\ \/ r.op \in {"send", "edit", "recall"} /\ r.pc = "lock" /\ UNCHANGED locks
       \/ r.op = "vote" /\ r.pc = "note" /\ UNCHANGED locks
       \/ /\ r.op \in {"poll", "add", "remove", "hide"} /\ r.pc \in {"note", "rows"}
          /\ convLock = None /\ convLock' = w /\ UNCHANGED rowLock
          /\ r.op = "remove" => r.pc = "rows"
       \/ /\ r.op \in {"read", "deliver"} /\ r.pc = "rows"
          /\ rowLock[r.user] = None /\ rowLock' = [rowLock EXCEPT ![r.user] = w] /\ UNCHANGED convLock

LEMMA Begins ==
    ASSUME TypeOK, NEW w \in Workers, Begin(w)
    PROVE  \E r : Beginning(w, r) /\ Enter(w, r)
  <1> USE DEF Beginning, TransactionOK, Request, Idle, Transactions, Kinds
  <1>0. Ids \subseteq Nat \ {0} /\ None \notin ClientIds /\ Members \subseteq Users
        /\ \A m \in Ids : messages[m] \in MessageRows
    BY IdsAreNumbers, StoreAssumption DEF Members, TypeOK
  <1> PICK u \in Members : Begin(w)!(u)
    BY DEF Begin
  <1>1. ASSUME NEW c \in ClientIds, StartSend(w, u, c)
        PROVE  \E r : Beginning(w, r) /\ Enter(w, r)
    <2> WITNESS [Request("lock", "send", u) EXCEPT !.cid = c]
    <2> QED
      BY <1>0, <1>1 DEF StartSend, Start, Enter
  <1>2. CASE StartPoll(w, u)
    <2> WITNESS Request("note", "poll", u)
    <2> QED
      BY <1>0, <1>2 DEF StartPoll, StartLocked, Enter
  <1>3. CASE StartVote(w, u)
    <2> WITNESS Request("note", "vote", u)
    <2> QED
      BY <1>0, <1>3 DEF StartVote, Start, Enter
  <1>4. ASSUME NEW v \in Users, StartAdd(w, u, v)
        PROVE  \E r : Beginning(w, r) /\ Enter(w, r)
    <2> WITNESS [Request("note", "add", u) EXCEPT !.other = v]
    <2> QED
      BY <1>0, <1>4 DEF StartAdd, StartLocked, Enter
  <1>5. ASSUME NEW v \in Users, StartRemove(w, u, v)
        PROVE  \E r : Beginning(w, r) /\ Enter(w, r)
    <2> WITNESS [Request("rows", "remove", u) EXCEPT !.other = v]
    <2> QED
      BY <1>0, <1>5 DEF StartRemove, StartLocked, Enter
  <1>6. ASSUME NEW m \in Ids, NEW op \in {"edit", "recall"}, StartChange(w, u, m, op)
        PROVE  \E r : Beginning(w, r) /\ Enter(w, r)
    <2> WITNESS [Request("lock", op, u) EXCEPT !.id = m, !.version = messages[m].version]
    <2>1. messages[m].version \in Nat
      BY <1>0 DEF MessageRows
    <2> QED
      BY <1>0, <1>6, <2>1 DEF StartChange, Start, Enter
  <1>7. ASSUME NEW m \in Ids, NEW op \in {"read", "deliver"}, StartMark(w, u, m, op)
        PROVE  \E r : Beginning(w, r) /\ Enter(w, r)
    <2> WITNESS [Request("rows", op, u) EXCEPT !.id = m]
    <2> QED
      BY <1>0, <1>7 DEF StartMark, Enter
  <1>8. ASSUME NEW m \in Ids, StartHide(w, u, m)
        PROVE  \E r : Beginning(w, r) /\ Enter(w, r)
    <2> WITNESS [Request("rows", "hide", u) EXCEPT !.id = m]
    <2> QED
      BY <1>0, <1>8 DEF StartHide, StartLocked, Enter
  <1> HIDE DEF Beginning, TransactionOK, Request, Idle, Transactions, Kinds
  <1> QED
    BY <1>0, <1>1, <1>2, <1>3, <1>4, <1>5, <1>6, <1>7, <1>8

LEMMA PublishedRows ==
    ASSUME TypeOK, NEW ids
    PROVE  /\ Publish(ids) \in [Ids -> MessageRows]
           /\ \A m \in Ids : m \notin ids => Publish(ids)[m] = messages[m]
           /\ \A m \in Ids : m \in ids => /\ Publish(ids)[m].state = "stored"
                                          /\ Publish(ids)[m].sender = messages[m].sender
                                          /\ Publish(ids)[m].kind = messages[m].kind
                                          /\ Publish(ids)[m].cid = messages[m].cid
                                          /\ Publish(ids)[m].deleted = messages[m].deleted
                                          /\ Publish(ids)[m].version = messages[m].version
  <1>1. ASSUME NEW m \in Ids
        PROVE  LET e == [messages[m] EXCEPT !.state = "stored"] IN
               /\ e \in MessageRows /\ e.state = "stored"
               /\ e.sender = messages[m].sender /\ e.kind = messages[m].kind
               /\ e.cid = messages[m].cid /\ e.deleted = messages[m].deleted
               /\ e.version = messages[m].version
    BY DEF TypeOK, MessageRows
  <1>2. \A m \in Ids : messages[m] \in MessageRows
    BY DEF TypeOK
  <1> QED
    BY <1>1, <1>2 DEF Publish

\* The end of a transaction, whether it commits or not.
Ended(w) == tx' = [tx EXCEPT ![w] = Idle] /\ Released(w)

LEMMA EndTypes ==
    ASSUME TypeOK, NEW w \in Workers, Ended(w)
    PROVE  /\ convLock' \in Workers \cup {None}
           /\ rowLock' \in [Users -> Workers \cup {None}]
           /\ tx' \in [Workers -> Transactions]
  BY RecordTypes DEF TypeOK, Ended, Released

LEMMA TypeInit == Init => TypeOK
  <1> SUFFICES ASSUME Init PROVE TypeOK
    OBVIOUS
  <1> USE DEF Init
  <1>1. scenario.ids \in Nat
    BY IdsAreNumbers
  <1>2. members \in [Users -> MemberRows]
    BY RecordTypes
  <1>3. messages \in [Ids -> MessageRows] /\ tx \in [Workers -> Transactions]
    BY RecordTypes
  <1>4. nextId \in 1 .. scenario.ids + 1 /\ changes \in [Ids -> Nat]
    BY <1>1
  <1>5. receipts \in [Ids -> [Users -> {"none", "sent", "delivered", "read"}]]
    OBVIOUS
  <1> QED
    BY <1>2, <1>3, <1>4, <1>5 DEF TypeOK

\* t has become e, with other values in some fields.
Changed(t, e, pc, id, note, count) ==
    /\ e.pc = pc /\ e.id = id /\ e.note = note /\ e.count = count
    /\ e.op = t.op /\ e.user = t.user /\ e.other = t.other
    /\ e.cid = t.cid /\ e.version = t.version

\* row has become e, with other values in some columns.
Altered(row, e, read, delivered, unread) ==
    /\ e.role = row.role /\ e.base = row.base
    /\ e.read = read /\ e.delivered = delivered /\ e.unread = unread

\* What a step does to one row keeps its type.
LEMMA MemberUpdates ==
    ASSUME NEW row \in MemberRows, NEW a \in Nat, NEW b \in Nat, NEW n \in Nat
    PROVE  /\ LET e == [row EXCEPT !.unread = @ + 1] IN
              e \in MemberRows /\ Altered(row, e, row.read, row.delivered, row.unread + 1)
           /\ row.unread > 0 =>
                LET e == [row EXCEPT !.unread = @ - 1] IN
                e \in MemberRows /\ Altered(row, e, row.read, row.delivered, row.unread - 1)
           /\ LET e == [row EXCEPT !.delivered = b] IN
              e \in MemberRows /\ Altered(row, e, row.read, b, row.unread)
           /\ LET e == [[[row EXCEPT !.read = a] EXCEPT !.delivered = b] EXCEPT !.unread = n] IN
              e \in MemberRows /\ Altered(row, e, a, b, n)
  <1> USE DEF MemberRows, Altered
  <1>1. LET e == [row EXCEPT !.unread = @ + 1] IN
        e \in MemberRows /\ Altered(row, e, row.read, row.delivered, row.unread + 1)
    OBVIOUS
  <1>2. row.unread > 0 =>
          LET e == [row EXCEPT !.unread = @ - 1] IN
          e \in MemberRows /\ Altered(row, e, row.read, row.delivered, row.unread - 1)
    OBVIOUS
  <1>3. LET e == [row EXCEPT !.delivered = b] IN
        e \in MemberRows /\ Altered(row, e, row.read, b, row.unread)
    OBVIOUS
  <1>4. LET e == [[[row EXCEPT !.read = a] EXCEPT !.delivered = b] EXCEPT !.unread = n] IN
        e \in MemberRows /\ Altered(row, e, a, b, n)
    OBVIOUS
  <1> HIDE DEF MemberRows, Altered
  <1> QED
    BY <1>1, <1>2, <1>3, <1>4

LEMMA TransactionUpdates ==
    ASSUME NEW t \in Transactions, NEW pc \in {"insert", "note", "rows", "commit"}, NEW n \in Nat, NEW k \in Nat
    PROVE  /\ LET e == [t EXCEPT !.pc = pc] IN
              e \in Transactions /\ Changed(t, e, pc, t.id, t.note, t.count)
           /\ LET e == [[t EXCEPT !.pc = pc] EXCEPT !.id = n] IN
              e \in Transactions /\ Changed(t, e, pc, n, t.note, t.count)
           /\ LET e == [[t EXCEPT !.pc = pc] EXCEPT !.note = n] IN
              e \in Transactions /\ Changed(t, e, pc, t.id, n, t.count)
           /\ LET e == [[[t EXCEPT !.pc = pc] EXCEPT !.id = n] EXCEPT !.count = k] IN
              e \in Transactions /\ Changed(t, e, pc, n, t.note, k)
  <1> USE DEF Transactions, Changed
  <1>1. LET e == [t EXCEPT !.pc = pc] IN
        e \in Transactions /\ Changed(t, e, pc, t.id, t.note, t.count)
    OBVIOUS
  <1>2. LET e == [[t EXCEPT !.pc = pc] EXCEPT !.id = n] IN
        e \in Transactions /\ Changed(t, e, pc, n, t.note, t.count)
    OBVIOUS
  <1>3. LET e == [[t EXCEPT !.pc = pc] EXCEPT !.note = n] IN
        e \in Transactions /\ Changed(t, e, pc, t.id, n, t.count)
    OBVIOUS
  <1>4. LET e == [[[t EXCEPT !.pc = pc] EXCEPT !.id = n] EXCEPT !.count = k] IN
        e \in Transactions /\ Changed(t, e, pc, n, t.note, k)
    OBVIOUS
  <1> QED
    BY <1>1, <1>2, <1>3, <1>4

\* The statements before the commit: which of them moves a transaction how.
Moved(w, pc, id, note, count) ==
    /\ tx' \in [Workers -> Transactions]
    /\ \A v \in Workers : v # w => tx'[v] = tx[v]
    /\ Changed(tx[w], tx'[w], pc, id, note, count)

LEMMA Moves ==
    ASSUME TypeOK, NEW w \in Workers
    PROVE  LET t == tx[w] IN
           /\ LockConversation(w) => Moved(w, IF t.op = "send" THEN "insert" ELSE "rows", t.id, t.note, t.count)
           /\ Insert(w) => Moved(w, "rows", nextId, t.note, t.count)
           /\ InsertNote(w) => Moved(w, IF t.op = "poll" THEN "insert" ELSE "commit", t.id, nextId, t.count)
           /\ DeleteMember(w) => Moved(w, "note", t.id, t.note, t.count)
  <1>0. tx \in [Workers -> Transactions] /\ nextId \in Nat /\ tx[w] \in Transactions
    BY IdsAreNumbers DEF TypeOK
  <1>1. ASSUME LockConversation(w)
        PROVE  Moved(w, IF tx[w].op = "send" THEN "insert" ELSE "rows", tx[w].id, tx[w].note, tx[w].count)
    <2> DEFINE pc == IF tx[w].op = "send" THEN "insert" ELSE "rows"
               e == [tx[w] EXCEPT !.pc = pc]
    <2>1. tx' = [tx EXCEPT ![w] = e] /\ pc \in {"insert", "rows"}
      BY <1>0, <1>1 DEF LockConversation
    <2> HIDE DEF pc
    <2>2. e \in Transactions /\ Changed(tx[w], e, pc, tx[w].id, tx[w].note, tx[w].count)
      BY <1>0, <2>1, TransactionUpdates
    <2> QED
      BY <1>0, <2>1, <2>2 DEF Moved, pc
  <1>2. ASSUME Insert(w)
        PROVE  Moved(w, "rows", nextId, tx[w].note, tx[w].count)
    <2> DEFINE e == [[tx[w] EXCEPT !.pc = "rows"] EXCEPT !.id = nextId]
    <2>1. tx' = [tx EXCEPT ![w] = e]
      BY <1>0, <1>2 DEF Insert
    <2>2. e \in Transactions /\ Changed(tx[w], e, "rows", nextId, tx[w].note, tx[w].count)
      BY <1>0, TransactionUpdates
    <2> QED
      BY <1>0, <2>1, <2>2 DEF Moved
  <1>3. ASSUME InsertNote(w)
        PROVE  Moved(w, IF tx[w].op = "poll" THEN "insert" ELSE "commit", tx[w].id, nextId, tx[w].count)
    <2> DEFINE pc == IF tx[w].op = "poll" THEN "insert" ELSE "commit"
               e == [[tx[w] EXCEPT !.pc = pc] EXCEPT !.note = nextId]
    <2>1. tx' = [tx EXCEPT ![w] = e] /\ pc \in {"insert", "commit"}
      BY <1>0, <1>3 DEF InsertNote
    <2> HIDE DEF pc
    <2>2. e \in Transactions /\ Changed(tx[w], e, pc, tx[w].id, nextId, tx[w].count)
      BY <1>0, <2>1, TransactionUpdates
    <2> QED
      BY <1>0, <2>1, <2>2 DEF Moved, pc
  <1>4. ASSUME DeleteMember(w)
        PROVE  Moved(w, "note", tx[w].id, tx[w].note, tx[w].count)
    <2> DEFINE e == [tx[w] EXCEPT !.pc = "note"]
    <2>1. tx' = [tx EXCEPT ![w] = e]
      BY <1>0, <1>4 DEF DeleteMember
    <2>2. e \in Transactions /\ Changed(tx[w], e, "note", tx[w].id, tx[w].note, tx[w].count)
      BY <1>0, TransactionUpdates
    <2> QED
      BY <1>0, <2>1, <2>2 DEF Moved
  <1> QED
    BY <1>1, <1>2, <1>3, <1>4

\* Where MarkRead moves the cursor.
Through(w) == Larger(tx[w].id, members[tx[w].user].read)

LEMMA RecountMoves ==
    ASSUME TypeOK, TransactionsOK, NEW w \in Workers, Recount(w)
    PROVE  /\ Through(w) \in Nat
           /\ Moved(w, "commit", Through(w), tx[w].note, Cardinality(Unseen(tx[w].user, Through(w))))
  <1> DEFINE n == Through(w)
             k == Cardinality(Unseen(tx[w].user, n))
             e == [[[tx[w] EXCEPT !.pc = "commit"] EXCEPT !.id = n] EXCEPT !.count = k]
  <1>0. tx \in [Workers -> Transactions] /\ tx[w] \in Transactions /\ scenario \in Scenarios
    BY DEF TypeOK
  <1>1. tx[w].user \in Users /\ tx[w].id \in Nat
    BY <1>0 DEF Recount, TransactionsOK, TransactionOK, Transactions
  <1>2. members[tx[w].user].read \in Nat
    BY <1>1 DEF TypeOK, MemberRows
  <1>3. n \in Nat /\ k \in Nat
    BY <1>0, <1>1, <1>2, CountsAreNumbers DEF Larger, Through
  <1>4. tx' = [tx EXCEPT ![w] = e]
    BY <1>0 DEF Recount, Through
  <1> HIDE DEF n, k
  <1>5. e \in Transactions /\ Changed(tx[w], e, "commit", n, tx[w].note, k)
    BY <1>0, <1>3, TransactionUpdates
  <1>6. Moved(w, "commit", n, tx[w].note, k)
    BY <1>0, <1>4, <1>5 DEF Moved
  <1> QED
    BY <1>3, <1>6 DEF n, k

\* An unfinished transaction goes on as its operation does.
LEMMA TransactionsNext ==
    ASSUME TypeOK, TransactionsOK, NEW w \in Workers, Begin(w) \/ Work(w) \/ Rollback(w)
    PROVE  TransactionsOK'
  <1> USE DEF TransactionsOK
  <1>0. tx \in [Workers -> Transactions] /\ tx[w] \in Transactions /\ nextId \in Nat \ {0} /\ TransactionOK(tx[w])
    BY IdsAreNumbers DEF TypeOK
  <1>1. CASE Begin(w)
    <2> PICK r : Beginning(w, r) /\ Enter(w, r)
      BY <1>1, Begins
    <2> QED
      BY <1>0 DEF Beginning, Enter
  <1>2. CASE tx' = [tx EXCEPT ![w] = Idle]
    <2>1. TransactionOK(Idle)
      BY StoreAssumption DEF TransactionOK, Idle
    <2> QED
      BY <1>0, <1>2, <2>1
  <1>3. CASE UNCHANGED tx
    BY <1>3
  <1>4. CASE LockConversation(w)
    <2>1. Moved(w, IF tx[w].op = "send" THEN "insert" ELSE "rows", tx[w].id, tx[w].note, tx[w].count)
      BY <1>4, Moves
    <2>2. TransactionOK(tx'[w])
      BY <1>0, <1>4, <2>1 DEF Moved, Changed, TransactionOK, Kinds, LockConversation
    <2> QED
      BY <2>1, <2>2 DEF Moved
  <1>5. CASE Insert(w)
    <2>1. Moved(w, "rows", nextId, tx[w].note, tx[w].count)
      BY <1>5, Moves
    <2>2. TransactionOK(tx'[w])
      BY <1>0, <1>5, <2>1 DEF Moved, Changed, TransactionOK, Kinds, Insert
    <2> QED
      BY <2>1, <2>2 DEF Moved
  <1>6. CASE InsertNote(w)
    <2>1. Moved(w, IF tx[w].op = "poll" THEN "insert" ELSE "commit", tx[w].id, nextId, tx[w].count)
      BY <1>6, Moves
    <2>2. TransactionOK(tx'[w])
      BY <1>0, <1>6, <2>1 DEF Moved, Changed, TransactionOK, InsertNote
    <2> QED
      BY <2>1, <2>2 DEF Moved
  <1>7. CASE DeleteMember(w)
    <2>1. Moved(w, "note", tx[w].id, tx[w].note, tx[w].count)
      BY <1>7, Moves
    <2>2. TransactionOK(tx'[w])
      BY <1>0, <1>7, <2>1 DEF Moved, Changed, TransactionOK, DeleteMember
    <2> QED
      BY <2>1, <2>2 DEF Moved
  <1>8. CASE Recount(w)
    <2>1. Moved(w, "commit", Through(w), tx[w].note, Cardinality(Unseen(tx[w].user, Through(w))))
      BY <1>8, RecountMoves
    <2>2. TransactionOK(tx'[w])
      BY <1>0, <1>8, <2>1 DEF Moved, Changed, TransactionOK, Recount
    <2> QED
      BY <2>1, <2>2 DEF Moved
  <1> QED
    BY <1>1, <1>2, <1>3, <1>4, <1>5, <1>6, <1>7, <1>8
    DEF Work, Rollback, LockRow, Finished, CommitPost, CommitVote, CommitAdd, CommitRemove,
        CommitEdit, CommitRecall, CommitHide, CommitRead, CommitDeliver

\* Finished is Ended, and leaves the scenario and the next id alone.
LEMMA Finishes ==
    ASSUME NEW w \in Workers, Finished(w)
    PROVE  Ended(w) /\ scenario' = scenario /\ nextId' = nextId /\ Ids' = Ids
  BY DEF Finished, Ended, Ids

\* The row of one member after a commit that changes it.
LEMMA MembersNext ==
    ASSUME TypeOK, TransactionsOK, NEW w \in Workers, NEW u \in Users
    PROVE  LET t == tx[w]
               row == members[u]
               e == members'[u]
           IN
           /\ CommitPost(w) =>
                /\ e \in MemberRows
                /\ u \in Members \ {t.user} => Altered(row, e, row.read, row.delivered, row.unread + 1)
                /\ u \notin Members \ {t.user} => e = row
           /\ CommitRecall(w) =>
                LET counted == /\ u \in Wanted(w) /\ row.read < t.id
                               /\ <<t.id, u>> \notin hidden /\ row.unread > 0
                IN /\ e \in MemberRows
                   /\ counted => Altered(row, e, row.read, row.delivered, row.unread - 1)
                   /\ ~counted => e = row
           /\ CommitHide(w) =>
                LET msg == messages[t.id]
                    counted == /\ <<t.id, u>> \notin hidden
                               /\ msg.sender # u /\ msg.kind # "system" /\ ~msg.deleted
                               /\ row.read < t.id /\ row.unread > 0
                IN /\ e \in MemberRows
                   /\ u = t.user /\ counted => Altered(row, e, row.read, row.delivered, row.unread - 1)
                   /\ ~(u = t.user /\ counted) => e = row
           /\ CommitRead(w) =>
                /\ e \in MemberRows
                /\ u = t.user => Altered(row, e, t.id, Larger(t.id, row.delivered), t.count)
                /\ u # t.user => e = row
           /\ CommitDeliver(w) =>
                /\ e \in MemberRows
                /\ u = t.user => Altered(row, e, row.read, Larger(t.id, row.delivered), row.unread)
                /\ u # t.user => e = row
           /\ CommitAdd(w) =>
                /\ e \in MemberRows
                /\ e = IF u = t.other THEN NewMember("member", Newest) ELSE row
           /\ CommitRemove(w) =>
                /\ e \in MemberRows
                /\ e = IF u = t.other THEN NoMember ELSE row
  <1> DEFINE t == tx[w]
             row == members[u]
             e == members'[u]
  <1>0. /\ members \in [Users -> MemberRows] /\ row \in MemberRows /\ row.delivered \in Nat
        /\ t \in Transactions /\ t.id \in Nat /\ t.count \in Nat
        /\ Larger(t.id, row.delivered) \in Nat /\ scenario \in Scenarios
    BY DEF TypeOK, MemberRows, Transactions, Larger
  <1>1. ASSUME CommitPost(w)
        PROVE  /\ e \in MemberRows
               /\ u \in Members \ {t.user} => Altered(row, e, row.read, row.delivered, row.unread + 1)
               /\ u \notin Members \ {t.user} => e = row
    BY <1>0, <1>1, MemberUpdates DEF CommitPost
  <1>2. ASSUME CommitRecall(w)
        PROVE  LET counted == /\ u \in Wanted(w) /\ row.read < t.id
                              /\ <<t.id, u>> \notin hidden /\ row.unread > 0
               IN /\ e \in MemberRows
                  /\ counted => Altered(row, e, row.read, row.delivered, row.unread - 1)
                  /\ ~counted => e = row
    BY <1>0, <1>2, MemberUpdates DEF CommitRecall
  <1>3. ASSUME CommitHide(w)
        PROVE  LET msg == messages[t.id]
                   counted == /\ <<t.id, u>> \notin hidden
                              /\ msg.sender # u /\ msg.kind # "system" /\ ~msg.deleted
                              /\ row.read < t.id /\ row.unread > 0
               IN /\ e \in MemberRows
                  /\ u = t.user /\ counted => Altered(row, e, row.read, row.delivered, row.unread - 1)
                  /\ ~(u = t.user /\ counted) => e = row
    <2>1. CASE u = t.user
      BY <1>0, <1>3, <2>1, MemberUpdates DEF CommitHide
    <2>2. CASE u # t.user
      BY <1>0, <1>3, <2>2 DEF CommitHide
    <2> QED
      BY <2>1, <2>2
  <1>4. ASSUME CommitRead(w)
        PROVE  /\ e \in MemberRows
               /\ u = t.user => Altered(row, e, t.id, Larger(t.id, row.delivered), t.count)
               /\ u # t.user => e = row
    <2>1. CASE u = t.user
      <3> DEFINE d == Larger(t.id, row.delivered)
                 new == [[[row EXCEPT !.read = t.id] EXCEPT !.delivered = d] EXCEPT !.unread = t.count]
      <3>1. e = new
        BY <1>0, <1>4, <2>1 DEF CommitRead
      <3>2. d \in Nat
        BY <1>0
      <3> HIDE DEF d
      <3>3. new \in MemberRows /\ Altered(row, new, t.id, d, t.count)
        BY <1>0, <3>2, MemberUpdates
      <3> QED
        BY <2>1, <3>1, <3>3 DEF d
    <2>2. CASE u # t.user
      BY <1>0, <1>4, <2>2 DEF CommitRead
    <2> QED
      BY <2>1, <2>2
  <1>5. ASSUME CommitDeliver(w)
        PROVE  /\ e \in MemberRows
               /\ u = t.user => Altered(row, e, row.read, Larger(t.id, row.delivered), row.unread)
               /\ u # t.user => e = row
    <2>1. CASE u = t.user
      <3> DEFINE d == Larger(t.id, row.delivered)
                 new == [row EXCEPT !.delivered = d]
      <3>1. e = new
        BY <1>0, <1>5, <2>1 DEF CommitDeliver
      <3>2. d \in Nat
        BY <1>0
      <3> HIDE DEF d
      <3>3. new \in MemberRows /\ Altered(row, new, row.read, d, row.unread)
        BY <1>0, <3>2, MemberUpdates
      <3> QED
        BY <2>1, <3>1, <3>3 DEF d
    <2>2. CASE u # t.user
      BY <1>0, <1>5, <2>2 DEF CommitDeliver
    <2> QED
      BY <2>1, <2>2
  <1>6. ASSUME CommitAdd(w)
        PROVE  /\ e \in MemberRows
               /\ e = IF u = t.other THEN NewMember("member", Newest) ELSE row
    BY <1>0, <1>6, RecordTypes, NewestIsLargest DEF CommitAdd
  <1>7. ASSUME CommitRemove(w)
        PROVE  /\ e \in MemberRows
               /\ e = IF u = t.other THEN NoMember ELSE row
    BY <1>0, <1>7, RecordTypes DEF CommitRemove
  <1> QED
    BY <1>1, <1>2, <1>3, <1>4, <1>5, <1>6, <1>7

\* What a step may do to one message.
Inserted(w, m) ==
    /\ m = nextId /\ nextId' = nextId + 1
    /\ \/ Insert(w) /\ messages'[m] = Message(tx[w].user, IF tx[w].op = "poll" THEN "poll" ELSE "text", tx[w].cid)
       \/ InsertNote(w) /\ messages'[m] = Message(tx[w].user, "system", None)

Published(w, m) ==
    /\ m \in Own(w)
    /\ CommitPost(w) \/ CommitVote(w) \/ CommitAdd(w) \/ CommitRemove(w)
    /\ messages'[m].state = "stored"
    /\ messages'[m].sender = messages[m].sender /\ messages'[m].kind = messages[m].kind
    /\ messages'[m].cid = messages[m].cid /\ messages'[m].deleted = messages[m].deleted
    /\ messages'[m].version = messages[m].version

Undone(w, m) ==
    /\ Rollback(w) /\ messages[m].state = "pending"
    /\ m \in {tx[w].id, tx[w].note} /\ messages'[m] = NoMessage

Revised(w, m) ==
    /\ m = tx[w].id
    /\ CommitEdit(w) \/ CommitRecall(w)
    /\ messages'[m].state = messages[m].state
    /\ messages'[m].sender = messages[m].sender /\ messages'[m].kind = messages[m].kind
    /\ messages'[m].cid = messages[m].cid /\ messages'[m].version = messages[m].version + 1
    /\ CommitEdit(w) => messages'[m].deleted = messages[m].deleted
    /\ CommitRecall(w) => messages'[m].deleted

LEMMA MessagesNext ==
    ASSUME TypeOK, TransactionsOK, NEW w \in Workers, Begin(w) \/ Work(w) \/ Rollback(w), NEW m \in Ids
    PROVE  /\ messages'[m] \in MessageRows
           /\ \/ messages'[m] = messages[m]
              \/ Inserted(w, m) \/ Published(w, m) \/ Undone(w, m) \/ Revised(w, m)
  <1> DEFINE t == tx[w]
             Goal == /\ messages'[m] \in MessageRows
                     /\ \/ messages'[m] = messages[m]
                        \/ Inserted(w, m) \/ Published(w, m) \/ Undone(w, m) \/ Revised(w, m)
  <1>0. /\ messages \in [Ids -> MessageRows] /\ messages[m] \in MessageRows
        /\ t \in Transactions /\ TransactionOK(t) /\ m # 0 /\ scenario \in Scenarios
    BY IdsAreNumbers DEF TypeOK, TransactionsOK
  <1>1. CASE UNCHANGED messages
    BY <1>0, <1>1
  <1>2. CASE Rollback(w)
    BY <1>0, <1>2, RecordTypes DEF Rollback, Undone
  <1>3. CASE Insert(w)
    <2> DEFINE new == Message(t.user, IF t.op = "poll" THEN "poll" ELSE "text", t.cid)
    <2>1. new \in MessageRows
      BY <1>0, <1>3 DEF Message, MessageRows, Transactions
    <2>2. messages' = [messages EXCEPT ![nextId] = new] /\ nextId' = nextId + 1
      BY <1>3 DEF Insert
    <2> QED
      BY <1>0, <1>3, <2>1, <2>2 DEF Inserted
  <1>4. CASE InsertNote(w)
    <2> DEFINE new == Message(t.user, "system", None)
    <2>1. new \in MessageRows
      BY <1>0, <1>4 DEF Message, MessageRows, Transactions
    <2>2. messages' = [messages EXCEPT ![nextId] = new] /\ nextId' = nextId + 1
      BY <1>4 DEF InsertNote
    <2> QED
      BY <1>0, <1>4, <2>1, <2>2 DEF Inserted
  <1>5. CASE CommitPost(w)
    <2>1. messages' = Publish({t.id, t.note}) /\ t.op \in {"send", "poll"}
      BY <1>5 DEF CommitPost
    <2> QED
      BY <1>0, <1>5, <2>1, PublishedRows DEF Published, Own
  <1>6. CASE CommitVote(w) \/ CommitAdd(w) \/ CommitRemove(w)
    <2>1. messages' = Publish({t.note})
      BY <1>6 DEF CommitVote, CommitAdd, CommitRemove
    <2> QED
      BY <1>0, <1>6, <2>1, PublishedRows DEF Published, Own
  <1>7. CASE CommitEdit(w)
    <2> DEFINE new == [messages[m] EXCEPT !.version = t.version + 1]
    <2>1. messages'[m] = IF m = t.id THEN new ELSE messages[m]
      BY <1>0, <1>7 DEF CommitEdit
    <2>2. m = t.id => messages[m].version = t.version
      BY <1>7 DEF CommitEdit, Unchanged
    <2>3. t.version + 1 \in Nat
      BY <1>0 DEF Transactions
    <2>4. m = t.id => messages'[m] \in MessageRows /\ Revised(w, m)
      <3> SUFFICES ASSUME m = t.id PROVE messages'[m] \in MessageRows /\ Revised(w, m)
        OBVIOUS
      <3> DEFINE n == t.version + 1
                 e == [messages[m] EXCEPT !.version = n]
      <3>1. ~CommitRecall(w)
        BY <1>7 DEF CommitEdit, CommitRecall
      <3>2. messages'[m] = e /\ n \in Nat /\ n = messages[m].version + 1
        BY <2>1, <2>2, <2>3
      <3> HIDE DEF n
      <3>3. /\ e \in MessageRows /\ e.version = n /\ e.deleted = messages[m].deleted
            /\ e.state = messages[m].state /\ e.sender = messages[m].sender
            /\ e.kind = messages[m].kind /\ e.cid = messages[m].cid
        BY <1>0, <3>2 DEF MessageRows
      <3> QED
        BY <1>7, <3>1, <3>2, <3>3 DEF Revised
    <2> QED
      BY <1>0, <2>1, <2>4
  <1>8. CASE CommitRecall(w)
    <2> DEFINE new == [[messages[m] EXCEPT !.version = t.version + 1] EXCEPT !.deleted = TRUE]
    <2>1. messages'[m] = IF m = t.id THEN new ELSE messages[m]
      BY <1>0, <1>8 DEF CommitRecall
    <2>2. m = t.id => messages[m].version = t.version
      BY <1>8 DEF CommitRecall, Unchanged
    <2>3. t.version + 1 \in Nat
      BY <1>0 DEF Transactions
    <2>4. m = t.id => messages'[m] \in MessageRows /\ Revised(w, m)
      <3> SUFFICES ASSUME m = t.id PROVE messages'[m] \in MessageRows /\ Revised(w, m)
        OBVIOUS
      <3> DEFINE n == t.version + 1
                 e == [[messages[m] EXCEPT !.version = n] EXCEPT !.deleted = TRUE]
      <3>1. ~CommitEdit(w)
        BY <1>8 DEF CommitEdit, CommitRecall
      <3>2. messages'[m] = e /\ n \in Nat /\ n = messages[m].version + 1
        BY <2>1, <2>2, <2>3
      <3> HIDE DEF n
      <3>3. /\ e \in MessageRows /\ e.version = n /\ e.deleted = TRUE
            /\ e.state = messages[m].state /\ e.sender = messages[m].sender
            /\ e.kind = messages[m].kind /\ e.cid = messages[m].cid
        BY <1>0, <3>2 DEF MessageRows
      <3> QED
        BY <1>8, <3>1, <3>2, <3>3 DEF Revised
    <2> QED
      BY <1>0, <2>1, <2>4
  <1>9. CASE Begin(w)
    <2> PICK r : Enter(w, r)
      BY <1>9, Begins
    <2> QED
      BY <1>1 DEF Enter, rows
  <1> QED
    BY <1>1, <1>2, <1>3, <1>4, <1>5, <1>6, <1>7, <1>8, <1>9
    DEF Work, LockConversation, LockRow, DeleteMember, Recount, CommitHide, CommitRead, CommitDeliver, rows

LEMMA TypeNext ==
    ASSUME TypeOK, TransactionsOK, NEW w \in Workers, OwnOK(w), Begin(w) \/ Work(w) \/ Rollback(w)
    PROVE  TypeOK'
  <1>0. /\ scenario.ids \in Nat /\ Ids \subseteq Nat \ {0}
        /\ messages \in [Ids -> MessageRows]
        /\ scenario \in Scenarios /\ nextId \in 1 .. scenario.ids + 1
        /\ members \in [Users -> MemberRows]
        /\ receipts \in [Ids -> [Users -> {"none", "sent", "delivered", "read"}]]
        /\ hidden \subseteq Ids \X Users
        /\ changes \in [Ids -> Nat]
        /\ convLock \in Workers \cup {None}
        /\ rowLock \in [Users -> Workers \cup {None}]
        /\ tx \in [Workers -> Transactions]
    BY IdsAreNumbers DEF TypeOK
  <1>s. UNCHANGED scenario => Ids' = Ids
    BY DEF Ids
  <1>m. \A m \in Ids : messages'[m] \in MessageRows
    BY MessagesNext
  <1>1. CASE Begin(w)
    <2> PICK r : Beginning(w, r) /\ Enter(w, r)
      BY <1>1, Begins
    <2>1. tx' \in [Workers -> Transactions]
      BY <1>0 DEF Beginning, Enter
    <2>2. convLock' \in Workers \cup {None} /\ rowLock' \in [Users -> Workers \cup {None}]
      BY <1>0 DEF Beginning, locks
    <2> QED
      BY <1>0, <1>s, <2>1, <2>2 DEF TypeOK, Enter, rows
  <1>2. CASE Rollback(w)
    <2>1. messages' \in [Ids -> MessageRows]
      BY <1>0, <1>2, <1>m DEF Rollback
    <2> QED
      BY <1>0, <1>s, <1>2, <2>1, EndTypes DEF TypeOK, Rollback, Ended
  <1>3. CASE LockConversation(w)
    <2>1. tx' \in [Workers -> Transactions]
      BY <1>3, Moves DEF Moved
    <2> QED
      BY <1>0, <1>s, <1>3, <2>1 DEF TypeOK, LockConversation, rows
  <1>4. ASSUME NEW u \in Users, LockRow(w, u) PROVE TypeOK'
    BY <1>0, <1>s, <1>4 DEF TypeOK, LockRow, rows
  <1>5. CASE Insert(w)
    <2>1. tx' \in [Workers -> Transactions]
      BY <1>5, Moves DEF Moved
    <2>2. messages' \in [Ids -> MessageRows]
      BY <1>0, <1>m, <1>5 DEF Insert
    <2>3. nextId' \in 1 .. scenario.ids + 1
      BY <1>0, <1>5 DEF Insert, Ids
    <2>4. rowLock' \in [Users -> Workers \cup {None}]
      BY <1>0, <1>5 DEF Insert
    <2> QED
      BY <1>0, <1>s, <1>5, <2>1, <2>2, <2>3, <2>4 DEF TypeOK, Insert
  <1>6. CASE InsertNote(w)
    <2>1. tx' \in [Workers -> Transactions]
      BY <1>6, Moves DEF Moved
    <2>2. messages' \in [Ids -> MessageRows]
      BY <1>0, <1>m, <1>6 DEF InsertNote
    <2>3. nextId' \in 1 .. scenario.ids + 1
      BY <1>0, <1>6 DEF InsertNote, Ids
    <2> QED
      BY <1>0, <1>s, <1>6, <2>1, <2>2, <2>3 DEF TypeOK, InsertNote, locks
  <1>7. CASE DeleteMember(w)
    <2>1. tx' \in [Workers -> Transactions]
      BY <1>7, Moves DEF Moved
    <2> QED
      BY <1>0, <1>s, <1>7, <2>1 DEF TypeOK, DeleteMember, locks, rows
  <1>8. CASE Recount(w)
    <2>1. tx' \in [Workers -> Transactions]
      BY <1>8, RecountMoves DEF Moved
    <2> QED
      BY <1>0, <1>s, <1>8, <2>1 DEF TypeOK, Recount, locks, rows
  <1>9. CASE CommitPost(w)
    <2>1. messages' \in [Ids -> MessageRows]
      BY <1>9, PublishedRows DEF CommitPost
    <2>2. members' \in [Users -> MemberRows]
      <3>1. \A u \in Users : members'[u] \in MemberRows
        BY <1>9, MembersNext
      <3> QED
        BY <1>9, <3>1 DEF CommitPost
    <2>3. receipts' \in [Ids -> [Users -> {"none", "sent", "delivered", "read"}]]
      BY <1>0, <1>9 DEF CommitPost
    <2> QED
      BY <1>0, <1>9, <2>1, <2>2, <2>3, EndTypes, Finishes DEF TypeOK, CommitPost
  <1>10. CASE CommitVote(w)
    <2>1. messages' \in [Ids -> MessageRows]
      BY <1>10, PublishedRows DEF CommitVote
    <2> QED
      BY <1>0, <1>10, <2>1, EndTypes, Finishes DEF TypeOK, CommitVote
  <1>11. CASE CommitAdd(w)
    <2>1. messages' \in [Ids -> MessageRows]
      BY <1>11, PublishedRows DEF CommitAdd
    <2>2. members' \in [Users -> MemberRows]
      <3>1. \A u \in Users : members'[u] \in MemberRows
        BY <1>11, MembersNext
      <3> QED
        BY <1>0, <1>11, <3>1 DEF CommitAdd
    <2> QED
      BY <1>0, <1>11, <2>1, <2>2, EndTypes, Finishes DEF TypeOK, CommitAdd
  <1>12. CASE CommitRemove(w)
    <2>1. messages' \in [Ids -> MessageRows]
      BY <1>12, PublishedRows DEF CommitRemove
    <2>2. members' \in [Users -> MemberRows]
      BY <1>0, <1>12, RecordTypes DEF CommitRemove
    <2> QED
      BY <1>0, <1>12, <2>1, <2>2, EndTypes, Finishes DEF TypeOK, CommitRemove
  <1>13. CASE CommitEdit(w)
    <2>1. messages' \in [Ids -> MessageRows]
      BY <1>0, <1>m, <1>13 DEF CommitEdit
    <2>2. changes' \in [Ids -> Nat]
      <3>1. tx[w].id \in Ids
        BY <1>13 DEF CommitEdit, OwnOK
      <3> QED
        BY <1>0, <1>13, <3>1 DEF CommitEdit
    <2> QED
      BY <1>0, <1>13, <2>1, <2>2, EndTypes, Finishes DEF TypeOK, CommitEdit
  <1>14. CASE CommitRecall(w)
    <2>1. messages' \in [Ids -> MessageRows]
      BY <1>0, <1>m, <1>14 DEF CommitRecall
    <2>2. members' \in [Users -> MemberRows]
      <3>1. \A u \in Users : members'[u] \in MemberRows
        BY <1>14, MembersNext
      <3> QED
        BY <1>14, <3>1 DEF CommitRecall
    <2>3. changes' \in [Ids -> Nat]
      <3>1. tx[w].id \in Ids
        BY <1>14 DEF CommitRecall, OwnOK
      <3> QED
        BY <1>0, <1>14, <3>1 DEF CommitRecall
    <2> QED
      BY <1>0, <1>14, <2>1, <2>2, <2>3, EndTypes, Finishes DEF TypeOK, CommitRecall
  <1>15. CASE CommitHide(w)
    <2>0. tx[w].user \in Users /\ tx[w].id \in Ids
      BY <1>15 DEF CommitHide, TransactionsOK, TransactionOK, OwnOK
    <2>2. members' \in [Users -> MemberRows]
      <3>1. \A u \in Users : members'[u] \in MemberRows
        BY <1>15, MembersNext
      <3> QED
        BY <1>0, <1>15, <3>1 DEF CommitHide
    <2>3. hidden' \subseteq Ids \X Users
      BY <1>0, <1>15, <2>0 DEF CommitHide
    <2> QED
      BY <1>0, <1>15, <2>2, <2>3, EndTypes, Finishes DEF TypeOK, CommitHide
  <1>16. CASE CommitRead(w) \/ CommitDeliver(w)
    <2>2. members' \in [Users -> MemberRows]
      <3>1. \A u \in Users : members'[u] \in MemberRows
        BY <1>16, MembersNext
      <3> QED
        BY <1>0, <1>16, <3>1 DEF CommitRead, CommitDeliver
    <2>3. receipts' \in [Ids -> [Users -> {"none", "sent", "delivered", "read"}]]
      <3>1. \A u, after, through, stage : stage \in {"delivered", "read"} =>
              Reached(u, after, through, stage) \in [Ids -> [Users -> {"none", "sent", "delivered", "read"}]]
        BY <1>0 DEF Reached
      <3> QED
        BY <1>16, <3>1 DEF CommitRead, CommitDeliver
    <2> QED
      BY <1>0, <1>16, <2>2, <2>3, EndTypes, Finishes DEF TypeOK, CommitRead, CommitDeliver
  <1> QED
    BY <1>1, <1>2, <1>3, <1>4, <1>5, <1>6, <1>7, <1>8, <1>9, <1>10, <1>11, <1>12, <1>13, <1>14, <1>15, <1>16 DEF Work

-----------------------------------------------------------------------------
(* Locks.                                                                    *)

\* A step of w takes free locks and gives back its own.
LEMMA Others ==
    ASSUME TypeOK, TransactionsOK, NEW w \in Workers, Begin(w) \/ Work(w) \/ Rollback(w),
           NEW v \in Workers, v # w
    PROVE  /\ tx'[v] = tx[v]
           /\ convLock' = v <=> convLock = v
           /\ \A u \in Users : rowLock'[u] = v <=> rowLock[u] = v
  <1>0. /\ rowLock \in [Users -> Workers \cup {None}] /\ None \notin Workers
        /\ tx \in [Workers -> Transactions]
    BY StoreAssumption DEF TypeOK
  <1>1. CASE Begin(w)
    <2> PICK r : Beginning(w, r) /\ Enter(w, r)
      BY <1>1, Begins
    <2> QED
      BY <1>0 DEF Beginning, Enter, locks
  <1>2. CASE Ended(w)
    BY <1>0, <1>2 DEF Ended, Released
  <1>3. CASE LockConversation(w)
    BY <1>0, <1>3 DEF LockConversation
  <1>4. ASSUME NEW u \in Users, LockRow(w, u)
        PROVE  /\ tx'[v] = tx[v]
               /\ convLock' = v <=> convLock = v
               /\ \A x \in Users : rowLock'[x] = v <=> rowLock[x] = v
    BY <1>0, <1>4 DEF LockRow
  <1>5. CASE Insert(w)
    <2>1. \/ rowLock' = rowLock
          \/ /\ rowLock[tx[w].user] = None
             /\ rowLock' = [rowLock EXCEPT ![tx[w].user] = w]
      BY <1>5 DEF Insert
    <2>2. \A u \in Users : rowLock'[u] = v <=> rowLock[u] = v
      BY <1>0, <2>1
    <2> QED
      BY <1>0, <1>5, <2>2 DEF Insert
  <1>6. CASE InsertNote(w) \/ DeleteMember(w) \/ Recount(w)
    BY <1>0, <1>6 DEF InsertNote, DeleteMember, Recount, locks
  <1> QED
    BY <1>1, <1>2, <1>3, <1>4, <1>5, <1>6, Finishes
    DEF Work, Rollback, Ended, CommitPost, CommitVote, CommitAdd, CommitRemove,
        CommitEdit, CommitRecall, CommitHide, CommitRead, CommitDeliver

LEMMA LocksInit == Init => LocksOK /\ TransactionsOK
  <1> SUFFICES ASSUME Init PROVE LocksOK /\ TransactionsOK
    OBVIOUS
  <1>1. \A w \in Workers : tx[w] = Idle
    BY DEF Init
  <1>2. \A u \in Users : rowLock[u] = None
    BY DEF Init
  <1> QED
    BY <1>1, <1>2, StoreAssumption DEF LocksOK, LockOK, TransactionsOK, TransactionOK, Idle

LEMMA LocksNext ==
    ASSUME TypeOK, TransactionsOK, LocksOK, NEW w \in Workers, Begin(w) \/ Work(w) \/ Rollback(w)
    PROVE  LocksOK'
  <1>0. /\ rowLock \in [Users -> Workers \cup {None}] /\ None \notin Workers
        /\ tx \in [Workers -> Transactions] /\ TransactionOK(tx[w]) /\ LockOK(w)
        /\ TransactionOK(tx'[w])
    BY TransactionsNext, StoreAssumption DEF TypeOK, TransactionsOK, LocksOK
  <1>1. ASSUME NEW v \in Workers, v # w PROVE LockOK(v)'
    <2>1. LockOK(v)
      BY DEF LocksOK
    <2> QED
      BY <1>1, <2>1, <1>0, Others DEF LockOK, TransactionsOK, TransactionOK
  <1>2. LockOK(w)'
    <2>1. CASE Begin(w)
      <3> PICK r : Beginning(w, r) /\ Enter(w, r)
        BY <2>1, Begins
      <3>1. tx'[w] = r /\ tx[w] = Idle
        BY <1>0 DEF Enter
      <3>2. \A u \in Users : rowLock[u] # w
        BY <1>0, <3>1 DEF LockOK, Idle
      <3> QED
        BY <1>0, <3>1, <3>2 DEF Beginning, TransactionOK, LockOK, locks
    <2>2. CASE Ended(w)
      <3>1. tx'[w] = Idle /\ \A u \in Users : rowLock'[u] # w
        BY <1>0, <2>2 DEF Ended, Released
      <3> QED
        BY <3>1 DEF LockOK, Idle
    <2>3. CASE LockConversation(w)
      <3>1. Moved(w, IF tx[w].op = "send" THEN "insert" ELSE "rows", tx[w].id, tx[w].note, tx[w].count)
        BY <2>3, Moves
      <3> QED
        BY <1>0, <2>3, <3>1 DEF LockConversation, LockOK, TransactionOK, Moved, Changed
    <2>4. ASSUME NEW u \in Users, LockRow(w, u) PROVE LockOK(w)'
      <3>1. tx'[w] = tx[w] /\ convLock' = convLock /\ rowLock' = [rowLock EXCEPT ![u] = w]
        BY <2>4 DEF LockRow
      <3>2. tx[w].pc = "rows" /\ (tx[w].op \in {"read", "deliver"} => u = tx[w].user)
        BY <2>4 DEF LockRow, Wanted
      <3> QED
        BY <1>0, <3>1, <3>2 DEF LockOK, TransactionOK
    <2>5. CASE Insert(w)
      <3>1. Moved(w, "rows", nextId, tx[w].note, tx[w].count)
        BY <2>5, Moves
      <3>2. tx[w].op \in {"send", "poll"} /\ convLock' = convLock /\ tx[w].user \in Users
            /\ rowLock' = IF tx[w].op = "send" THEN [rowLock EXCEPT ![tx[w].user] = w] ELSE rowLock
        BY <1>0, <2>5 DEF Insert, TransactionOK
      <3>3. convLock = w
        BY <1>0, <2>5, <3>2 DEF Insert, LockOK
      <3> QED
        BY <1>0, <3>1, <3>2, <3>3 DEF LockOK, Moved, Changed
    <2>6. CASE InsertNote(w)
      <3>1. Moved(w, IF tx[w].op = "poll" THEN "insert" ELSE "commit", tx[w].id, nextId, tx[w].count)
        BY <2>6, Moves
      <3> QED
        BY <1>0, <2>6, <3>1 DEF InsertNote, LockOK, TransactionOK, Moved, Changed, locks
    <2>7. CASE DeleteMember(w)
      <3>1. Moved(w, "note", tx[w].id, tx[w].note, tx[w].count)
        BY <2>7, Moves
      <3>2. rowLock[tx[w].other] = w
        BY <2>7 DEF DeleteMember, HasRows, Wanted
      <3> QED
        BY <1>0, <2>7, <3>1, <3>2 DEF DeleteMember, LockOK, TransactionOK, Moved, Changed, locks
    <2>8. CASE Recount(w)
      <3>1. Moved(w, "commit", Through(w), tx[w].note, Cardinality(Unseen(tx[w].user, Through(w))))
        BY <2>8, RecountMoves
      <3> QED
        BY <1>0, <2>8, <3>1 DEF Recount, LockOK, TransactionOK, Moved, Changed, locks
    <2> QED
      BY <2>1, <2>2, <2>3, <2>4, <2>5, <2>6, <2>7, <2>8, Finishes
      DEF Work, Rollback, Ended, CommitPost, CommitVote, CommitAdd, CommitRemove,
          CommitEdit, CommitRecall, CommitHide, CommitRead, CommitDeliver
  <1> QED
    BY <1>1, <1>2 DEF LocksOK

\* A transaction that waits for a row waits for one that only moves a cursor, and that
\* waits for nobody; all who wait for the conversation wait for one transaction.
LEMMA LocksPreventDeadlock == TypeOK /\ TransactionsOK /\ LocksOK => NoDeadlock
  <1> SUFFICES ASSUME TypeOK, TransactionsOK, LocksOK,
                      NEW S \in (SUBSET Workers) \ {{}},
                      \A w \in S : Blockers(w) \cap S # {}
               PROVE  FALSE
    BY DEF NoDeadlock
  <1>1. ASSUME NEW w \in S, tx[w].op \in {"read", "deliver"} PROVE FALSE
    <2>1. tx[w].pc \in {"rows", "commit"} /\ rowLock[tx[w].user] = w
      BY <1>1 DEF TypeOK, Transactions, TransactionsOK, TransactionOK, LocksOK, LockOK
    <2>2. Blockers(w) = {}
      BY <1>1, <2>1 DEF Blockers, Wanted
    <2> QED
      BY <2>2
  <1>2. ASSUME NEW w \in S, tx[w].pc # "lock" PROVE convLock = w
    <2>1. tx[w].op \notin {"read", "deliver"}
      BY <1>1
    <2>2. tx[w].pc \in {"insert", "rows"}
      BY <1>2 DEF Blockers
    <2>3. tx[w].op # "vote"
      BY <2>2 DEF TransactionsOK, TransactionOK
    <2> QED
      BY <2>1, <2>2, <2>3 DEF LocksOK, LockOK
  <1>3. convLock \in S
    <2> PICK w \in S : TRUE
      OBVIOUS
    <2>1. CASE tx[w].pc = "lock"
      BY <2>1 DEF Blockers
    <2>2. CASE tx[w].pc # "lock"
      BY <2>2, <1>2
    <2> QED
      BY <2>1, <2>2
  <1> DEFINE w == convLock
  <1>4. tx[w].pc # "lock"
    <2>1. CASE tx[w].pc = "lock"
      <3>1. Blockers(w) = {}
        BY <2>1 DEF Blockers
      <3> QED
        BY <1>3, <3>1
    <2> QED
      BY <2>1
  <1>5. tx[w].pc \in {"insert", "rows"}
    BY <1>3, <1>4 DEF Blockers
  <1>6. PICK b \in Blockers(w) \cap S : TRUE
    BY <1>3
  <1>7. b # w /\ \E u \in Users : rowLock[u] = b
    <2>1. tx[w].user \in Users /\ Wanted(w) \subseteq Users
      <3>1. TransactionOK(tx[w])
        BY <1>3 DEF TransactionsOK
      <3> QED
        BY <1>3, <1>5, <3>1 DEF TransactionOK, Wanted, Members
    <2> QED
      BY <1>4, <1>5, <1>6, <2>1 DEF Blockers
  <1>8. tx[b].op \in {"read", "deliver"}
    BY <1>6, <1>7 DEF LocksOK, LockOK
  <1> QED
    BY <1>1, <1>6, <1>8

-----------------------------------------------------------------------------
(* Messages.                                                                 *)

LEMMA SameScenario ==
    ASSUME TypeOK, NEW w \in Workers, Begin(w) \/ Work(w) \/ Rollback(w)
    PROVE  scenario' = scenario
  BY Begins DEF Work, Rollback, Enter, LockConversation, LockRow, Insert, InsertNote, DeleteMember,
     Recount, Finished, CommitPost, CommitVote, CommitAdd, CommitRemove, CommitEdit, CommitRecall,
     CommitHide, CommitRead, CommitDeliver

\* What a transaction has inserted is pending, and has an id that was drawn.
LEMMA OwnIsPending ==
    ASSUME Basis, NEW w \in Workers, NEW m \in Own(w)
    PROVE  /\ m \in Ids /\ messages[m].state = "pending" /\ ~Stored(m) /\ m < nextId
           /\ messages[m].version = 1 /\ ~messages[m].deleted /\ messages[m].sender = tx[w].user
           /\ \/ m = tx[w].note /\ messages[m].kind = "system" /\ messages[m].cid = None
              \/ /\ m = tx[w].id /\ tx[w].op \in {"send", "poll"}
                 /\ messages[m].kind # "system" /\ messages[m].cid = tx[w].cid
  <1>0. OwnOK(w) /\ scenario.ids \in Nat /\ Ids \subseteq Nat \ {0} /\ nextId \in Nat
    BY IdsAreNumbers DEF Basis, OwnsOK, TypeOK
  <1>1. /\ m \in Ids /\ messages[m].state = "pending"
        /\ messages[m].version = 1 /\ ~messages[m].deleted /\ messages[m].sender = tx[w].user
        /\ \/ m = tx[w].note /\ messages[m].kind = "system" /\ messages[m].cid = None
           \/ /\ m = tx[w].id /\ tx[w].op \in {"send", "poll"}
              /\ messages[m].kind # "system" /\ messages[m].cid = tx[w].cid
    BY <1>0 DEF Own, OwnOK, Message
  <1>2. messages[m] # NoMessage
    BY <1>1 DEF NoMessage
  <1> QED
    BY <1>0, <1>1, <1>2 DEF Basis, RowsOK, Stored

\* What is stored stays stored; only its version and the mark of a recall change.
LEMMA StoredStays ==
    ASSUME Basis, NEW w \in Workers, Begin(w) \/ Work(w) \/ Rollback(w), NEW m \in Ids, Stored(m)
    PROVE  /\ messages'[m] = messages[m] \/ Revised(w, m)
           /\ Stored(m)' /\ messages'[m].kind = messages[m].kind
           /\ messages'[m].sender = messages[m].sender /\ messages'[m].cid = messages[m].cid
  <1>1. messages[m].state = "stored" /\ messages[m] # NoMessage
    BY DEF Stored, NoMessage
  <1>2. ~Inserted(w, m)
    <2>1. m = nextId => messages[m] = NoMessage
      BY IdsAreNumbers DEF Basis, TypeOK, RowsOK
    <2> QED
      BY <1>1, <2>1 DEF Inserted
  <1>3. ~Undone(w, m)
    BY <1>1 DEF Undone
  <1>4. ~Published(w, m)
    BY OwnIsPending DEF Published
  <1>5. messages'[m] = messages[m] \/ Revised(w, m)
    BY <1>2, <1>3, <1>4, MessagesNext DEF Basis
  <1> QED
    BY <1>1, <1>5 DEF Revised, Stored

\* What is stored by a step is what its transaction had inserted.
LEMMA StoredBefore ==
    ASSUME Basis, NEW w \in Workers, Begin(w) \/ Work(w) \/ Rollback(w), NEW m \in Ids,
           ~Stored(m), Stored(m)'
    PROVE  Published(w, m)
  <1>1. ~Inserted(w, m) /\ ~Undone(w, m)
    BY DEF Inserted, Undone, Stored, Message, NoMessage
  <1>2. messages'[m] # messages[m]
    BY DEF Stored
  <1>3. ~Revised(w, m)
    BY DEF Revised, Stored
  <1> QED
    BY <1>1, <1>2, <1>3, MessagesNext DEF Basis

\* Nobody touches what another transaction has inserted.
LEMMA OthersStay ==
    ASSUME Basis, NEW w \in Workers, Begin(w) \/ Work(w) \/ Rollback(w),
           NEW v \in Workers, v # w, NEW m \in Own(v)
    PROVE  messages'[m] = messages[m]
  <1>0. m \in Ids /\ messages[m].state = "pending" /\ ~Stored(m) /\ m < nextId /\ m # 0
    BY OwnIsPending, IdsAreNumbers DEF Basis, TypeOK
  <1>1. m \notin Own(w)
    BY DEF Basis, OwnsOK
  <1>2. ~Inserted(w, m)
    BY <1>0, IdsAreNumbers DEF Inserted, Basis, TypeOK
  <1>3. ~Published(w, m)
    BY <1>1 DEF Published
  <1>4. OwnOK(w) /\ TransactionOK(tx[w]) /\ tx[w].op \in Kinds \cup {"none"}
    BY DEF Basis, OwnsOK, TransactionsOK, TypeOK, Transactions
  <1>5. ~Undone(w, m)
    <2> SUFFICES ASSUME m \in {tx[w].id, tx[w].note} PROVE FALSE
      BY DEF Undone
    <2>1. m = tx[w].id /\ tx[w].op \notin {"send", "poll"}
      BY <1>0, <1>1 DEF Own
    <2> QED
      BY <1>0, <1>4, <2>1 DEF OwnOK, TransactionOK, Kinds
  <1>6. ~Revised(w, m)
    <2>1. CommitEdit(w) \/ CommitRecall(w) => tx[w].op \in {"edit", "recall"}
      BY DEF CommitEdit, CommitRecall
    <2> QED
      BY <1>0, <1>4, <2>1 DEF Revised, OwnOK
  <1> QED
    BY <1>0, <1>2, <1>3, <1>5, <1>6, MessagesNext DEF Basis

LEMMA RowsInit == Init => OwnsOK /\ RowsOK
  <1> SUFFICES ASSUME Init PROVE OwnsOK /\ RowsOK
    OBVIOUS
  <1>1. \A w \in Workers : tx[w] = Idle
    BY DEF Init
  <1>2. \A m \in Ids : messages[m] = NoMessage /\ ~Stored(m) /\ changes[m] = 0
    BY DEF Init, Stored, NoMessage
  <1>3. \A u \in Users : members[u].read = 0
    BY DEF Init, NewMember, NoMember
  <1>4. OwnsOK
    BY <1>1 DEF OwnsOK, OwnOK, Own, Idle
  <1>5. RowsOK
    BY <1>2, <1>3 DEF RowsOK, Init
  <1> QED
    BY <1>4, <1>5

\* The ids of a transaction are those that it had and the one that it draws.
LEMMA OwnNext ==
    ASSUME Basis, NEW w \in Workers, Begin(w) \/ Work(w) \/ Rollback(w)
    PROVE  /\ Own(w)' \subseteq Own(w) \cup (IF Insert(w) \/ InsertNote(w) THEN {nextId} ELSE {})
           /\ OwnOK(w)'
  <1>0. /\ TypeOK /\ TransactionsOK /\ TransactionOK(tx[w]) /\ OwnOK(w)
        /\ tx \in [Workers -> Transactions] /\ scenario \in Scenarios
        /\ nextId \in Nat \ {0} /\ messages \in [Ids -> MessageRows]
    BY IdsAreNumbers DEF Basis, TransactionsOK, OwnsOK, TypeOK
  <1>i. UNCHANGED scenario => Ids' = Ids
    BY DEF Ids
  <1> DEFINE Goal == /\ Own(w)' \subseteq Own(w) \cup (IF Insert(w) \/ InsertNote(w) THEN {nextId} ELSE {})
                     /\ OwnOK(w)'
  <1>1. CASE Begin(w)
    <2> PICK r : Beginning(w, r) /\ Enter(w, r)
      BY <1>0, <1>1, Begins
    <2>1. tx'[w] = r /\ messages' = messages /\ Ids' = Ids
      BY <1>0, <1>i DEF Enter, rows
    <2>2. Own(w)' = {}
      BY <2>1 DEF Beginning, Own
    <2>3. OwnOK(w)'
      BY <2>1 DEF Beginning, OwnOK, Stored
    <2> QED
      BY <2>2, <2>3
  <1>2. CASE tx' = [tx EXCEPT ![w] = Idle]
    <2>1. tx'[w] = Idle
      BY <1>0, <1>2
    <2> QED
      BY <2>1 DEF Own, OwnOK, Idle
  <1>3. CASE LockConversation(w) \/ DeleteMember(w)
    <2>1. \E pc : Moved(w, pc, tx[w].id, tx[w].note, tx[w].count)
      BY <1>0, <1>3, Moves
    <2>2. messages' = messages /\ Ids' = Ids
      BY <1>3, <1>i DEF LockConversation, DeleteMember, rows
    <2> QED
      BY <1>0, <2>1, <2>2 DEF Moved, Changed, Own, OwnOK, Stored
  <1>4. ASSUME NEW u \in Users, LockRow(w, u) PROVE Goal
    <2>1. tx' = tx /\ messages' = messages /\ Ids' = Ids
      BY <1>4, <1>i DEF LockRow, rows
    <2> QED
      BY <1>0, <2>1 DEF Own, OwnOK, Stored
  <1>5. CASE Insert(w)
    <2>1. Moved(w, "rows", nextId, tx[w].note, tx[w].count)
      BY <1>0, <1>5, Moves
    <2>2. nextId \in Ids /\ Ids' = Ids /\ tx[w].op \in {"send", "poll"}
          /\ messages' = [messages EXCEPT ![nextId] =
                            Message(tx[w].user, IF tx[w].op = "poll" THEN "poll" ELSE "text", tx[w].cid)]
      BY <1>0, <1>5, <1>i DEF Insert, TransactionOK
    <2>3. tx[w].note # 0 => tx[w].note # nextId
      BY <1>0, OwnIsPending DEF Own
    <2>4. Own(w)' \subseteq Own(w) \cup {nextId}
      BY <2>1 DEF Own, Moved, Changed
    <2>5. OwnOK(w)'
      BY <1>0, <2>1, <2>2, <2>3 DEF Moved, Changed, OwnOK
    <2> QED
      BY <1>5, <2>4, <2>5
  <1>6. CASE InsertNote(w)
    <2>1. Moved(w, IF tx[w].op = "poll" THEN "insert" ELSE "commit", tx[w].id, nextId, tx[w].count)
      BY <1>0, <1>6, Moves
    <2>2. nextId \in Ids /\ Ids' = Ids /\ tx[w].op \in {"poll", "vote", "add", "remove"} /\ tx[w].id = 0
          /\ messages' = [messages EXCEPT ![nextId] = Message(tx[w].user, "system", None)]
      BY <1>0, <1>6, <1>i DEF InsertNote, TransactionOK
    <2>4. Own(w)' \subseteq Own(w) \cup {nextId}
      BY <2>1 DEF Own, Moved, Changed
    <2>5. OwnOK(w)'
      BY <1>0, <2>1, <2>2 DEF Moved, Changed, OwnOK
    <2> QED
      BY <1>6, <2>4, <2>5
  <1>7. CASE Recount(w)
    <2>1. Moved(w, "commit", Through(w), tx[w].note, Cardinality(Unseen(tx[w].user, Through(w))))
      BY <1>0, <1>7, RecountMoves
    <2>2. messages' = messages /\ Ids' = Ids /\ tx[w].op = "read"
      BY <1>7, <1>i DEF Recount, rows
    <2>3. Through(w) \in Ids /\ Stored(Through(w))
      <3>1. tx[w].user \in Users /\ tx[w].id \in Ids /\ Stored(tx[w].id)
        BY <1>0, <2>2 DEF TransactionOK, OwnOK
      <3>2. members[tx[w].user].read \in Nat /\ tx[w].id \in Nat \ {0}
        BY <3>1, <1>0, IdsAreNumbers DEF TypeOK, MemberRows
      <3> QED
        BY <3>1, <3>2 DEF Through, Larger, Basis, RowsOK
    <2> QED
      BY <1>0, <2>1, <2>2, <2>3 DEF Moved, Changed, Own, OwnOK, Stored
  <1> QED
    BY <1>1, <1>2, <1>3, <1>4, <1>5, <1>6, <1>7
    DEF Work, Rollback, Finished, CommitPost, CommitVote, CommitAdd, CommitRemove,
        CommitEdit, CommitRecall, CommitHide, CommitRead, CommitDeliver

LEMMA OwnsNext ==
    ASSUME Basis, NEW w \in Workers, Begin(w) \/ Work(w) \/ Rollback(w)
    PROVE  OwnsOK'
  <1>0. TypeOK /\ TransactionsOK /\ OwnsOK
    BY DEF Basis
  <1>i. Ids' = Ids
    BY <1>0, SameScenario DEF Ids
  <1>1. ASSUME NEW v \in Workers, v # w
        PROVE  tx'[v] = tx[v] /\ Own(v)' = Own(v) /\ OwnOK(v)'
    <2>1. tx'[v] = tx[v] /\ Own(v)' = Own(v)
      BY <1>0, <1>1, Others DEF Own
    <2>2. OwnOK(v)
      BY <1>0 DEF OwnsOK
    <2>3. \A m \in Own(v) : messages'[m] = messages[m]
      BY <1>1, OthersStay
    <2>4. \A m \in Ids : Stored(m) =>
            /\ Stored(m)' /\ messages'[m].kind = messages[m].kind
            /\ messages'[m].sender = messages[m].sender
      BY StoredStays
    <2> QED
      BY <1>i, <2>1, <2>2, <2>3, <2>4 DEF OwnOK, Own
  <1>2. Own(w)' \subseteq Own(w) \cup {nextId} /\ OwnOK(w)'
    BY OwnNext
  <1>3. ASSUME NEW v \in Workers, v # w PROVE Own(v)' \cap Own(w)' = {}
    <2>1. nextId \notin Own(v)
      BY OwnIsPending, <1>0, IdsAreNumbers DEF TypeOK
    <2>2. Own(v) \cap Own(w) = {}
      BY <1>0, <1>3 DEF OwnsOK
    <2> QED
      BY <1>1, <1>2, <1>3, <2>1, <2>2
  <1>4. ASSUME NEW u \in Workers, NEW v \in Workers, u # v PROVE Own(u)' \cap Own(v)' = {}
    <2>1. CASE u = w \/ v = w
      BY <1>3, <1>4, <2>1
    <2>2. CASE u # w /\ v # w
      BY <1>0, <1>1, <1>4, <2>2 DEF OwnsOK
    <2> QED
      BY <2>1, <2>2
  <1> QED
    BY <1>1, <1>2, <1>4 DEF OwnsOK

\* What a step may do to the cursors of a member.
CursorsStay(u) ==
    /\ members'[u].role = members[u].role
    /\ members'[u].read = members[u].read
    /\ members[u].delivered <= members'[u].delivered

LEMMA CursorsNext ==
    ASSUME Basis, NEW w \in Workers, Begin(w) \/ Work(w) \/ Rollback(w), NEW u \in Users
    PROVE  \/ CursorsStay(u)
           \/ CommitAdd(w) /\ u = tx[w].other /\ members'[u] = NewMember("member", Newest)
           \/ CommitRemove(w) /\ u = tx[w].other /\ members'[u] = NoMember
           \/ /\ CommitRead(w) /\ u = tx[w].user
              /\ members'[u].role = members[u].role /\ members'[u].read = tx[w].id
              /\ members[u].delivered <= members'[u].delivered
  <1>0. TypeOK /\ TransactionsOK /\ members[u].delivered \in Nat /\ tx[w].id \in Nat
    BY DEF Basis, TypeOK, MemberRows, Transactions
  <1>1. CASE UNCHANGED members
    BY <1>0, <1>1 DEF CursorsStay
  <1>2. CASE CommitPost(w) \/ CommitRecall(w) \/ CommitHide(w)
    <2>1. /\ members'[u].role = members[u].role
          /\ members'[u].read = members[u].read
          /\ members'[u].delivered = members[u].delivered
      BY <1>0, <1>2, MembersNext DEF Altered
    <2> QED
      BY <1>0, <2>1 DEF CursorsStay
  <1>3. CASE CommitAdd(w) \/ CommitRemove(w)
    <2>1. u # tx[w].other => members'[u] = members[u]
      BY <1>0, <1>3, MembersNext
    <2>2. u # tx[w].other => CursorsStay(u)
      BY <1>0, <2>1 DEF CursorsStay
    <2> QED
      BY <1>0, <1>3, <2>2, MembersNext
  <1>l. members[u].delivered <= Larger(tx[w].id, members[u].delivered)
    BY <1>0 DEF Larger
  <1>4. CASE CommitRead(w)
    <2>1. CASE u = tx[w].user
      BY <1>0, <1>l, <1>4, <2>1, MembersNext DEF Altered
    <2>2. CASE u # tx[w].user
      <3>1. members'[u] = members[u]
        BY <1>0, <1>4, <2>2, MembersNext
      <3> QED
        BY <1>0, <3>1 DEF CursorsStay
    <2> QED
      BY <2>1, <2>2
  <1>5. CASE CommitDeliver(w)
    <2>1. CASE u = tx[w].user
      BY <1>0, <1>l, <1>5, <2>1, MembersNext DEF Altered, CursorsStay
    <2>2. CASE u # tx[w].user
      <3>1. members'[u] = members[u]
        BY <1>0, <1>5, <2>2, MembersNext
      <3> QED
        BY <1>0, <3>1 DEF CursorsStay
    <2> QED
      BY <2>1, <2>2
  <1>6. CASE Begin(w)
    BY <1>0, <1>1, <1>6, Begins DEF Enter, rows
  <1> QED
    BY <1>1, <1>2, <1>3, <1>4, <1>5, <1>6
    DEF Work, Rollback, LockConversation, LockRow, Insert, InsertNote, DeleteMember, Recount,
        CommitVote, CommitEdit, rows

LEMMA RowsNext ==
    ASSUME Basis, NEW w \in Workers, Begin(w) \/ Work(w) \/ Rollback(w)
    PROVE  RowsOK'
  <1>0. /\ TypeOK /\ TransactionsOK /\ TransactionOK(tx[w]) /\ OwnOK(w) /\ RowsOK
        /\ scenario \in Scenarios /\ nextId \in Nat /\ Ids \subseteq Nat \ {0}
    BY IdsAreNumbers DEF Basis, TransactionsOK, OwnsOK, TypeOK
  <1>i. Ids' = Ids /\ nextId' \in Nat /\ nextId' >= nextId
    <2>1. nextId' = nextId \/ nextId' = nextId + 1
      BY <1>0, Begins DEF Work, Rollback, Enter, LockConversation, LockRow, Insert, InsertNote,
        DeleteMember, Recount, Finished, CommitPost, CommitVote, CommitAdd, CommitRemove,
        CommitEdit, CommitRecall, CommitHide, CommitRead, CommitDeliver
    <2> QED
      BY <1>0, <2>1, SameScenario DEF Ids
  <1>1. ASSUME NEW m \in Ids, m >= nextId' PROVE messages'[m] = NoMessage
    <2>0. m >= nextId
      BY <1>0, <1>1, <1>i
    <2>1. messages[m] = NoMessage /\ ~Stored(m)
      <3>1. messages[m] = NoMessage
        BY <1>0, <2>0 DEF RowsOK
      <3> QED
        BY <3>1 DEF NoMessage, Stored
    <2>2. ~Inserted(w, m)
      BY <1>0, <1>1 DEF Inserted
    <2>3. ~Published(w, m)
      BY <1>0, <2>0, OwnIsPending DEF Published
    <2>4. ~Revised(w, m)
      BY <1>0, <2>1 DEF Revised, CommitEdit, CommitRecall, OwnOK
    <2> QED
      BY <1>0, <2>1, <2>2, <2>3, <2>4, MessagesNext DEF Undone
  <1>2. ASSUME NEW m \in Ids, ~Stored(m)' PROVE changes'[m] = 0
    <2>1. ~Stored(m) /\ changes[m] = 0
      BY <1>0, <1>2, StoredStays DEF RowsOK
    <2>2. m # tx[w].id \/ tx[w].op \notin {"edit", "recall"}
      BY <1>0, <2>1 DEF OwnOK
    <2>3. changes'[m] = changes[m]
      BY <1>0, <2>2, Begins DEF TypeOK, Work, Rollback, Enter, LockConversation, LockRow, Insert,
        InsertNote, DeleteMember, Recount, CommitPost, CommitVote, CommitAdd, CommitRemove,
        CommitEdit, CommitRecall, CommitHide, CommitRead, CommitDeliver, rows
    <2> QED
      BY <2>1, <2>3
  <1>3. ASSUME NEW m \in Ids, NEW u \in Users, <<m, u>> \in hidden' PROVE Stored(m)'
    <2>1. <<m, u>> \in hidden \/ (CommitHide(w) /\ m = tx[w].id)
      <3>1. CASE CommitHide(w)
        BY <1>3, <3>1 DEF CommitHide
      <3>2. ~CommitHide(w) => hidden' = hidden
        BY <1>0, Begins DEF Work, Rollback, Enter, LockConversation, LockRow, Insert,
          InsertNote, DeleteMember, Recount, CommitPost, CommitVote, CommitAdd, CommitRemove,
          CommitEdit, CommitRecall, CommitRead, CommitDeliver, rows
      <3> QED
        BY <1>3, <3>1, <3>2
    <2>2. Stored(m)
      BY <1>0, <2>1 DEF RowsOK, CommitHide, OwnOK
    <2> QED
      BY <2>2, StoredStays
  <1>4. ASSUME NEW u \in Users, members'[u].read # 0
        PROVE  members'[u].read \in Ids /\ messages'[members'[u].read].state = "stored"
    <2>1. members'[u].read \in Ids /\ Stored(members'[u].read)
      <3>1. CASE members'[u].read = members[u].read
        BY <1>0, <1>4, <3>1 DEF RowsOK
      <3>2. CASE CommitAdd(w) /\ members'[u] = NewMember("member", Newest)
        BY <1>0, <1>4, <3>2, NewestIsLargest DEF NewMember
      <3>3. CASE CommitRemove(w) /\ members'[u] = NoMember
        BY <1>4, <3>3 DEF NoMember
      <3>4. CASE CommitRead(w) /\ members'[u].read = tx[w].id
        BY <1>0, <3>4 DEF CommitRead, OwnOK
      <3> QED
        BY <3>1, <3>2, <3>3, <3>4, CursorsNext DEF CursorsStay
    <2> QED
      BY <2>1, StoredStays DEF Stored
  <1> QED
    BY <1>i, <1>1, <1>2, <1>3, <1>4 DEF RowsOK, Stored

LEMMA BasisInvariant == Spec => []Basis
  <1>1. Init => Basis
    BY TypeInit, LocksInit, RowsInit DEF Basis
  <1>2. ASSUME Basis, [Next]_vars PROVE Basis'
    <2>1. CASE UNCHANGED vars
      <3> USE DEF vars
      <3>1. Ids' = Ids /\ \A m : Stored(m)' <=> Stored(m)
        BY <2>1 DEF Ids, Stored
      <3>2. TypeOK'
        BY <1>2, <2>1, <3>1 DEF Basis, TypeOK
      <3>3. TransactionsOK' /\ LocksOK'
        BY <1>2, <2>1 DEF Basis, TransactionsOK, LocksOK, LockOK
      <3>4. \A w \in Workers : Own(w)' = Own(w) /\ OwnOK(w)'
        BY <1>2, <2>1, <3>1 DEF Basis, OwnsOK, OwnOK, Own
      <3>5. OwnsOK'
        BY <1>2, <3>4 DEF Basis, OwnsOK
      <3>6. RowsOK'
        BY <1>2, <2>1, <3>1 DEF Basis, RowsOK, Stored
      <3> QED
        BY <3>2, <3>3, <3>5, <3>6 DEF Basis
    <2>2. ASSUME NEW w \in Workers, Begin(w) \/ Work(w) \/ Rollback(w) PROVE Basis'
      <3>1. TypeOK /\ TransactionsOK /\ LocksOK /\ OwnOK(w)
        BY <1>2 DEF Basis, OwnsOK
      <3> QED
        BY <1>2, <2>2, <3>1, TypeNext, TransactionsNext, LocksNext, OwnsNext, RowsNext DEF Basis
    <2> QED
      BY <1>2, <2>1, <2>2 DEF Next
  <1> QED
    BY <1>1, <1>2, PTL DEF Spec

\* The columns keep their types in every behaviour.
THEOREM TypeCorrect == Spec => []TypeOK
  <1>1. Basis => TypeOK
    BY DEF Basis
  <1> QED
    BY <1>1, BasisInvariant, PTL

\* Transactions never wait for each other in a circle, however many there are.
THEOREM NeverDeadlocked == Spec => []NoDeadlock
  <1>1. Basis => NoDeadlock
    BY LocksPreventDeadlock DEF Basis
  <1> QED
    BY <1>1, BasisInvariant, PTL

-----------------------------------------------------------------------------
(* Versions.                                                                 *)

LEMMA ChangesNext ==
    ASSUME Basis, EachChangeHasItsVersion,
           NEW w \in Workers, Begin(w) \/ Work(w) \/ Rollback(w)
    PROVE  EachChangeHasItsVersion'
  <1>0. TypeOK /\ OwnOK(w)
    BY DEF Basis, OwnsOK
  <1>i. Ids' = Ids
    BY <1>0, SameScenario DEF Ids
  <1>1. ASSUME NEW m \in Ids, Stored(m)' PROVE messages'[m].version = 1 + changes'[m]
    <2>0. /\ messages \in [Ids -> MessageRows] /\ changes \in [Ids -> Nat]
          /\ messages[m].version \in Nat
      BY <1>0 DEF TypeOK, MessageRows
    <2>1. CASE CommitEdit(w) \/ CommitRecall(w)
      <3>1. tx[w].id \in Ids /\ Stored(tx[w].id) /\ changes' = [changes EXCEPT ![tx[w].id] = @ + 1]
            /\ messages[tx[w].id].version = tx[w].version
        BY <1>0, <2>1 DEF CommitEdit, CommitRecall, Unchanged, OwnOK
      <3>2. CASE m = tx[w].id
        <4>1. messages'[m].version = tx[w].version + 1
          BY <2>0, <2>1, <3>2 DEF CommitEdit, CommitRecall, MessageRows
        <4>2. messages[m].version = 1 + changes[m]
          BY <3>1, <3>2 DEF EachChangeHasItsVersion
        <4>3. changes'[m] = changes[m] + 1
          BY <2>0, <3>1, <3>2
        <4> QED
          BY <2>0, <3>1, <3>2, <4>1, <4>2, <4>3
      <3>3. CASE m # tx[w].id
        <4>1. messages'[m] = messages[m] /\ changes'[m] = changes[m]
          BY <2>0, <2>1, <3>1, <3>3 DEF CommitEdit, CommitRecall
        <4> QED
          BY <1>1, <4>1 DEF EachChangeHasItsVersion, Stored
      <3> QED
        BY <3>2, <3>3
    <2>2. CASE ~(CommitEdit(w) \/ CommitRecall(w))
      <3>1. changes' = changes
        BY <1>0, <2>2, Begins DEF Work, Rollback, Enter, LockConversation, LockRow, Insert,
          InsertNote, DeleteMember, Recount, CommitPost, CommitVote, CommitAdd, CommitRemove,
          CommitHide, CommitRead, CommitDeliver, rows
      <3>2. CASE Stored(m)
        <4>1. messages'[m] = messages[m]
          BY <2>2, <3>2, StoredStays DEF Revised
        <4> QED
          BY <3>1, <3>2, <4>1 DEF EachChangeHasItsVersion
      <3>3. CASE ~Stored(m)
        <4>1. Published(w, m)
          BY <1>1, <3>3, StoredBefore
        <4>2. messages'[m].version = 1
          BY <4>1, OwnIsPending DEF Published
        <4> QED
          BY <3>1, <3>3, <4>2 DEF Basis, RowsOK
      <3> QED
        BY <3>2, <3>3
    <2> QED
      BY <2>1, <2>2
  <1> QED
    BY <1>i, <1>1 DEF EachChangeHasItsVersion

\* No acknowledged edit or recall is lost.
THEOREM NoLostChange == Spec => []EachChangeHasItsVersion
  <1>1. Init => EachChangeHasItsVersion
    BY DEF Init, EachChangeHasItsVersion, Stored, NoMessage
  <1>2. ASSUME Basis, EachChangeHasItsVersion, [Next]_vars PROVE EachChangeHasItsVersion'
    <2>1. CASE UNCHANGED vars
      BY <1>2, <2>1 DEF vars, EachChangeHasItsVersion, Stored, Ids
    <2>2. CASE Next
      BY <1>2, <2>2, ChangesNext DEF Next
    <2> QED
      BY <1>2, <2>1, <2>2
  <1> QED
    BY <1>1, <1>2, BasisInvariant, PTL DEF Spec

-----------------------------------------------------------------------------
(* Client ids.                                                               *)

\* A set with no two members.
LEMMA AtMostOne ==
    ASSUME NEW S, \A a, b \in S : a = b
    PROVE  Cardinality(S) <= 1
  <1>1. CASE S = {}
    BY <1>1, FS_EmptySet
  <1>2. CASE S # {}
    <2> PICK a : S = {a}
      BY <1>2
    <2> QED
      BY FS_Singleton
  <1> QED
    BY <1>1, <1>2

\* From its insertion on, which holds the sender's row, a send is the only one of its
\* client id.
FirstOfItsId ==
    /\ \A u \in Users, c \in ClientIds : \A a, b \in SameClientId(u, c) : a = b
    /\ \A w \in Workers, u \in Users, c \in ClientIds :
         tx[w].op = "send" /\ tx[w].pc = "rows" /\ tx[w].user = u /\ tx[w].cid = c =>
           SameClientId(u, c) = {}

LEMMA SameClientIdNext ==
    ASSUME Basis, NEW w \in Workers, Begin(w) \/ Work(w) \/ Rollback(w), NEW u, NEW c \in ClientIds,
           NEW m \in SameClientId(u, c)'
    PROVE  \/ m \in SameClientId(u, c)
           \/ /\ CommitPost(w) /\ tx[w].op = "send" /\ tx[w].pc = "rows"
              /\ tx[w].user = u /\ tx[w].cid = c /\ m = tx[w].id
  <1>0. TypeOK /\ TransactionOK(tx[w]) /\ c # None
    BY StoreAssumption DEF Basis, TransactionsOK
  <1>1. m \in Ids /\ Stored(m)' /\ messages'[m].sender = u /\ messages'[m].cid = c
    BY <1>0, SameScenario DEF SameClientId, Ids
  <1>2. CASE Stored(m)
    BY <1>1, <1>2, StoredStays DEF SameClientId
  <1>3. CASE ~Stored(m)
    <2>1. Published(w, m)
      BY <1>1, <1>3, StoredBefore
    <2>2. messages[m].sender = u /\ messages[m].cid = c /\ m \in Own(w)
      BY <1>1, <2>1 DEF Published
    <2>3. m = tx[w].id /\ tx[w].op \in {"send", "poll"} /\ tx[w].cid = c /\ tx[w].user = u
      BY <1>0, <2>2, OwnIsPending
    <2>4. tx[w].op = "send"
      BY <1>0, <2>3 DEF TransactionOK
    <2> QED
      BY <2>1, <2>3, <2>4 DEF Published, CommitPost, CommitVote, CommitAdd, CommitRemove
  <1> QED
    BY <1>2, <1>3

LEMMA FirstNext ==
    ASSUME Basis, FirstOfItsId, NEW w \in Workers, Begin(w) \/ Work(w) \/ Rollback(w)
    PROVE  FirstOfItsId'
  <1>0. TypeOK /\ TransactionsOK /\ TransactionOK(tx[w]) /\ tx \in [Workers -> Transactions]
    BY DEF Basis, TransactionsOK, TypeOK
  <1>1. ASSUME NEW u \in Users, NEW c \in ClientIds,
               NEW a \in SameClientId(u, c)', NEW b \in SameClientId(u, c)'
        PROVE  a = b
    <2>1. CASE CommitPost(w) /\ tx[w].op = "send" /\ tx[w].pc = "rows" /\ tx[w].user = u /\ tx[w].cid = c
      <3>1. SameClientId(u, c) = {}
        BY <2>1 DEF FirstOfItsId
      <3> QED
        BY <3>1, SameClientIdNext
    <2>2. CASE ~(CommitPost(w) /\ tx[w].op = "send" /\ tx[w].pc = "rows" /\ tx[w].user = u /\ tx[w].cid = c)
      <3>1. a \in SameClientId(u, c) /\ b \in SameClientId(u, c)
        BY <2>2, SameClientIdNext
      <3> QED
        BY <3>1 DEF FirstOfItsId
    <2> QED
      BY <2>1, <2>2
  <1>2. ASSUME NEW v \in Workers, NEW u \in Users, NEW c \in ClientIds,
               tx'[v].op = "send", tx'[v].pc = "rows", tx'[v].user = u, tx'[v].cid = c
        PROVE  SameClientId(u, c)' = {}
    <2>1. /\ SameClientId(u, c) = {}
          /\ ~(CommitPost(w) /\ tx[w].op = "send" /\ tx[w].pc = "rows" /\ tx[w].user = u)
      <3>1. CASE v # w
        <4>1. tx'[v] = tx[v] /\ rowLock[u] = v
          BY <1>0, <1>2, <3>1, Others DEF Basis, LocksOK, LockOK
        <4>2. SameClientId(u, c) = {}
          BY <1>2, <4>1 DEF FirstOfItsId
        <4> QED
          BY <3>1, <4>1, <4>2 DEF Basis, LocksOK, LockOK
      <3>2. CASE v = w
        <4>1. tx'[w] # Idle
          BY <1>2, <3>2 DEF Idle
        <4>2. ~CommitPost(w)
          BY <1>0, <4>1 DEF CommitPost, Finished
        <4>3. CASE Insert(w)
          <5>1. Moved(w, "rows", nextId, tx[w].note, tx[w].count)
            BY <1>0, <4>3, Moves
          <5> QED
            BY <1>2, <3>2, <4>2, <4>3, <5>1 DEF Insert, Moved, Changed
        <4>4. CASE tx' = tx
          BY <1>2, <3>2, <4>2, <4>4 DEF FirstOfItsId
        <4>5. CASE Begin(w)
          <5> PICK r : Beginning(w, r) /\ Enter(w, r)
            BY <1>0, <4>5, Begins
          <5>1. tx'[w] = r
            BY <1>0 DEF Enter
          <5> QED
            BY <1>2, <3>2, <5>1 DEF Beginning
        <4>6. CASE LockConversation(w) \/ InsertNote(w) \/ DeleteMember(w) \/ Recount(w)
          <5>1. tx'[w].op = tx[w].op /\ (InsertNote(w) => tx[w].op # "send")
            BY <1>0, <4>6, Moves, RecountMoves DEF Moved, Changed, InsertNote, TransactionOK
          <5> QED
            BY <1>0, <1>2, <3>2, <4>6, <5>1, Moves
            DEF Moved, Changed, LockConversation, DeleteMember, Recount
        <4>7. CASE tx' = [tx EXCEPT ![w] = Idle]
          BY <1>0, <4>1, <4>7
        <4> QED
          BY <4>3, <4>4, <4>5, <4>6, <4>7
          DEF Work, Rollback, LockRow, Finished, CommitPost, CommitVote, CommitAdd, CommitRemove,
              CommitEdit, CommitRecall, CommitHide, CommitRead, CommitDeliver
      <3> QED
        BY <3>1, <3>2
    <2>2. \A m \in SameClientId(u, c)' : FALSE
      BY <2>1, SameClientIdNext
    <2> QED
      BY <2>2
  <1> QED
    BY <1>1, <1>2 DEF FirstOfItsId

\* Retries of a send, also concurrent ones, store the message once.
THEOREM StoredOncePerClientId == Spec => []OneMessagePerClientId
  <1>1. Init => FirstOfItsId
    BY DEF Init, FirstOfItsId, SameClientId, Stored, NoMessage, Idle
  <1>2. ASSUME Basis, FirstOfItsId, [Next]_vars PROVE FirstOfItsId'
    <2>1. CASE UNCHANGED vars
      <3>1. \A u, c : SameClientId(u, c)' = SameClientId(u, c)
        BY <2>1 DEF vars, SameClientId, Stored, Ids
      <3> QED
        BY <1>2, <2>1, <3>1 DEF vars, FirstOfItsId
    <2>2. CASE Next
      BY <1>2, <2>2, FirstNext DEF Next
    <2> QED
      BY <1>2, <2>1, <2>2
  <1>3. FirstOfItsId => OneMessagePerClientId
    BY AtMostOne DEF FirstOfItsId, OneMessagePerClientId
  <1> QED
    BY <1>1, <1>2, <1>3, BasisInvariant, PTL DEF Spec

-----------------------------------------------------------------------------
(* Cursors.                                                                  *)

\* MarkRead commits for a member whose row it has locked since it looked at his
\* cursor; whoever is about to be added is no member.
CursorsOK ==
    \A w \in Workers : LET t == tx[w] IN
      /\ t.op = "read" /\ t.pc = "commit" => IsMember(t.user) /\ members[t.user].read <= t.id
      /\ t.op = "add" /\ t.pc = "commit" => ~IsMember(t.other)

LEMMA CursorsInvariant ==
    ASSUME Basis, CursorsOK, NEW w \in Workers, Begin(w) \/ Work(w) \/ Rollback(w)
    PROVE  CursorsOK'
  <1>0. /\ TypeOK /\ TransactionsOK /\ LocksOK /\ TransactionOK(tx[w])
        /\ tx \in [Workers -> Transactions] /\ members \in [Users -> MemberRows]
    BY DEF Basis, TransactionsOK, TypeOK
  <1>1. ASSUME NEW v \in Workers, v # w
        PROVE  LET t == tx'[v] IN
               /\ t.op = "read" /\ t.pc = "commit" => members'[t.user].role # "none" /\ members'[t.user].read <= t.id
               /\ t.op = "add" /\ t.pc = "commit" => members'[t.other].role = "none"
    <2>1. tx'[v] = tx[v] /\ TransactionOK(tx[v]) /\ LockOK(v) /\ LockOK(w)
      BY <1>0, <1>1, Others DEF TransactionsOK, LocksOK
    <2>2. ASSUME tx[v].op = "read", tx[v].pc = "commit"
          PROVE  members'[tx[v].user].role # "none" /\ members'[tx[v].user].read <= tx[v].id
      <3> DEFINE u == tx[v].user
      <3>1. u \in Users /\ IsMember(u) /\ members[u].read <= tx[v].id /\ rowLock[u] = v
        BY <2>1, <2>2 DEF CursorsOK, TransactionOK, LockOK
      <3>2. ~(CommitAdd(w) /\ u = tx[w].other)
        BY <3>1 DEF CursorsOK, CommitAdd
      <3>3. ~(CommitRemove(w) /\ u = tx[w].other)
        BY <1>1, <2>1, <3>1 DEF LockOK, CommitRemove
      <3>4. ~(CommitRead(w) /\ u = tx[w].user)
        BY <1>1, <2>1, <3>1 DEF LockOK, CommitRead
      <3>5. CursorsStay(u)
        BY <3>1, <3>2, <3>3, <3>4, CursorsNext
      <3> QED
        BY <3>1, <3>5 DEF CursorsStay, IsMember
    <2>3. ASSUME tx[v].op = "add", tx[v].pc = "commit"
          PROVE  members'[tx[v].other].role = "none"
      <3> DEFINE u == tx[v].other
      <3>1. u \in Users /\ members[u].role = "none" /\ convLock = v
        BY <2>1, <2>3 DEF CursorsOK, TransactionOK, LockOK, IsMember
      <3>2. ~(CommitAdd(w) /\ u = tx[w].other)
        BY <1>1, <2>1, <3>1 DEF LockOK, CommitAdd
      <3> QED
        BY <3>1, <3>2, CursorsNext DEF CursorsStay, NoMember
    <2> QED
      BY <2>1, <2>2, <2>3
  <1>2. LET t == tx'[w] IN
        /\ t.op = "read" /\ t.pc = "commit" => members'[t.user].role # "none" /\ members'[t.user].read <= t.id
        /\ t.op = "add" /\ t.pc = "commit" => members'[t.other].role = "none"
    <2>1. CASE Begin(w)
      <3> PICK r : Beginning(w, r) /\ Enter(w, r)
        BY <1>0, <2>1, Begins
      <3>1. tx'[w] = r
        BY <1>0 DEF Enter
      <3> QED
        BY <3>1 DEF Beginning
    <2>2. CASE tx' = [tx EXCEPT ![w] = Idle]
      <3>1. tx'[w] = Idle
        BY <1>0, <2>2
      <3> QED
        BY <3>1 DEF Idle
    <2>3. CASE LockConversation(w) \/ DeleteMember(w) \/ Insert(w)
      <3>1. tx'[w].pc # "commit"
        BY <1>0, <2>3, Moves DEF Moved, Changed
      <3> QED
        BY <3>1
    <2>4. ASSUME NEW u \in Users, LockRow(w, u) PROVE tx'[w].pc # "commit"
      BY <2>4 DEF LockRow
    <2>5. CASE InsertNote(w)
      <3>1. Moved(w, IF tx[w].op = "poll" THEN "insert" ELSE "commit", tx[w].id, nextId, tx[w].count)
        BY <1>0, <2>5, Moves
      <3>2. tx[w].op # "read" /\ members' = members /\ (tx[w].op = "add" => ~IsMember(tx[w].other))
        BY <1>0, <2>5 DEF InsertNote, Allowed, TransactionOK
      <3> QED
        BY <3>1, <3>2 DEF Moved, Changed, IsMember
    <2>6. CASE Recount(w)
      <3>1. Moved(w, "commit", Through(w), tx[w].note, Cardinality(Unseen(tx[w].user, Through(w))))
        BY <1>0, <2>6, RecountMoves
      <3>2. tx[w].op = "read" /\ members' = members /\ IsMember(tx[w].user) /\ tx[w].user \in Users
        BY <1>0, <2>6 DEF Recount, TransactionOK, rows
      <3>3. members[tx[w].user].read \in Nat /\ tx[w].id \in Nat
        BY <1>0, <3>2 DEF MemberRows, Transactions
      <3>4. members[tx[w].user].read <= Through(w)
        BY <3>3 DEF Through, Larger
      <3> QED
        BY <3>1, <3>2, <3>4 DEF Moved, Changed, IsMember
    <2> QED
      BY <2>1, <2>2, <2>3, <2>4, <2>5, <2>6
      DEF Work, Rollback, Finished, CommitPost, CommitVote, CommitAdd, CommitRemove,
          CommitEdit, CommitRecall, CommitHide, CommitRead, CommitDeliver
  <1> QED
    BY <1>1, <1>2 DEF CursorsOK, IsMember

LEMMA CursorsOKAlways == Spec => []CursorsOK
  <1>1. Init => CursorsOK
    BY DEF Init, CursorsOK, Idle
  <1>2. ASSUME Basis, CursorsOK, [Next]_vars PROVE CursorsOK'
    <2>1. CASE UNCHANGED vars
      BY <1>2, <2>1 DEF vars, CursorsOK, IsMember
    <2>2. CASE Next
      BY <1>2, <2>2, CursorsInvariant DEF Next
    <2> QED
      BY <1>2, <2>1, <2>2
  <1> QED
    BY <1>1, <1>2, BasisInvariant, PTL DEF Spec

\* The cursors of a member only advance, whatever order his requests are handled in.
THEOREM CursorsAdvance == Spec => CursorsNeverGoBack
  <1> DEFINE Step == \A u \in Users : (IsMember(u) /\ IsMember(u)') =>
                       /\ members[u].read <= members'[u].read
                       /\ members[u].delivered <= members'[u].delivered
  <1>1. ASSUME Basis, CursorsOK, [Next]_vars PROVE [Step]_vars
    <2> SUFFICES ASSUME NEW w \in Workers, Begin(w) \/ Work(w) \/ Rollback(w),
                        NEW u \in Users, IsMember(u), IsMember(u)'
                 PROVE  /\ members[u].read <= members'[u].read
                        /\ members[u].delivered <= members'[u].delivered
      BY <1>1 DEF Next
    <2>0. members[u].read \in Nat
      BY <1>1 DEF Basis, TypeOK, MemberRows
    <2>1. ~(CommitAdd(w) /\ u = tx[w].other)
      BY <1>1 DEF CursorsOK, CommitAdd
    <2>2. members'[u] # NoMember
      BY DEF IsMember, NoMember
    <2>3. CommitRead(w) /\ u = tx[w].user => members[u].read <= tx[w].id
      BY <1>1 DEF CursorsOK, CommitRead
    <2> QED
      BY <1>1, <2>0, <2>1, <2>2, <2>3, CursorsNext DEF CursorsStay
  <1> QED
    BY <1>1, BasisInvariant, CursorsOKAlways, PTL DEF Spec, CursorsNeverGoBack

-----------------------------------------------------------------------------
(* Unread counts.                                                            *)

\* Without votes whoever inserts messages has the lock of the conversation, so ids
\* become visible in their order.
InOrder ==
    "vote" \notin scenario.operations =>
      \A w \in Workers : /\ tx[w].op # "vote"
                         /\ \A m \in Own(w), s \in Ids : Stored(s) => s < m

LEMMA OneInserts ==
    ASSUME Basis, NEW w \in Workers, tx[w].op # "vote", Own(w) # {}
    PROVE  convLock = w
  <1>0. TransactionOK(tx[w]) /\ LockOK(w)
    BY DEF Basis, TransactionsOK, LocksOK
  <1>1. tx[w].note # 0 \/ (tx[w].op \in {"send", "poll"} /\ tx[w].id # 0)
    BY DEF Own
  <1>2. /\ tx[w].op \in {"send", "poll", "add", "remove"}
        /\ tx[w].pc \in {"insert", "rows", "commit"}
    BY <1>0, <1>1 DEF TransactionOK
  <1> QED
    BY <1>0, <1>2 DEF LockOK

LEMMA InOrderNext ==
    ASSUME Basis, InOrder, NEW w \in Workers, Begin(w) \/ Work(w) \/ Rollback(w)
    PROVE  InOrder'
  <1>0. /\ TypeOK /\ TransactionsOK /\ tx \in [Workers -> Transactions] /\ scenario \in Scenarios
        /\ Ids \subseteq Nat \ {0} /\ nextId \in Nat
    BY IdsAreNumbers DEF Basis, TypeOK
  <1>i. scenario' = scenario /\ Ids' = Ids
    BY <1>0, SameScenario DEF Ids
  <1> SUFFICES ASSUME "vote" \notin scenario.operations, NEW v \in Workers
               PROVE  /\ tx'[v].op # "vote"
                      /\ \A m \in Own(v)', s \in Ids : Stored(s)' => s < m
    BY <1>i DEF InOrder
  <1>1. \A x \in Workers : /\ tx[x].op # "vote"
                           /\ \A m \in Own(x), s \in Ids : Stored(s) => s < m
    BY DEF InOrder
  <1>2. CASE v # w
    <2>1. tx'[v] = tx[v] /\ Own(v)' = Own(v)
      BY <1>0, <1>2, Others DEF Own
    <2>2. ASSUME NEW m \in Own(v), NEW s \in Ids, Stored(s)' PROVE s < m
      <3>1. convLock = v /\ Own(w) = {}
        BY <1>1, <1>2, <2>2, OneInserts
      <3>2. Stored(s)
        BY <2>2, <3>1, StoredBefore DEF Published
      <3> QED
        BY <1>1, <3>2
    <2> QED
      BY <1>1, <2>1, <2>2
  <1>3. CASE v = w
    <2>1. CASE Begin(w)
      <3> PICK r : Beginning(w, r) /\ Enter(w, r)
        BY <1>0, <2>1, Begins
      <3>1. tx'[w] = r
        BY <1>0 DEF Enter
      <3>2. Own(w)' = {}
        BY <3>1 DEF Beginning, Own
      <3> QED
        BY <1>3, <3>1, <3>2 DEF Beginning
    <2>2. CASE tx' = [tx EXCEPT ![w] = Idle]
      <3>1. tx'[w] = Idle
        BY <1>0, <2>2
      <3> QED
        BY <1>3, <3>1 DEF Own, Idle
    <2>3. CASE \/ LockConversation(w) \/ Insert(w) \/ InsertNote(w) \/ DeleteMember(w) \/ Recount(w)
               \/ \E u \in Users : LockRow(w, u)
      <3>1. tx'[w].op = tx[w].op
        <4>1. CASE \E u \in Users : LockRow(w, u)
          BY <4>1 DEF LockRow
        <4>2. CASE Recount(w)
          BY <1>0, <4>2, RecountMoves DEF Moved, Changed
        <4>3. CASE LockConversation(w) \/ Insert(w) \/ InsertNote(w) \/ DeleteMember(w)
          BY <1>0, <4>3, Moves DEF Moved, Changed
        <4> QED
          BY <2>3, <4>1, <4>2, <4>3
      <3>2. ~(CommitPost(w) \/ CommitVote(w) \/ CommitAdd(w) \/ CommitRemove(w))
        BY <1>0, <3>1 DEF CommitPost, CommitVote, CommitAdd, CommitRemove, Finished, Idle
      <3>3. ASSUME NEW s \in Ids, Stored(s)' PROVE Stored(s) /\ s < nextId
        <4>1. Stored(s)
          BY <3>2, <3>3, StoredBefore DEF Published
        <4>2. messages[s] # NoMessage
          BY <4>1 DEF Stored, NoMessage
        <4> QED
          BY <1>0, <4>1, <4>2 DEF Basis, RowsOK
      <3> QED
        BY <1>1, <1>3, <3>1, <3>3, OwnNext
    <2> QED
      BY <2>1, <2>2, <2>3
      DEF Work, Rollback, Finished, CommitPost, CommitVote, CommitAdd, CommitRemove,
          CommitEdit, CommitRecall, CommitHide, CommitRead, CommitDeliver
  <1> QED
    BY <1>2, <1>3

\* What a step may do to whether message m waits for user u after n.
LEMMA WaitingNext ==
    ASSUME Basis, NEW w \in Workers, Begin(w) \/ Work(w) \/ Rollback(w),
           NEW u \in Users, NEW n \in Nat, NEW m \in Ids
    PROVE  /\ CommitPost(w) /\ m = tx[w].id =>
                m \notin Unseen(u, n) /\ (m \in Unseen(u, n)' <=> m > n /\ u # tx[w].user)
           /\ CommitRecall(w) /\ m = tx[w].id => m \notin Unseen(u, n)'
           /\ CommitHide(w) /\ m = tx[w].id /\ u = tx[w].user => m \notin Unseen(u, n)'
           /\ \/ m \in Unseen(u, n)' <=> m \in Unseen(u, n)
              \/ CommitPost(w) /\ m = tx[w].id
              \/ CommitRecall(w) /\ m = tx[w].id
              \/ CommitHide(w) /\ m = tx[w].id /\ u = tx[w].user
  <1> DEFINE t == tx[w]
  <1>0. /\ TypeOK /\ TransactionsOK /\ OwnOK(w) /\ RowsOK /\ TransactionOK(t) /\ Ids' = Ids /\ m # 0
        /\ messages \in [Ids -> MessageRows]
    BY SameScenario, IdsAreNumbers DEF Basis, TypeOK, OwnsOK, TransactionsOK, Ids
  <1>h. \/ hidden' = hidden
        \/ CommitHide(w) /\ hidden' = hidden \cup {<<t.id, t.user>>}
    BY <1>0, Begins DEF Work, Rollback, Enter, LockConversation, LockRow, Insert,
       InsertNote, DeleteMember, Recount, CommitPost, CommitVote, CommitAdd, CommitRemove,
       CommitEdit, CommitRecall, CommitHide, CommitRead, CommitDeliver, rows
  <1>1. ASSUME CommitPost(w), m = t.id
        PROVE  m \notin Unseen(u, n) /\ (m \in Unseen(u, n)' <=> m > n /\ u # t.user)
    <2>1. m \in Own(w) /\ t.op \in {"send", "poll"}
      BY <1>0, <1>1 DEF CommitPost, Own
    <2>2. ~Stored(m) /\ <<m, u>> \notin hidden
      BY <1>0, <2>1, OwnIsPending DEF RowsOK
    <2>3. messages[m].sender = t.user /\ messages[m].kind # "system" /\ ~messages[m].deleted
      BY <1>0, <1>1, <2>1 DEF OwnOK, Message
    <2>4. /\ messages'[m].state = "stored" /\ messages'[m].sender = messages[m].sender
          /\ messages'[m].kind = messages[m].kind /\ messages'[m].deleted = messages[m].deleted
      BY <1>0, <1>1, PublishedRows DEF CommitPost
    <2>5. hidden' = hidden
      BY <1>1 DEF CommitPost
    <2> QED
      BY <1>0, <2>2, <2>3, <2>4, <2>5 DEF Unseen, Stored
  <1>2. ASSUME CommitRecall(w), m = t.id PROVE m \notin Unseen(u, n)'
    <2>1. messages'[m] = [[messages[m] EXCEPT !.version = t.version + 1] EXCEPT !.deleted = TRUE]
      BY <1>0, <1>2 DEF CommitRecall
    <2>2. messages'[m].deleted
      BY <1>0, <2>1 DEF MessageRows
    <2> QED
      BY <2>2 DEF Unseen
  <1>3. ASSUME CommitHide(w), m = t.id, u = t.user PROVE m \notin Unseen(u, n)'
    BY <1>3 DEF CommitHide, Unseen
  <1>4. ASSUME ~(CommitPost(w) /\ m = t.id), ~(CommitRecall(w) /\ m = t.id),
               ~(CommitHide(w) /\ m = t.id /\ u = t.user)
        PROVE  m \in Unseen(u, n)' <=> m \in Unseen(u, n)
    <2>1. <<m, u>> \in hidden' <=> <<m, u>> \in hidden
      BY <1>h, <1>4
    <2>2. CASE messages'[m] = messages[m]
      BY <1>0, <2>1, <2>2 DEF Unseen, Stored
    <2>3. CASE Inserted(w, m)
      <3>1. m = nextId => messages[m] = NoMessage
        BY <1>0, IdsAreNumbers DEF RowsOK, TypeOK
      <3>2. messages[m].state # "stored" /\ messages'[m].state # "stored"
        BY <2>3, <3>1 DEF Inserted, Message, NoMessage
      <3> QED
        BY <3>2 DEF Unseen, Stored
    <2>4. CASE Published(w, m)
      <3>1. m = t.note
        <4>1. CASE CommitPost(w)
          BY <1>4, <2>4, <4>1 DEF Published, Own
        <4>2. CASE CommitVote(w) \/ CommitAdd(w) \/ CommitRemove(w)
          BY <2>4, <4>2 DEF Published, Own, CommitVote, CommitAdd, CommitRemove
        <4> QED
          BY <2>4, <4>1, <4>2 DEF Published
      <3>2. messages[m].kind = "system"
        BY <1>0, <3>1 DEF OwnOK, Message
      <3> QED
        BY <2>4, <3>2 DEF Published, Unseen
    <2>5. CASE Undone(w, m)
      BY <2>5 DEF Undone, NoMessage, Unseen, Stored
    <2>6. CASE Revised(w, m)
      BY <1>0, <1>4, <2>1, <2>6 DEF Revised, Unseen, Stored
    <2> QED
      BY <1>0, <2>2, <2>3, <2>4, <2>5, <2>6, MessagesNext
  <1> QED
    BY <1>1, <1>2, <1>3, <1>4

\* What a step may do to the messages that wait for u after n.
Arrives(w, u, n) == CommitPost(w) /\ u # tx[w].user /\ tx[w].id > n
Vanishes(w, u)   == CommitRecall(w) \/ (CommitHide(w) /\ u = tx[w].user)

LEMMA UnseenNext ==
    ASSUME Basis, NEW w \in Workers, Begin(w) \/ Work(w) \/ Rollback(w),
           NEW u \in Users, NEW n \in Nat
    PROVE  /\ IsFiniteSet(Unseen(u, n)) /\ Cardinality(Unseen(u, n)) \in Nat
           /\ Arrives(w, u, n) => Cardinality(Unseen(u, n)') = Cardinality(Unseen(u, n)) + 1
           /\ Vanishes(w, u) => Cardinality(Unseen(u, n)') =
                IF tx[w].id \in Unseen(u, n) THEN Cardinality(Unseen(u, n)) - 1
                                             ELSE Cardinality(Unseen(u, n))
           /\ ~Arrives(w, u, n) /\ ~Vanishes(w, u) => Unseen(u, n)' = Unseen(u, n)
  <1> DEFINE t == tx[w]
             U == Unseen(u, n)
  <1>0. /\ TypeOK /\ TransactionsOK /\ TransactionOK(t) /\ OwnOK(w) /\ Ids' = Ids
    BY SameScenario DEF Basis, OwnsOK, TransactionsOK, Ids
  <1>1. U \subseteq Ids /\ U' \subseteq Ids
    BY <1>0 DEF Unseen
  <1>2. IsFiniteSet(U) /\ Cardinality(U) \in Nat
    BY <1>0, <1>1, IdsAreNumbers, FS_Subset, FS_CardinalityType DEF TypeOK
  <1>3. ASSUME Arrives(w, u, n) PROVE Cardinality(U') = Cardinality(U) + 1
    <2>1. CommitPost(w) /\ t.id \in Ids
      BY <1>0, <1>3 DEF Arrives, CommitPost, OwnOK, TransactionOK
    <2>2. ~CommitRecall(w) /\ ~CommitHide(w)
      BY <2>1 DEF CommitPost, CommitRecall, CommitHide
    <2>3. U' = U \cup {t.id} /\ t.id \notin U
      BY <1>1, <1>3, <2>1, <2>2, WaitingNext DEF Arrives
    <2> QED
      BY <1>2, <2>3, FS_AddElement
  <1>4. ASSUME Vanishes(w, u)
        PROVE  Cardinality(U') = IF t.id \in U THEN Cardinality(U) - 1 ELSE Cardinality(U)
    <2>1. ~CommitPost(w)
      BY <1>4 DEF Vanishes, CommitPost, CommitRecall, CommitHide
    <2>2. U' = U \ {t.id}
      BY <1>1, <1>4, <2>1, WaitingNext DEF Vanishes
    <2> QED
      BY <1>2, <2>2, FS_RemoveElement
  <1>5. ASSUME ~Arrives(w, u, n), ~Vanishes(w, u) PROVE U' = U
    <2>1. t.id \in Nat
      BY <1>0 DEF TypeOK, Transactions
    <2>2. \A m \in Ids : m \in U' <=> m \in U
      BY <1>5, <2>1, WaitingNext DEF Arrives, Vanishes
    <2> QED
      BY <1>1, <2>2
  <1> QED
    BY <1>2, <1>3, <1>4, <1>5

\* A count is not less than there are messages, and without votes the same.
Fits(count, number) ==
    /\ count >= number
    /\ "vote" \notin scenario.operations => count = number

CountOK(u) == IsMember(u) => Fits(members[u].unread, Cardinality(Unseen(u, members[u].read)))

\* What a MarkRead has counted stays right until it commits: it has locked the row
\* of its member, and whoever changes what that member sees needs it too.
RecountOK(w) ==
    LET t == tx[w] IN
    t.op = "read" /\ t.pc = "commit" => Fits(t.count, Cardinality(Unseen(t.user, t.id)))

CountsOK == /\ \A u \in Users : CountOK(u)
            /\ \A w \in Workers : RecountOK(w)

LEMMA RecountNext ==
    ASSUME Basis, CursorsOK, NEW v \in Workers, RecountOK(v),
           NEW w \in Workers, Begin(w) \/ Work(w) \/ Rollback(w),
           tx'[v].op = "read", tx'[v].pc = "commit",
           NEW u \in Users, NEW n \in Nat, u = tx'[v].user, n = tx'[v].id
    PROVE  Fits(tx'[v].count, Cardinality(Unseen(u, n)'))
  <1>0. /\ TypeOK /\ TransactionsOK /\ tx \in [Workers -> Transactions]
        /\ LockOK(v) /\ LockOK(w) /\ OwnOK(w) /\ TransactionOK(tx[w])
    BY DEF Basis, TypeOK, LocksOK, OwnsOK, TransactionsOK
  <1>1. CASE v # w
    <2>1. tx'[v] = tx[v] /\ IsMember(u) /\ rowLock[u] = v
      BY <1>0, <1>1, Others DEF CursorsOK, LockOK
    <2>2. Fits(tx[v].count, Cardinality(Unseen(u, n)))
      BY <2>1 DEF RecountOK
    <2>3. ~Arrives(w, u, n)
      BY <1>1, <2>1 DEF Arrives, CommitPost, HasRows, Wanted, Members
    <2>4. ASSUME Vanishes(w, u) PROVE tx[w].id \notin Unseen(u, n)
      <3>1. ~(CommitHide(w) /\ u = tx[w].user)
        BY <1>1, <2>1 DEF CommitHide, HasRows, Wanted
      <3>2. CommitRecall(w)
        BY <2>4, <3>1 DEF Vanishes
      <3>3. u = tx[w].user
        BY <1>1, <2>1, <3>2 DEF CommitRecall, HasRows, Wanted, Members
      <3> QED
        BY <1>0, <3>2, <3>3 DEF CommitRecall, OwnOK, Unseen
    <2>5. Cardinality(Unseen(u, n)') = Cardinality(Unseen(u, n))
      BY <2>3, <2>4, UnseenNext
    <2> QED
      BY <2>1, <2>2, <2>5
  <1>2. CASE v = w
    <2>1. Recount(w)
      <3>1. ~Begin(w)
        <4> SUFFICES ASSUME Begin(w) PROVE FALSE
          OBVIOUS
        <4> PICK r : Beginning(w, r) /\ Enter(w, r)
          BY <1>0, Begins
        <4>1. tx'[w] = r
          BY <1>0 DEF Enter
        <4> QED
          BY <1>2, <4>1 DEF Beginning
      <3>2. tx' # [tx EXCEPT ![w] = Idle]
        BY <1>0, <1>2 DEF Idle
      <3>3. ~(LockConversation(w) \/ DeleteMember(w) \/ Insert(w))
        BY <1>0, <1>2, Moves DEF Moved, Changed
      <3>4. ~InsertNote(w)
        BY <1>0, <1>2, Moves DEF Moved, Changed, InsertNote, TransactionOK
      <3>5. ~\E x \in Users : LockRow(w, x)
        BY <1>2 DEF LockRow
      <3> QED
        BY <3>1, <3>2, <3>3, <3>4, <3>5
        DEF Work, Rollback, Finished, CommitPost, CommitVote, CommitAdd, CommitRemove,
            CommitEdit, CommitRecall, CommitHide, CommitRead, CommitDeliver
    <2>2. /\ u = tx[w].user /\ n = Through(w)
          /\ tx'[w].count = Cardinality(Unseen(tx[w].user, Through(w)))
      BY <1>0, <1>2, <2>1, RecountMoves DEF Moved, Changed
    <2>3. ~Arrives(w, u, n) /\ ~Vanishes(w, u)
      BY <2>1 DEF Recount, Arrives, Vanishes, CommitPost, CommitRecall, CommitHide
    <2>4. Unseen(u, n)' = Unseen(u, n) /\ Cardinality(Unseen(u, n)) \in Nat
      BY <2>3, UnseenNext
    <2> QED
      BY <1>2, <2>2, <2>4 DEF Fits
  <1> QED
    BY <1>1, <1>2

LEMMA CountNext ==
    ASSUME Basis, CursorsOK, InOrder, CountsOK,
           NEW w \in Workers, Begin(w) \/ Work(w) \/ Rollback(w),
           NEW u \in Users, NEW n \in Nat, n = members'[u].read, members'[u].role # "none"
    PROVE  Fits(members'[u].unread, Cardinality(Unseen(u, n)'))
  <1> DEFINE t == tx[w]
             U == Unseen(u, n)
             k == Cardinality(U)
  <1>0. /\ TypeOK /\ TransactionsOK /\ OwnOK(w) /\ TransactionOK(t) /\ scenario \in Scenarios
        /\ t.id \in Nat /\ members[u].read \in Nat /\ members[u].unread \in Nat
    BY DEF Basis, TypeOK, OwnsOK, TransactionsOK, Transactions, MemberRows
  <1>f. IsFiniteSet(U) /\ k \in Nat
    BY UnseenNext
  <1>c. members[u].role # "none" /\ n = members[u].read => Fits(members[u].unread, k)
    BY DEF CountsOK, CountOK, IsMember
  <1>1. CASE CommitPost(w)
    <2>1. CASE u \in Members /\ u # t.user
      <3>1. n = members[u].read /\ members'[u].unread = members[u].unread + 1
        BY <1>0, <1>1, <2>1, MembersNext DEF Altered
      <3>2. Fits(members[u].unread, k)
        BY <1>c, <2>1, <3>1 DEF Members, IsMember
      <3>3. CASE t.id > n
        <4>1. Cardinality(U') = k + 1
          BY <1>1, <2>1, <3>3, UnseenNext DEF Arrives
        <4> HIDE DEF k
        <4> QED
          BY <1>0, <1>f, <3>1, <3>2, <4>1 DEF Fits
      <3>4. CASE ~(t.id > n)
        <4>1. U' = U
          BY <1>1, <3>4, UnseenNext DEF Arrives, Vanishes, CommitPost, CommitRecall, CommitHide
        <4>2. t.id \in Own(w) /\ t.id \in Ids
          BY <1>0, <1>1 DEF CommitPost, TransactionOK, OwnOK, Own
        <4>3. "vote" \in scenario.operations
          <5>1. n = 0 \/ (n \in Ids /\ Stored(n))
            BY <3>1 DEF Basis, RowsOK
          <5>2. t.id \in Nat \ {0}
            BY <1>0, <4>2, IdsAreNumbers
          <5> QED
            BY <3>4, <4>2, <5>1, <5>2 DEF InOrder
        <4> HIDE DEF k
        <4> QED
          BY <1>0, <1>f, <3>1, <3>2, <4>1, <4>3 DEF Fits, k
      <3> QED
        BY <3>3, <3>4
    <2>2. CASE ~(u \in Members /\ u # t.user)
      <3>1. members'[u] = members[u]
        BY <1>0, <1>1, <2>2, MembersNext
      <3>2. u = t.user
        BY <2>2, <3>1 DEF Members, IsMember
      <3>3. U' = U
        BY <1>1, <3>2, UnseenNext DEF Arrives, Vanishes, CommitPost, CommitRecall, CommitHide
      <3> QED
        BY <1>c, <3>1, <3>3
    <2> QED
      BY <2>1, <2>2
  <1>2. CASE Vanishes(w, u)
    <2> DEFINE seen == t.id \in U
    <2>1. Cardinality(U') = IF seen THEN k - 1 ELSE k
      BY <1>2, UnseenNext
    <2>2. /\ members'[u].read = members[u].read /\ members'[u].role = members[u].role
          /\ members'[u].unread = IF seen /\ members[u].unread > 0 THEN members[u].unread - 1
                                                                     ELSE members[u].unread
      <3>1. CASE CommitRecall(w)
        <4>1. /\ t.id \in Ids /\ Stored(t.id) /\ messages[t.id].kind = "text"
              /\ messages[t.id].sender = t.user /\ ~messages[t.id].deleted
              /\ Wanted(w) = Members \ {t.user}
          BY <1>0, <3>1 DEF CommitRecall, OwnOK, Unchanged, Wanted
        <4> DEFINE counted == /\ u \in Wanted(w) /\ members[u].read < t.id
                              /\ <<t.id, u>> \notin hidden /\ members[u].unread > 0
        <4>2. counted => Altered(members[u], members'[u], members[u].read, members[u].delivered, members[u].unread - 1)
          BY <1>0, <3>1, MembersNext
        <4>3. ~counted => members'[u] = members[u]
          BY <1>0, <3>1, MembersNext
        <4>4. members'[u].read = members[u].read /\ members'[u].role = members[u].role
          BY <4>2, <4>3 DEF Altered
        <4>5. counted <=> seen /\ members[u].unread > 0
          BY <1>0, <4>1, <4>4 DEF Unseen, Members, IsMember
        <4> QED
          BY <4>2, <4>3, <4>4, <4>5 DEF Altered
      <3>2. CASE CommitHide(w) /\ u = t.user
        <4>1. t.id \in Ids /\ Stored(t.id)
          BY <1>0, <3>2 DEF CommitHide, OwnOK
        <4> DEFINE counted == /\ <<t.id, u>> \notin hidden
                              /\ messages[t.id].sender # u /\ messages[t.id].kind # "system"
                              /\ ~messages[t.id].deleted
                              /\ members[u].read < t.id /\ members[u].unread > 0
        <4>2. counted => Altered(members[u], members'[u], members[u].read, members[u].delivered, members[u].unread - 1)
          BY <1>0, <3>2, MembersNext
        <4>3. ~counted => members'[u] = members[u]
          BY <1>0, <3>2, MembersNext
        <4>4. members'[u].read = members[u].read /\ members'[u].role = members[u].role
          BY <4>2, <4>3 DEF Altered
        <4>5. counted <=> seen /\ members[u].unread > 0
          BY <1>0, <4>1, <4>4 DEF Unseen
        <4> QED
          BY <4>2, <4>3, <4>4, <4>5 DEF Altered
      <3> QED
        BY <1>2, <3>1, <3>2 DEF Vanishes
    <2>3. Fits(members[u].unread, k)
      BY <1>c, <2>2
    <2>4. seen => k > 0
      BY <1>f, FS_EmptySet
    <2> HIDE DEF seen, k
    <2> QED
      BY <1>0, <1>f, <2>1, <2>2, <2>3, <2>4 DEF Fits
  <1>3. CASE ~CommitPost(w) /\ ~Vanishes(w, u)
    <2>1. U' = U
      BY <1>3, UnseenNext DEF Arrives
    <2>2. CASE members'[u] = members[u]
      BY <1>c, <2>1, <2>2
    <2>3. CASE CommitRead(w) /\ u = t.user
      <3>1. n = t.id /\ members'[u].unread = t.count
        BY <1>0, <2>3, MembersNext DEF Altered
      <3>2. RecountOK(w) /\ t.op = "read" /\ t.pc = "commit"
        BY <2>3 DEF CountsOK, CommitRead
      <3> QED
        BY <2>1, <2>3, <3>1, <3>2 DEF RecountOK
    <2>4. CASE CommitDeliver(w) /\ u = t.user
      <3>1. n = members[u].read /\ members'[u].role = members[u].role /\ members'[u].unread = members[u].unread
        BY <1>0, <2>4, MembersNext DEF Altered
      <3> QED
        BY <1>c, <2>1, <3>1
    <2>5. CASE CommitAdd(w) /\ u = t.other
      <3>1. members'[u] = NewMember("member", Newest)
        BY <1>0, <2>5, MembersNext
      <3>2. n = Newest /\ members'[u].unread = 0
        BY <3>1 DEF NewMember
      <3>3. U = {}
        <4> SUFFICES ASSUME NEW m \in U PROVE FALSE
          OBVIOUS
        <4>1. /\ m \in Ids /\ m \in Nat /\ m > Newest /\ Stored(m)
              /\ messages[m].kind # "system"
          BY <1>0, <3>2, IdsAreNumbers DEF Unseen
        <4>2. m <= Newest /\ Newest \in Nat
          BY <1>0, <4>1, NewestIsLargest
        <4> QED
          BY <4>1, <4>2
      <3>4. Cardinality(U') = 0
        BY <2>1, <3>3, FS_EmptySet
      <3> QED
        BY <3>2, <3>4 DEF Fits
    <2>6. CASE CommitRemove(w) /\ u = t.other
      <3>1. members'[u] = NoMember
        BY <1>0, <2>6, MembersNext
      <3> QED
        BY <3>1 DEF NoMember
    <2>7. \/ members'[u] = members[u]
          \/ CommitRead(w) /\ u = t.user
          \/ CommitDeliver(w) /\ u = t.user
          \/ CommitAdd(w) /\ u = t.other
          \/ CommitRemove(w) /\ u = t.other
      <3>1. CASE CommitHide(w)
        BY <1>0, <1>3, <3>1, MembersNext DEF Vanishes
      <3>2. CASE CommitRead(w) \/ CommitDeliver(w)
        BY <1>0, <3>2, MembersNext
      <3>3. CASE CommitAdd(w) \/ CommitRemove(w)
        BY <1>0, <3>3, MembersNext
      <3>4. CASE ~(CommitHide(w) \/ CommitRead(w) \/ CommitDeliver(w) \/ CommitAdd(w) \/ CommitRemove(w))
        <4>1. members' = members
          BY <1>0, <1>3, <3>4, Begins DEF Vanishes, Work, Rollback, Enter, LockConversation, LockRow,
            Insert, InsertNote, DeleteMember, Recount, CommitVote, CommitEdit, rows
        <4> QED
          BY <4>1
      <3> QED
        BY <3>1, <3>2, <3>3, <3>4
    <2> QED
      BY <2>2, <2>3, <2>4, <2>5, <2>6, <2>7
  <1> QED
    BY <1>1, <1>2, <1>3

LEMMA CountsAlways == Spec => [](InOrder /\ CountsOK)
  <1>1. ASSUME Init PROVE InOrder /\ CountsOK
    <2>1. \A w \in Workers : tx[w] = Idle
      BY <1>1 DEF Init
    <2>2. InOrder
      BY <2>1 DEF InOrder, Own, Idle
    <2>3. \A w \in Workers : RecountOK(w)
      BY <2>1 DEF RecountOK, Idle
    <2>4. ASSUME NEW u \in Users PROVE CountOK(u)
      <3>1. members[u].unread = 0
        BY <1>1 DEF Init, NewMember, NoMember
      <3>2. Unseen(u, members[u].read) = {}
        BY <1>1 DEF Init, Unseen, Stored, NoMessage
      <3> QED
        BY <3>1, <3>2, FS_EmptySet DEF CountOK, Fits
    <2> QED
      BY <2>2, <2>3, <2>4 DEF CountsOK
  <1>2. ASSUME Basis, CursorsOK, InOrder, CountsOK, Basis', [Next]_vars PROVE InOrder' /\ CountsOK'
    <2>1. CASE UNCHANGED vars
      BY <1>2, <2>1 DEF vars, InOrder, Own, Stored, Ids, CountsOK, CountOK, RecountOK, Fits, IsMember, Unseen
    <2>2. ASSUME NEW w \in Workers, Begin(w) \/ Work(w) \/ Rollback(w) PROVE InOrder' /\ CountsOK'
      <3>1. scenario' = scenario
        BY <1>2, <2>2, SameScenario DEF Basis
      <3>2. InOrder'
        BY <1>2, <2>2, InOrderNext
      <3>3. ASSUME NEW u \in Users PROVE CountOK(u)'
        <4> SUFFICES ASSUME members'[u].role # "none"
                     PROVE  CountOK(u)'
          BY DEF CountOK, IsMember
        <4>1. members'[u].read \in Nat
          BY <1>2 DEF Basis, TypeOK, MemberRows
        <4>2. PICK n \in Nat : n = members'[u].read
          BY <4>1
        <4>3. Fits(members'[u].unread, Cardinality(Unseen(u, n)'))
          BY <1>2, <2>2, <4>2, CountNext
        <4> QED
          BY <3>1, <4>2, <4>3 DEF CountOK, Fits, Unseen
      <3>4. ASSUME NEW v \in Workers PROVE RecountOK(v)'
        <4> SUFFICES ASSUME tx'[v].op = "read", tx'[v].pc = "commit"
                     PROVE  RecountOK(v)'
          BY DEF RecountOK
        <4>1. tx'[v].user \in Users /\ tx'[v].id \in Nat
          BY <1>2 DEF Basis, TypeOK, Transactions, TransactionsOK, TransactionOK
        <4>2. PICK u \in Users, n \in Nat : u = tx'[v].user /\ n = tx'[v].id
          BY <4>1
        <4>3. RecountOK(v)
          BY <1>2 DEF CountsOK
        <4>4. Fits(tx'[v].count, Cardinality(Unseen(u, n)'))
          BY <1>2, <2>2, <4>2, <4>3, RecountNext
        <4> QED
          BY <3>1, <4>2, <4>4 DEF RecountOK, Fits, Unseen
      <3> QED
        BY <3>2, <3>3, <3>4 DEF CountsOK
    <2> QED
      BY <1>2, <2>1, <2>2 DEF Next
  <1> QED
    BY <1>1, <1>2, BasisInvariant, CursorsOKAlways, PTL DEF Spec

\* A message that waits for a member is always part of his cached unread count, and
\* without votes the count is exact.
THEOREM NothingUnreadIsMissed == Spec => []UnreadIsNeverTooLow
  <1>1. CountsOK => UnreadIsNeverTooLow
    BY DEF CountsOK, CountOK, Fits, UnreadIsNeverTooLow, UnreadIsExact, Members
  <1> QED
    BY <1>1, CountsAlways, PTL

\* Where nobody votes the unread count of every member is what a recount gives, whatever
\* the requests overlap: only a message written without the lock makes it wrong.
THEOREM UnreadIsRight ==
    ASSUME \A s \in Scenarios : "vote" \notin s.operations
    PROVE  Spec => []UnreadIsExact
  <1>1. TypeOK /\ UnreadIsNeverTooLow => UnreadIsExact
    BY DEF TypeOK, UnreadIsNeverTooLow
  <1> QED
    BY <1>1, TypeCorrect, NothingUnreadIsMissed, PTL

-----------------------------------------------------------------------------
(* Receipts.                                                                 *)

\* Where a member's cursors may go in a step, with the place he began at.
Kept(u) ==
    /\ members'[u].role = members[u].role /\ members'[u].base = members[u].base
    /\ members'[u].read = members[u].read /\ members'[u].delivered = members[u].delivered

LEMMA PlacesNext ==
    ASSUME Basis, NEW w \in Workers, Begin(w) \/ Work(w) \/ Rollback(w), NEW u \in Users
    PROVE  LET t == tx[w] IN
           /\ CommitRead(w) /\ u = t.user =>
                /\ members'[u].role = members[u].role /\ members'[u].base = members[u].base
                /\ members'[u].read = t.id /\ members'[u].delivered = Larger(t.id, members[u].delivered)
           /\ CommitDeliver(w) /\ u = t.user =>
                /\ members'[u].role = members[u].role /\ members'[u].base = members[u].base
                /\ members'[u].read = members[u].read
                /\ members'[u].delivered = Larger(t.id, members[u].delivered)
           /\ CommitAdd(w) /\ u = t.other => members'[u] = NewMember("member", Newest)
           /\ CommitRemove(w) /\ u = t.other => members'[u] = NoMember
           /\ \/ Kept(u)
              \/ CommitRead(w) /\ u = t.user
              \/ CommitDeliver(w) /\ u = t.user
              \/ CommitAdd(w) /\ u = t.other
              \/ CommitRemove(w) /\ u = t.other
  <1> DEFINE t == tx[w]
  <1>0. TypeOK /\ TransactionsOK
    BY DEF Basis
  <1>1. CASE members'[u] = members[u]
    BY <1>0, <1>1, MembersNext DEF Kept, Altered
  <1>2. CASE CommitPost(w) \/ CommitRecall(w) \/ CommitHide(w)
    <2>1. Kept(u)
      BY <1>0, <1>2, MembersNext DEF Kept, Altered
    <2>2. ~CommitRead(w) /\ ~CommitDeliver(w) /\ ~CommitAdd(w) /\ ~CommitRemove(w)
      BY <1>2 DEF CommitPost, CommitRecall, CommitHide, CommitRead, CommitDeliver, CommitAdd, CommitRemove
    <2> QED
      BY <2>1, <2>2
  <1>3. CASE CommitRead(w) \/ CommitDeliver(w)
    BY <1>0, <1>1, <1>3, MembersNext DEF Altered, CommitRead, CommitDeliver, CommitAdd, CommitRemove
  <1>4. CASE CommitAdd(w) \/ CommitRemove(w)
    BY <1>0, <1>1, <1>4, MembersNext DEF CommitRead, CommitDeliver, CommitAdd, CommitRemove
  <1>5. CASE ~(\/ CommitPost(w) \/ CommitRecall(w) \/ CommitHide(w) \/ CommitRead(w)
               \/ CommitDeliver(w) \/ CommitAdd(w) \/ CommitRemove(w))
    <2>1. members' = members
      BY <1>0, <1>5, Begins DEF Work, Rollback, Enter, LockConversation, LockRow, Insert, InsertNote,
        DeleteMember, Recount, CommitVote, CommitEdit, rows
    <2> QED
      BY <1>1, <2>1
  <1> QED
    BY <1>2, <1>3, <1>4, <1>5

\* The stages of a receipt that a move of a cursor changes.
Behind(stage) == IF stage = "read" THEN {"sent", "delivered"} ELSE {"sent"}

LEMMA ReceiptsNext ==
    ASSUME Basis, NEW w \in Workers, Begin(w) \/ Work(w) \/ Rollback(w), NEW u \in Users, NEW m \in Ids
    PROVE  LET t == tx[w]
               posted == CommitPost(w) /\ m = t.id /\ u \in Members \ {t.user}
               seen == /\ CommitRead(w) /\ u = t.user /\ members[u].read < m /\ m <= t.id
                       /\ receipts[m][u] \in Behind("read")
               got == /\ CommitDeliver(w) /\ u = t.user /\ members[u].delivered < m
                      /\ m <= Larger(t.id, members[u].delivered)
                      /\ receipts[m][u] \in Behind("delivered")
           IN /\ posted => receipts'[m][u] = "sent"
              /\ seen => receipts'[m][u] = "read"
              /\ got => receipts'[m][u] = "delivered"
              /\ posted \/ seen \/ got \/ receipts'[m][u] = receipts[m][u]
  <1>0. /\ receipts \in [Ids -> [Users -> {"none", "sent", "delivered", "read"}]]
        /\ TypeOK /\ OwnOK(w) /\ TransactionOK(tx[w])
    BY DEF Basis, TypeOK, OwnsOK, TransactionsOK
  <1>1. CASE CommitPost(w)
    <2>1. tx[w].id \in Ids
      BY <1>0, <1>1 DEF CommitPost, OwnOK, TransactionOK
    <2> QED
      BY <1>0, <1>1, <2>1 DEF CommitPost, CommitRead, CommitDeliver
  <1>2. CASE CommitRead(w)
    BY <1>0, <1>2 DEF CommitPost, CommitRead, CommitDeliver, Reached, Behind
  <1>3. CASE CommitDeliver(w)
    BY <1>0, <1>3 DEF CommitPost, CommitRead, CommitDeliver, Reached, Behind
  <1>4. CASE ~(CommitPost(w) \/ CommitRead(w) \/ CommitDeliver(w))
    <2>1. receipts' = receipts
      BY <1>0, <1>4, Begins DEF Work, Rollback, Enter, LockConversation, LockRow, Insert, InsertNote,
        DeleteMember, Recount, CommitVote, CommitAdd, CommitRemove, CommitEdit, CommitRecall,
        CommitHide, rows
    <2> QED
      BY <1>4, <2>1
  <1> QED
    BY <1>1, <1>2, <1>3, <1>4

\* Receipts are for stored messages; the cursors of a member are in order; what waits
\* has a receipt; and without votes a receipt says what the cursors say.
Matches(u, m) ==
    receipts[m][u] # "none" /\ m > members[u].base =>
      /\ receipts[m][u] = "read" <=> m <= members[u].read
      /\ receipts[m][u] # "sent" <=> m <= members[u].delivered

ReceiptsOK ==
    /\ \A u \in Users, m \in Ids : receipts[m][u] # "none" => Stored(m) /\ messages[m].kind # "system"
    /\ \A u \in Users : /\ members[u].base <= members[u].read
                        /\ members[u].read <= members[u].delivered
                        /\ members[u].delivered # 0 =>
                             members[u].delivered \in Ids /\ Stored(members[u].delivered)
    /\ \A u \in Users : IsMember(u) =>
         \A m \in Unseen(u, members[u].read) : receipts[m][u] # "none"
    /\ "vote" \notin scenario.operations =>
         \A u \in Users, m \in Ids : IsMember(u) => Matches(u, m)

LEMMA ReceiptsInvariant ==
    ASSUME Basis, Basis', CursorsOK, InOrder, ReceiptsOK,
           NEW w \in Workers, Begin(w) \/ Work(w) \/ Rollback(w)
    PROVE  ReceiptsOK'
  <1> DEFINE t == tx[w]
  <1>0. /\ TypeOK /\ TransactionsOK /\ OwnOK(w) /\ TransactionOK(t) /\ scenario \in Scenarios
        /\ t.id \in Nat /\ Ids \subseteq Nat \ {0}
        /\ \A m \in Ids, u \in Users : receipts[m][u] \in {"none", "sent", "delivered", "read"}
        /\ \A u \in Users : /\ members[u].base \in Nat /\ members[u].read \in Nat
                            /\ members[u].delivered \in Nat
    BY IdsAreNumbers DEF Basis, TypeOK, OwnsOK, TransactionsOK, Transactions, MemberRows
  <1>i. scenario' = scenario /\ Ids' = Ids
    BY <1>0, SameScenario DEF Ids
  <1>n. Newest \in Nat /\ (Newest # 0 => Newest \in Ids /\ Stored(Newest))
        /\ \A m \in Ids : Stored(m) /\ messages[m].kind # "system" => m <= Newest
    BY <1>0, NewestIsLargest
  <1>r. ASSUME NEW u \in Users, CommitRead(w), u = t.user
        PROVE  members[u].role # "none" /\ members[u].read <= t.id /\ t.id \in Ids /\ Stored(t.id)
    BY <1>0, <1>r DEF CommitRead, CursorsOK, IsMember, OwnOK
  <1>d. ASSUME CommitDeliver(w) PROVE t.id \in Ids /\ Stored(t.id)
    BY <1>0, <1>d DEF CommitDeliver, OwnOK
  <1>1. ASSUME NEW u \in Users, NEW m \in Ids, receipts'[m][u] # "none"
        PROVE  Stored(m)' /\ messages'[m].kind # "system"
    <2>1. CASE receipts[m][u] # "none"
      BY <2>1, StoredStays DEF ReceiptsOK
    <2>2. CASE receipts[m][u] = "none"
      <3>1. CommitPost(w) /\ m = t.id
        BY <1>1, <2>2, ReceiptsNext DEF Behind
      <3>2. messages[m].kind # "system"
        BY <1>0, <3>1 DEF CommitPost, TransactionOK, OwnOK, Message
      <3>3. messages'[m].state = "stored" /\ messages'[m].kind = messages[m].kind
        BY <1>0, <3>1, PublishedRows DEF CommitPost
      <3> QED
        BY <3>2, <3>3 DEF Stored
    <2> QED
      BY <2>1, <2>2
  <1>2. ASSUME NEW u \in Users
        PROVE  /\ members'[u].base <= members'[u].read
               /\ members'[u].read <= members'[u].delivered
               /\ members'[u].delivered # 0 =>
                    members'[u].delivered \in Ids /\ messages'[members'[u].delivered].state = "stored"
    <2>0. /\ members[u].base <= members[u].read /\ members[u].read <= members[u].delivered
          /\ members[u].delivered # 0 => members[u].delivered \in Ids /\ Stored(members[u].delivered)
      BY DEF ReceiptsOK
    <2> DEFINE far == members'[u].delivered
    <2>1. /\ members'[u].base <= members'[u].read /\ members'[u].read <= far
          /\ far # 0 => far \in Ids /\ Stored(far)
      <3>1. CASE Kept(u)
        BY <2>0, <3>1 DEF Kept
      <3>2. CASE CommitRead(w) /\ u = t.user
        <4>1. /\ members'[u].base = members[u].base /\ members'[u].read = t.id
              /\ far = Larger(t.id, members[u].delivered)
          BY <3>2, PlacesNext
        <4> QED
          BY <1>0, <1>r, <2>0, <3>2, <4>1 DEF Larger
      <3>3. CASE CommitDeliver(w) /\ u = t.user
        <4>1. /\ members'[u].base = members[u].base /\ members'[u].read = members[u].read
              /\ far = Larger(t.id, members[u].delivered)
          BY <3>3, PlacesNext
        <4> QED
          BY <1>0, <1>d, <2>0, <3>3, <4>1 DEF Larger
      <3>4. CASE CommitAdd(w) /\ u = t.other
        <4>1. members'[u] = NewMember("member", Newest)
          BY <3>4, PlacesNext
        <4> QED
          BY <1>n, <4>1 DEF NewMember
      <3>5. CASE CommitRemove(w) /\ u = t.other
        <4>1. members'[u] = NoMember
          BY <3>5, PlacesNext
        <4> QED
          BY <4>1 DEF NoMember
      <3> QED
        BY <3>1, <3>2, <3>3, <3>4, <3>5, PlacesNext
    <2> QED
      BY <2>1, StoredStays DEF Stored
  <1>3. ASSUME NEW u \in Users, NEW n \in Nat, n = members'[u].read, members'[u].role # "none",
               NEW m \in Ids, m \in Unseen(u, n)'
        PROVE  receipts'[m][u] # "none"
    <2>1. CASE CommitPost(w) /\ m = t.id
      <3>1. u # t.user
        BY <1>3, <2>1, WaitingNext
      <3>2. u \in Members
        <4>1. Kept(u)
          BY <2>1, PlacesNext DEF CommitPost, CommitRead, CommitDeliver, CommitAdd, CommitRemove
        <4> QED
          BY <1>3, <4>1 DEF Kept, Members, IsMember
      <3> QED
        BY <2>1, <3>1, <3>2, ReceiptsNext
    <2>2. CASE ~(CommitPost(w) /\ m = t.id)
      <3>1. m \in Unseen(u, n)
        BY <1>3, <2>2, WaitingNext
      <3>2. ~(CommitAdd(w) /\ u = t.other)
        <4> SUFFICES ASSUME CommitAdd(w), u = t.other PROVE FALSE
          OBVIOUS
        <4>1. n = Newest
          BY <1>3, PlacesNext DEF NewMember
        <4> QED
          BY <1>0, <1>n, <3>1, <4>1 DEF Unseen
      <3>3. members[u].role # "none" /\ members[u].read <= n
        BY <1>0, <1>3, <1>r, <3>2, PlacesNext DEF Kept, NoMember
      <3>4. m \in Unseen(u, members[u].read)
        BY <1>0, <3>1, <3>3 DEF Unseen
      <3>5. receipts[m][u] # "none"
        BY <3>3, <3>4 DEF ReceiptsOK, IsMember
      <3> QED
        BY <3>5, ReceiptsNext
    <2> QED
      BY <2>1, <2>2
  <1>4. ASSUME "vote" \notin scenario.operations, NEW u \in Users, NEW m \in Ids, members'[u].role # "none",
               receipts'[m][u] # "none", m > members'[u].base
        PROVE  /\ receipts'[m][u] = "read" <=> m <= members'[u].read
               /\ receipts'[m][u] # "sent" <=> m <= members'[u].delivered
    <2> DEFINE row == members[u]
               old == receipts[m][u]
               new == receipts'[m][u]
    <2>0. /\ m \in Nat /\ old \in {"none", "sent", "delivered", "read"}
          /\ row.base \in Nat /\ row.read \in Nat /\ row.delivered \in Nat
          /\ row.read <= row.delivered
      BY <1>0 DEF ReceiptsOK
    <2>h. row.role # "none" /\ old # "none" /\ m > row.base =>
            /\ old = "read" <=> m <= row.read
            /\ old # "sent" <=> m <= row.delivered
      BY <1>4 DEF ReceiptsOK, IsMember, Matches
    <2>1. CASE CommitPost(w) /\ m = t.id /\ u \in Members \ {t.user}
      <3>0. ~CommitRead(w) /\ ~CommitDeliver(w) /\ ~CommitAdd(w) /\ ~CommitRemove(w)
        BY <2>1 DEF CommitPost, CommitRead, CommitDeliver, CommitAdd, CommitRemove
      <3>1. Kept(u) /\ new = "sent"
        BY <2>1, <3>0, PlacesNext, ReceiptsNext
      <3>2. m \in Own(w)
        BY <1>0, <2>1 DEF CommitPost, Own
      <3>3. \A s \in Ids : Stored(s) => s < m
        BY <1>4, <3>2 DEF InOrder
      <3>4. row.delivered < m
        BY <1>0, <2>0, <3>3 DEF ReceiptsOK
      <3> QED
        BY <2>0, <3>1, <3>4 DEF Kept
    <2>2. CASE CommitRead(w) /\ u = t.user
      <3>1. /\ members'[u].base = row.base /\ members'[u].read = t.id
            /\ members'[u].delivered = Larger(t.id, row.delivered)
            /\ row.role # "none" /\ row.read <= t.id
        BY <1>r, <2>2, PlacesNext
      <3>2. /\ (row.read < m /\ m <= t.id /\ old \in {"sent", "delivered"}) => new = "read"
            /\ ~(row.read < m /\ m <= t.id /\ old \in {"sent", "delivered"}) => new = old
        <4>1. ~CommitPost(w) /\ ~CommitDeliver(w)
          BY <2>2 DEF CommitRead, CommitPost, CommitDeliver
        <4> QED
          BY <2>2, <4>1, ReceiptsNext DEF Behind
      <3>3. old # "none"
        BY <1>4, <3>2
      <3>4. /\ old = "read" <=> m <= row.read
            /\ old # "sent" <=> m <= row.delivered
        BY <1>4, <2>h, <3>1, <3>3
      <3> QED
        BY <1>0, <2>0, <3>1, <3>2, <3>3, <3>4 DEF Larger
    <2>3. CASE CommitDeliver(w) /\ u = t.user
      <3>1. /\ members'[u].base = row.base /\ members'[u].read = row.read
            /\ members'[u].delivered = Larger(t.id, row.delivered)
            /\ row.role # "none"
        BY <1>4, <2>3, PlacesNext
      <3>2. /\ (row.delivered < m /\ m <= Larger(t.id, row.delivered) /\ old = "sent") => new = "delivered"
            /\ ~(row.delivered < m /\ m <= Larger(t.id, row.delivered) /\ old = "sent") => new = old
        <4>1. ~CommitPost(w) /\ ~CommitRead(w)
          BY <2>3 DEF CommitRead, CommitPost, CommitDeliver
        <4> QED
          BY <2>3, <4>1, ReceiptsNext DEF Behind
      <3>3. old # "none"
        BY <1>4, <3>2
      <3>4. /\ old = "read" <=> m <= row.read
            /\ old # "sent" <=> m <= row.delivered
        BY <1>4, <2>h, <3>1, <3>3
      <3> QED
        BY <1>0, <2>0, <3>1, <3>2, <3>3, <3>4 DEF Larger
    <2>4. CASE ~(CommitPost(w) /\ m = t.id /\ u \in Members \ {t.user})
               /\ ~(CommitRead(w) /\ u = t.user) /\ ~(CommitDeliver(w) /\ u = t.user)
      <3>1. new = old
        BY <2>4, ReceiptsNext
      <3>2. ~(CommitAdd(w) /\ u = t.other)
        <4> SUFFICES ASSUME CommitAdd(w), u = t.other PROVE FALSE
          OBVIOUS
        <4>1. members'[u].base = Newest
          BY PlacesNext DEF NewMember
        <4>2. Stored(m) /\ messages[m].kind # "system"
          BY <1>4, <3>1 DEF ReceiptsOK
        <4>3. m <= Newest
          BY <1>n, <4>2
        <4> QED
          BY <1>4, <1>n, <2>0, <4>1, <4>3
      <3>3. Kept(u)
        BY <1>4, <2>4, <3>2, PlacesNext DEF NoMember
      <3> QED
        BY <1>4, <2>h, <3>1, <3>3 DEF Kept
    <2> QED
      BY <2>1, <2>2, <2>3, <2>4
  <1>5. ASSUME NEW u \in Users, members'[u].role # "none"
        PROVE  \A m \in Unseen(u, members[u].read)' : receipts'[m][u] # "none"
    <2>1. members'[u].read \in Nat
      BY DEF Basis, TypeOK, MemberRows
    <2>2. PICK n \in Nat : n = members'[u].read
      BY <2>1
    <2>3. \A m \in Ids : m \in Unseen(u, n)' => receipts'[m][u] # "none"
      BY <1>3, <1>5, <2>2
    <2> QED
      BY <1>i, <2>2, <2>3 DEF Unseen
  <1> QED
    BY <1>i, <1>1, <1>2, <1>4, <1>5 DEF ReceiptsOK, Matches, IsMember, Stored, Unseen

LEMMA ReceiptsAlways == Spec => []ReceiptsOK
  <1>1. ASSUME Init PROVE ReceiptsOK
    <2>1. \A u \in Users : members[u].base = 0 /\ members[u].read = 0 /\ members[u].delivered = 0
      BY <1>1 DEF Init, NewMember, NoMember
    <2>2. \A m \in Ids, u \in Users : receipts[m][u] = "none"
      BY <1>1 DEF Init
    <2>3. \A u \in Users : Unseen(u, members[u].read) = {}
      BY <1>1 DEF Init, Unseen, Stored, NoMessage
    <2> QED
      BY <2>1, <2>2, <2>3 DEF ReceiptsOK, Matches
  <1>2. ASSUME Basis, Basis', CursorsOK, InOrder, ReceiptsOK, [Next]_vars PROVE ReceiptsOK'
    <2>1. CASE UNCHANGED vars
      BY <1>2, <2>1 DEF vars, ReceiptsOK, Matches, Stored, Ids, IsMember, Unseen
    <2>2. CASE Next
      BY <1>2, <2>2, ReceiptsInvariant DEF Next
    <2> QED
      BY <1>2, <2>1, <2>2
  <1> QED
    BY <1>1, <1>2, BasisInvariant, CursorsOKAlways, CountsAlways, PTL DEF Spec

\* What the sender is told about a recipient is what the recipient's cursors say.
THEOREM ReceiptsAreRight == Spec => []ReceiptsMatchCursors
  <1>1. Basis /\ ReceiptsOK => ReceiptsMatchCursors
    BY DEF ReceiptsOK, Matches, ReceiptsMatchCursors, Members
  <1> QED
    BY <1>1, BasisInvariant, ReceiptsAlways, PTL

=============================================================================
