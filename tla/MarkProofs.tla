------------------------------- MODULE MarkProofs -------------------------------
(***************************************************************************)
(* Proofs about pins and reactions, for any users, messages, requests,     *)
(* operations and bounds.                                                  *)
(***************************************************************************)
EXTENDS Services, Integers, Sequences, FiniteSets, FiniteSetTheorems,
        SequenceTheorems, NumberTheorems, TLAPS

-----------------------------------------------------------------------------
(* The invariant.                                                            *)

Pins  == [msg : Messages, at : 0 .. MaxTime]
Lists == [list : SUBSET Messages, change : Nat]

MarkOps == {"pin", "unpin", "react", "unreact", "recall", "hide"}

MarkRequests == [pc   : {"idle", "wait", "tell", "send"},
                 op   : MarkOps \cup {"none"},
                 user : Users \cup {Mark!NoUser},
                 msg  : Messages \cup {NoMessage},
                 at   : 0 .. MaxTime,
                 todo : SUBSET Users,
                 seen : Lists]

MarkTypes ==
    /\ now \in 0 .. MaxTime
    /\ pins \in Seq(Pins)
    /\ reactions \subseteq Messages \X Users /\ recalled \subseteq Messages
    /\ hidden \in [Users -> SUBSET Messages]
    /\ scenario \in Scenarios /\ arrived \in 0 .. MaxArrived
    /\ markRequest \in [Requests -> MarkRequests]
    /\ audit \in Seq(Messages \X BOOLEAN)
    /\ sent \in [Users -> Lists]

\* A list of change n is the one of u: if n is the last change u's pins are on it.
IsListOf(u, x) ==
    /\ x.change <= Len(audit)
    /\ x.change = Len(audit) => Mark!Visible(u, x.list) = Mark!Visible(u, Mark!Pinned)

\* A request that waits is a member's and, except to unpin, about a message; one that
\* sends has loaded a list of its member.
MarkRequestOK(x) ==
    /\ x.pc = "wait" => x.user \in Users /\ (x.msg = NoMessage => x.op = "unpin")
    /\ x.pc = "send" => x.user \in Users /\ IsListOf(x.user, x.seen)

MarkRequestsOK == \A q \in Requests : MarkRequestOK(markRequest[q])

\* Every announcement is of a request that arrived and waits no more.
Waiting == {q \in Requests : markRequest[q].pc = "wait"}
AuditIsCounted == IsFiniteSet(Waiting) /\ Len(audit) + Cardinality(Waiting) <= arrived

\* The index of a message's row is unique.
PinnedOnce == \A i, j \in DOMAIN pins : pins[i].msg = pins[j].msg => i = j

\* A request will send the newest list to u.
WillTell(x, u) ==
    \/ x.pc \in {"tell", "send"} /\ u \in x.todo
    \/ x.pc = "send" /\ x.user = u /\ x.seen.change = Len(audit)

\* A member was sent the newest list, or will be, unless an older one came last.
ListsAreTold ==
    \A u \in Users :
      /\ IsListOf(u, sent[u])
      /\ \/ u \in overtaken \/ sent[u].change = Len(audit)
         \/ \E q \in Requests : WillTell(markRequest[q], u)

MarkInv ==
    /\ MarkTypes /\ MarkRequestsOK /\ AuditIsCounted /\ PinnedOnce
    /\ cached = Mark!Newest(pins)
    /\ Mark!AnnouncementsAreChanges /\ ListsAreTold

LEMMA MarksAssumed ==
    /\ NoMessage \notin Messages
    /\ Scenarios \subseteq SUBSET MarkOps
    /\ MaxTime \in Nat /\ MaxArrived \in Nat
  BY ServiceAssumption DEF Mark!MarkConstants, MarkOps

LEMMA IdleMarkRequest ==
    /\ Mark!Idle \in MarkRequests /\ Mark!Idle.pc = "idle" /\ Mark!Idle.user = Mark!NoUser
    /\ Mark!Idle.todo = {} /\ Mark!NoList \in Lists
    /\ Mark!NoList.change = 0 /\ Mark!NoList.list = {}
  BY MarksAssumed DEF Mark!Idle, Mark!NoList, MarkRequests, Lists

-----------------------------------------------------------------------------
(* The list of pins.                                                         *)

\* The newest pin of a list is on it.
LEMMA NewestIsThere ==
    ASSUME NEW list \in Seq(Pins), list # <<>>
    PROVE  \E i \in DOMAIN list : Mark!Newest(list) = list[i]
  <1> DEFINE n == Len(list)
             S == {list[i].at + 1 : i \in 1 .. n}
  <1>1. n \in Nat /\ n >= 1 /\ DOMAIN list = 1 .. n
    BY EmptySeq
  <1>2. \A i \in 1 .. n : list[i] \in Pins
    BY <1>1
  <1>3. \A i \in 1 .. n : list[i].at \in Nat /\ list[i].at + 1 \in 1 .. MaxTime + 1
    BY <1>2, MarksAssumed DEF Pins
  <1>4. S \in SUBSET (1 .. MaxTime + 1) /\ S # {} /\ MaxTime + 1 \in Nat
    <2>1. list[1].at + 1 \in S
      BY <1>1
    <2> QED
      BY <1>3, <2>1, MarksAssumed
  <1> HIDE DEF n
  <1>5. PICK s \in S : \A t \in S : t <= s
    <2> HIDE DEF S
    <2> QED
      BY <1>4, LargestNumber
  <1> DEFINE T == {i \in 1 .. n : list[i].at + 1 = s}
  <1>6. T \in SUBSET (1 .. n) /\ T # {}
    BY <1>5
  <1>7. PICK i \in T : \A j \in T : j <= i
    <2> HIDE DEF T
    <2> QED
      BY <1>1, <1>6, LargestNumber
  <1>8. \A j \in 1 .. n : list[j].at < list[i].at \/ (list[j].at = list[i].at /\ j <= i)
    <2> TAKE j \in 1 .. n
    <2>1. list[j].at + 1 <= s /\ list[i].at + 1 = s
      BY <1>5, <1>7
    <2>2. list[j].at \in Nat /\ list[i].at \in Nat
      BY <1>3, <1>7
    <2>3. list[j].at + 1 = s => j <= i
      BY <1>7
    <2> QED
      BY <2>1, <2>2, <2>3
  <1>9. \E k \in DOMAIN list :
          \A j \in DOMAIN list : list[j].at < list[k].at \/ (list[j].at = list[k].at /\ j <= k)
    BY <1>1, <1>7, <1>8
  <1> QED
    BY <1>9 DEF Mark!Newest

\* Without the row of m the rows after it move up.
LEMMA WithoutSays ==
    ASSUME NEW list \in Seq(Pins), NEW m, \E i \in DOMAIN list : list[i].msg = m
    PROVE  \E k \in 1 .. Len(list) :
             /\ list[k].msg = m
             /\ Mark!Without(list, m) \in Seq(Pins)
             /\ Len(Mark!Without(list, m)) = Len(list) - 1
             /\ \A i \in 1 .. Len(list) - 1 :
                  Mark!Without(list, m)[i] = IF i < k THEN list[i] ELSE list[i + 1]
  <1> DEFINE k == CHOOSE i \in DOMAIN list : list[i].msg = m
             n == Len(list)
             a == SubSeq(list, 1, k - 1)
             b == SubSeq(list, k + 1, n)
  <1>1. k \in 1 .. n /\ list[k].msg = m /\ n \in Nat
    OBVIOUS
  <1>2. Mark!Without(list, m) = a \o b
    BY DEF Mark!Without, Mark!RemoveAt
  <1> HIDE DEF k
  <1>3. /\ a \in Seq(Pins) /\ Len(a) = k - 1
        /\ \A i \in 1 .. k - 1 : a[i] = list[i]
    BY <1>1, SubSeqProperties
  <1>4. /\ b \in Seq(Pins) /\ Len(b) = n - k
        /\ \A i \in 1 .. n - k : b[i] = list[k + i]
    BY <1>1, SubSeqProperties
  <1> HIDE DEF a, b
  <1>5. /\ a \o b \in Seq(Pins) /\ Len(a \o b) = Len(a) + Len(b)
        /\ \A i \in 1 .. Len(a) + Len(b) : (a \o b)[i] = IF i <= Len(a) THEN a[i] ELSE b[i - Len(a)]
    BY <1>3, <1>4, ConcatProperties
  <1>6. ASSUME NEW i \in 1 .. n - 1
        PROVE  (a \o b)[i] = IF i < k THEN list[i] ELSE list[i + 1]
    <2>1. (a \o b)[i] = IF i <= k - 1 THEN a[i] ELSE b[i - (k - 1)]
      BY <1>1, <1>3, <1>4, <1>5
    <2>2. CASE i < k
      BY <1>1, <1>3, <2>1, <2>2
    <2>3. CASE ~(i < k)
      <3>1. i - (k - 1) \in 1 .. n - k /\ k + (i - (k - 1)) = i + 1
        BY <1>1, <2>3
      <3>2. b[i - (k - 1)] = list[i + 1]
        BY <1>4, <3>1
      <3> QED
        BY <1>1, <2>1, <2>3, <3>2
    <2> QED
      BY <2>2, <2>3
  <1>7. Mark!Without(list, m) \in Seq(Pins) /\ Len(Mark!Without(list, m)) = n - 1
    BY <1>1, <1>2, <1>3, <1>4, <1>5
  <1>8. \A i \in 1 .. n - 1 : Mark!Without(list, m)[i] = IF i < k THEN list[i] ELSE list[i + 1]
    BY <1>2, <1>6
  <1> QED
    BY <1>1, <1>7, <1>8

-----------------------------------------------------------------------------
(* What the announcements say.                                               *)

\* What was said before stays said; of its message the new announcement decides.
LEMMA OneMoreSaid ==
    ASSUME NEW A, audit \in Seq(A), NEW m, NEW p \in BOOLEAN,
           audit' = Append(audit, <<m, p>>)
    PROVE  /\ \A n \in 0 .. Len(audit) : \A k : Mark!SaidPinned(n, k)' <=> Mark!SaidPinned(n, k)
           /\ \A n \in Nat : \A k : n = Len(audit) + 1 =>
                (Mark!SaidPinned(n, k)' <=> IF k = m THEN p ELSE Mark!SaidPinned(n - 1, k))
  <1> DEFINE L == Len(audit)
  <1>1. L \in Nat /\ \A i \in 1 .. L : audit'[i] = audit[i]
    OBVIOUS
  <1>2. /\ audit'[L + 1] = <<m, p>> /\ audit'[L + 1][1] = m
        /\ \A k : audit'[L + 1] = <<k, TRUE>> <=> k = m /\ p = TRUE
    <2>1. audit'[L + 1] = <<m, p>>
      OBVIOUS
    <2> HIDE DEF L
    <2>2. \A k : audit'[L + 1] = <<k, TRUE>> <=> k = m /\ p = TRUE
      <3> TAKE k
      <3>1. <<m, p>> = <<k, TRUE>> <=> k = m /\ p = TRUE
        OBVIOUS
      <3> QED
        BY <2>1, <3>1
    <2>3. audit'[L + 1][1] = m
      <3>1. <<m, p>>[1] = m
        OBVIOUS
      <3> QED
        BY <2>1, <3>1
    <2> QED
      BY <2>1, <2>2, <2>3
  <1> HIDE DEF L
  <1>3. \A n \in 0 .. L : \A k : Mark!SaidPinned(n, k)' <=> Mark!SaidPinned(n, k)
    <2> TAKE n \in 0 .. L
    <2> TAKE k
    <2>1. \A i \in 1 .. n : i \in 1 .. L /\ \A j \in i + 1 .. n : j \in 1 .. L
      BY <1>1
    <2> QED
      BY <1>1, <2>1 DEF Mark!SaidPinned
  <1>4. ASSUME NEW n \in Nat, NEW k, n = L + 1, k = m
        PROVE  Mark!SaidPinned(n, k)' <=> p
    <2>1. ASSUME p PROVE Mark!SaidPinned(n, k)'
      <3>1. audit'[n] = <<k, TRUE>>
        BY <1>2, <1>4, <2>1
      <3>2. n \in 1 .. n /\ \A j \in n + 1 .. n : FALSE
        BY <1>1, <1>4
      <3> QED
        BY <3>1, <3>2 DEF Mark!SaidPinned
    <2>2. ASSUME NEW i \in 1 .. n, audit'[i] = <<k, TRUE>>,
                 \A j \in i + 1 .. n : audit'[j][1] # k
          PROVE  p
      <3>1. CASE i = n
        BY <1>2, <1>4, <2>2, <3>1
      <3>2. CASE i # n
        <4>1. n \in i + 1 .. n
          BY <1>1, <1>4, <3>2
        <4>2. audit'[n][1] # k
          BY <2>2, <4>1
        <4> QED
          BY <1>2, <1>4, <4>2
      <3> QED
        BY <3>1, <3>2
    <2> QED
      BY <2>1, <2>2 DEF Mark!SaidPinned
  <1>5. ASSUME NEW n \in Nat, NEW k, n = L + 1, k # m
        PROVE  Mark!SaidPinned(n, k)' <=> Mark!SaidPinned(n - 1, k)
    <2>1. ASSUME NEW i \in 1 .. n, audit'[i] = <<k, TRUE>>,
                 \A j \in i + 1 .. n : audit'[j][1] # k
          PROVE  Mark!SaidPinned(n - 1, k)
      <3>1. i # n
        BY <1>2, <1>5, <2>1
      <3>2. i \in 1 .. L /\ \A j \in i + 1 .. L : j \in i + 1 .. n /\ j \in 1 .. L
        BY <1>1, <1>5, <3>1
      <3>3. audit[i] = <<k, TRUE>>
        BY <1>1, <2>1, <3>2
      <3>4. \A j \in i + 1 .. L : audit[j][1] # k
        <4> TAKE j \in i + 1 .. L
        <4>1. audit'[j] = audit[j] /\ audit'[j][1] # k
          BY <1>1, <2>1, <3>2
        <4> QED
          BY <4>1
      <3>5. n - 1 = L
        BY <1>1, <1>5
      <3> QED
        BY <3>2, <3>3, <3>4, <3>5 DEF Mark!SaidPinned
    <2>2. ASSUME NEW i \in 1 .. n - 1, audit[i] = <<k, TRUE>>,
                 \A j \in i + 1 .. n - 1 : audit[j][1] # k
          PROVE  Mark!SaidPinned(n, k)'
      <3>1. i \in 1 .. L /\ n - 1 = L /\ i \in 1 .. n
        BY <1>1, <1>5
      <3>2. audit'[i] = <<k, TRUE>>
        BY <1>1, <2>2, <3>1
      <3>3. \A j \in i + 1 .. n : audit'[j][1] # k
        <4> TAKE j \in i + 1 .. n
        <4>1. CASE j = n
          BY <1>2, <1>5, <4>1
        <4>2. CASE j # n
          <5>1. j \in i + 1 .. n - 1 /\ j \in 1 .. L
            BY <1>1, <1>5, <3>1, <4>2
          <5>2. audit'[j] = audit[j] /\ audit[j][1] # k
            BY <1>1, <2>2, <5>1
          <5> QED
            BY <5>2
        <4> QED
          BY <4>1, <4>2
      <3> QED
        BY <3>1, <3>2, <3>3 DEF Mark!SaidPinned
    <2> QED
      BY <2>1, <2>2 DEF Mark!SaidPinned
  <1> QED
    BY <1>3, <1>4, <1>5 DEF L

-----------------------------------------------------------------------------
(* The beginning, and what the invariant says.                               *)

LEMMA MarksBegin == Init => MarkInv
  <1> SUFFICES ASSUME Init PROVE MarkInv
    OBVIOUS
  <1> USE MarksAssumed, IdleMarkRequest DEF Init, Mark!Init
  <1>1. MarkTypes
    <2>1. audit \in Seq(Messages \X BOOLEAN) /\ pins \in Seq(Pins)
      OBVIOUS
    <2>2. markRequest \in [Requests -> MarkRequests] /\ sent \in [Users -> Lists]
      OBVIOUS
    <2> QED
      BY <2>1, <2>2 DEF MarkTypes
  <1>2. Len(audit) = 0 /\ DOMAIN audit = {} /\ DOMAIN pins = {}
    OBVIOUS
  <1>3. \A q \in Requests : markRequest[q].pc = "idle"
    OBVIOUS
  <1>4. MarkRequestsOK
    BY <1>3 DEF MarkRequestsOK, MarkRequestOK
  <1>5. AuditIsCounted
    <2>1. Waiting = {}
      BY <1>3 DEF Waiting
    <2> QED
      BY <1>2, <2>1, FS_EmptySet DEF AuditIsCounted
  <1>6. PinnedOnce /\ cached = Mark!Newest(pins)
    BY <1>2 DEF PinnedOnce, Mark!Newest
  <1>7. Mark!Pinned = {} /\ \A k : ~Mark!SaidPinned(0, k)
    BY <1>2 DEF Mark!Pinned, Mark!SaidPinned
  <1>8. Mark!AnnouncementsAreChanges
    BY <1>2, <1>7 DEF Mark!AnnouncementsAreChanges
  <1>9. ListsAreTold
    <2> SUFFICES ASSUME NEW u \in Users
                 PROVE  IsListOf(u, sent[u]) /\ sent[u].change = Len(audit)
      BY DEF ListsAreTold
    <2>1. sent[u].change = 0 /\ sent[u].list = {}
      OBVIOUS
    <2>2. Mark!Visible(u, sent[u].list) = Mark!Visible(u, Mark!Pinned)
      BY <1>7, <2>1
    <2> QED
      BY <1>2, <2>1, <2>2 DEF IsListOf
  <1> QED
    BY <1>1, <1>4, <1>5, <1>6, <1>8, <1>9 DEF MarkInv

\* As many messages are pinned as there are rows.
LEMMA PinsAreCounted ==
    ASSUME pins \in Seq(Pins), PinnedOnce
    PROVE  Mark!Cardinality(Mark!Pinned) = Len(pins)
  <1> DEFINE n == Len(pins)
             F == [i \in 1 .. n |-> pins[i].msg]
  <1>1. n \in Nat /\ DOMAIN pins = 1 .. n
    OBVIOUS
  <1>2. F \in Bijection(1 .. n, Mark!Pinned)
    BY <1>1 DEF PinnedOnce, Mark!Pinned, Bijection, Injection, Surjection, IsInjective
  <1>3. ExistsBijection(1 .. n, Mark!Pinned)
    BY <1>2 DEF ExistsBijection
  <1>4. Cardinality(Mark!Pinned) = n
    <2> HIDE DEF n
    <2> QED
      BY <1>1, <1>3, FS_CountingElements
  <1>5. Mark!Cardinality(Mark!Pinned) = Cardinality(Mark!Pinned)
    BY DEF Mark!Cardinality, Cardinality
  <1> QED
    BY <1>4, <1>5

LEMMA MarkInvSays == MarkInv => MarksHold
  <1> SUFFICES ASSUME MarkInv PROVE MarksHold
    OBVIOUS
  <1>1. cached \in Pins \cup {Mark!NoPin}
    <2>1. CASE pins = <<>>
      BY <2>1 DEF MarkInv, Mark!Newest
    <2>2. CASE pins # <<>>
      <3>1. PICK i \in DOMAIN pins : Mark!Newest(pins) = pins[i]
        BY <2>2, NewestIsThere DEF MarkInv, MarkTypes
      <3>2. pins[i] \in Pins
        BY <3>1 DEF MarkInv, MarkTypes
      <3> QED
        BY <3>1, <3>2 DEF MarkInv
    <2> QED
      BY <2>1, <2>2
  <1>2. Len(audit) <= arrived
    <2>1. Cardinality(Waiting) \in Nat
      BY FS_CardinalityType DEF MarkInv, AuditIsCounted
    <2>2. Len(audit) \in Nat /\ arrived \in Nat
      BY MarksAssumed DEF MarkInv, MarkTypes
    <2> HIDE DEF Waiting
    <2> QED
      BY <2>1, <2>2 DEF MarkInv, AuditIsCounted
  <1>3. Mark!TypeOK
    BY <1>1, <1>2 DEF MarkInv, MarkTypes, Pins, Mark!TypeOK
  <1>4. Mark!CachedIsNewest
    BY PinsAreCounted DEF MarkInv, MarkTypes, Mark!CachedIsNewest
  <1>5. Mark!ShownIsPinned
    <2> SUFFICES ASSUME \A q \in Requests : markRequest[q] = Mark!Idle,
                        NEW u \in Users \ overtaken
                 PROVE  Mark!Visible(u, sent[u].list) = Mark!Visible(u, Mark!Pinned)
      BY DEF Mark!ShownIsPinned
    <2>1. ~\E q \in Requests : WillTell(markRequest[q], u)
      BY IdleMarkRequest DEF WillTell
    <2>2. sent[u].change = Len(audit) /\ IsListOf(u, sent[u])
      BY <2>1 DEF MarkInv, ListsAreTold
    <2> QED
      BY <2>2 DEF IsListOf
  <1> QED
    BY <1>3, <1>4, <1>5 DEF MarkInv, MarksHold

-----------------------------------------------------------------------------
(* One request goes on.                                                      *)

\* A list that showed the newest pins still does when messages are taken away.
LEMMA ListsStay ==
    ASSUME NEW u \in Users, NEW x, IsListOf(u, x),
           pins' = pins, audit' = audit, recalled \subseteq recalled',
           hidden[u] \subseteq hidden'[u]
    PROVE  IsListOf(u, x)'
  <1>1. Mark!Pinned' = Mark!Pinned
    BY DEF Mark!Pinned
  <1>2. ASSUME NEW S, NEW T, Mark!Visible(u, S) = Mark!Visible(u, T)
        PROVE  S \ (recalled' \cup hidden'[u]) = T \ (recalled' \cup hidden'[u])
    BY <1>2 DEF Mark!Visible
  <1>3. Mark!Visible(u, x.list)' = x.list \ (recalled' \cup hidden'[u])
    BY DEF Mark!Visible
  <1>4. Mark!Visible(u, Mark!Pinned)' = Mark!Pinned \ (recalled' \cup hidden'[u])
    BY <1>1 DEF Mark!Visible
  <1>5. x.change = Len(audit) => Mark!Visible(u, x.list)' = Mark!Visible(u, Mark!Pinned)'
    BY <1>2, <1>3, <1>4 DEF IsListOf
  <1> QED
    BY <1>5 DEF IsListOf

\* What the announcements say does not change with anything else.
LEMMA AnnouncementsStay ==
    ASSUME Mark!AnnouncementsAreChanges, pins' = pins, audit' = audit
    PROVE  Mark!AnnouncementsAreChanges'
  <1>1. \A n, k : Mark!SaidPinned(n, k)' <=> Mark!SaidPinned(n, k)
    BY DEF Mark!SaidPinned
  <1>2. Mark!Pinned' = Mark!Pinned
    BY DEF Mark!Pinned
  <1>3. ASSUME NEW n \in DOMAIN audit, audit[n][2] <=> ~Mark!SaidPinned(n - 1, audit[n][1])
        PROVE  (audit[n][2] <=> ~Mark!SaidPinned(n - 1, audit[n][1]))'
    BY <1>1, <1>3 DEF Mark!SaidPinned
  <1>4. ASSUME NEW m \in Messages, m \in Mark!Pinned <=> Mark!SaidPinned(Len(audit), m)
        PROVE  (m \in Mark!Pinned <=> Mark!SaidPinned(Len(audit), m))'
    BY <1>1, <1>2, <1>4 DEF Mark!SaidPinned
  <1> QED
    BY <1>3, <1>4 DEF Mark!AnnouncementsAreChanges

\* The waiting requests, when request q becomes y.
LEMMA WaitingMoves ==
    ASSUME NEW q \in Requests, NEW y, MarkTypes, IsFiniteSet(Waiting),
           markRequest' = [markRequest EXCEPT ![q] = y]
    PROVE  /\ IsFiniteSet(Waiting') /\ Cardinality(Waiting) \in Nat
           /\ y.pc = "wait" /\ markRequest[q].pc # "wait" =>
                Cardinality(Waiting') = Cardinality(Waiting) + 1
           /\ y.pc # "wait" /\ markRequest[q].pc = "wait" =>
                Cardinality(Waiting') = Cardinality(Waiting) - 1
           /\ (y.pc = "wait") = (markRequest[q].pc = "wait") =>
                Cardinality(Waiting') = Cardinality(Waiting)
  <1>1. /\ markRequest'[q] = y
        /\ \A p \in Requests : p # q => markRequest'[p] = markRequest[p]
    BY DEF MarkTypes
  <1>2. q \in Waiting <=> markRequest[q].pc = "wait"
    BY DEF Waiting
  <1>3. Waiting' = IF y.pc = "wait" THEN Waiting \cup {q} ELSE Waiting \ {q}
    BY <1>1 DEF Waiting
  <1> HIDE DEF Waiting
  <1>4. Cardinality(Waiting) \in Nat
    BY FS_CardinalityType
  <1>5. /\ IsFiniteSet(Waiting \cup {q})
        /\ Cardinality(Waiting \cup {q}) =
             IF q \in Waiting THEN Cardinality(Waiting) ELSE Cardinality(Waiting) + 1
    BY FS_AddElement
  <1>6. /\ IsFiniteSet(Waiting \ {q})
        /\ Cardinality(Waiting \ {q}) =
             IF q \in Waiting THEN Cardinality(Waiting) - 1 ELSE Cardinality(Waiting)
    BY FS_RemoveElement
  <1>7. CASE y.pc = "wait"
    BY <1>2, <1>3, <1>4, <1>5, <1>7
  <1>8. CASE y.pc # "wait"
    BY <1>2, <1>3, <1>4, <1>6, <1>8
  <1> QED
    BY <1>7, <1>8

\* What a request does that announces nothing and sends nothing.
LEMMA MarkRequestGoesOn ==
    ASSUME MarkInv, NEW q \in Requests, NEW y \in MarkRequests,
           markRequest' = [markRequest EXCEPT ![q] = y],
           UNCHANGED <<now, pins, cached, scenario, audit, sent, overtaken>>,
           reactions' \subseteq Messages \X Users,
           recalled \subseteq recalled', recalled' \subseteq Messages,
           hidden' \in [Users -> SUBSET Messages],
           \A u \in Users : hidden[u] \subseteq hidden'[u],
           arrived' \in 0 .. MaxArrived,
           arrived' = IF y.pc = "wait" THEN arrived + 1 ELSE arrived,
           y.pc = "wait" => markRequest[q].pc # "wait",
           MarkRequestOK(y),
           \A u \in Users : WillTell(markRequest[q], u) => WillTell(y, u)
    PROVE  MarkInv'
  <1>1. /\ markRequest'[q] = y
        /\ \A p \in Requests : p # q => markRequest'[p] = markRequest[p]
    BY DEF MarkInv, MarkTypes
  <1>2. MarkTypes'
    BY DEF MarkInv, MarkTypes
  <1>3. \A u \in Users : \A x : IsListOf(u, x) => IsListOf(u, x)'
    BY ListsStay
  <1>4. \A x : MarkRequestOK(x) => MarkRequestOK(x)'
    BY <1>3 DEF MarkRequestOK
  <1>5. MarkRequestsOK'
    <2> SUFFICES ASSUME NEW p \in Requests PROVE MarkRequestOK(markRequest[p])'
      BY DEF MarkRequestsOK
    <2> DEFINE z == markRequest'[p]
    <2>1. MarkRequestOK(z)
      BY <1>1 DEF MarkInv, MarkRequestsOK
    <2>2. z.pc = "send" => z.user \in Users /\ IsListOf(z.user, z.seen)
      BY <2>1 DEF MarkRequestOK
    <2>3. z.pc = "send" =>
            /\ z.seen.change <= Len(audit')
            /\ z.seen.change = Len(audit') =>
                 z.seen.list \ (recalled' \cup hidden'[z.user]) = Mark!Pinned' \ (recalled' \cup hidden'[z.user])
      <3>1. \A u \in Users : \A x : IsListOf(u, x) =>
              /\ x.change <= Len(audit')
              /\ x.change = Len(audit') =>
                   x.list \ (recalled' \cup hidden'[u]) = Mark!Pinned' \ (recalled' \cup hidden'[u])
        BY <1>3 DEF IsListOf, Mark!Visible
      <3> QED
        BY <2>2, <3>1
    <2> QED
      BY <2>1, <2>3 DEF MarkRequestOK, IsListOf, Mark!Visible
  <1>6. AuditIsCounted'
    <2>1. Len(audit) \in Nat /\ arrived \in Nat
      BY MarksAssumed DEF MarkInv, MarkTypes
    <2>2. /\ IsFiniteSet(Waiting') /\ Cardinality(Waiting) \in Nat
          /\ \/ y.pc = "wait" /\ Cardinality(Waiting') = Cardinality(Waiting) + 1
             \/ y.pc # "wait" /\ Cardinality(Waiting') = Cardinality(Waiting)
             \/ y.pc # "wait" /\ Cardinality(Waiting') = Cardinality(Waiting) - 1
      BY WaitingMoves DEF MarkInv, AuditIsCounted
    <2>3. Len(audit) + Cardinality(Waiting) <= arrived
      BY DEF MarkInv, AuditIsCounted
    <2> HIDE DEF Waiting
    <2>4. Len(audit) + Cardinality(Waiting') <= arrived'
      BY <2>1, <2>2, <2>3
    <2> QED
      BY <2>2, <2>4 DEF AuditIsCounted
  <1>7. PinnedOnce' /\ (cached = Mark!Newest(pins))'
    BY DEF MarkInv, PinnedOnce, Mark!Newest, Mark!NoPin
  <1>8. Mark!AnnouncementsAreChanges'
    BY AnnouncementsStay DEF MarkInv
  <1>9. ListsAreTold'
    <2> SUFFICES ASSUME NEW u \in Users
                 PROVE  /\ IsListOf(u, sent[u])'
                        /\ \/ u \in overtaken' \/ sent'[u].change = Len(audit')
                           \/ \E p \in Requests : WillTell(markRequest[p], u)'
      BY DEF ListsAreTold
    <2>1. IsListOf(u, sent[u])'
      <3>1. IsListOf(u, sent[u])
        BY DEF MarkInv, ListsAreTold
      <3> QED
        BY <3>1, ListsStay DEF IsListOf, Mark!Visible
    <2>2. ASSUME NEW p \in Requests, WillTell(markRequest[p], u)
          PROVE  WillTell(markRequest[p], u)'
      BY <1>1, <2>2 DEF WillTell
    <2>3. \/ u \in overtaken \/ sent[u].change = Len(audit)
          \/ \E p \in Requests : WillTell(markRequest[p], u)
      BY DEF MarkInv, ListsAreTold
    <2> QED
      BY <2>1, <2>2, <2>3
  <1> QED
    BY <1>2, <1>5, <1>6, <1>7, <1>8, <1>9 DEF MarkInv

-----------------------------------------------------------------------------
(* The list of pins is changed, and the change is announced.                 *)

LEMMA ChangeIsAnnounced ==
    ASSUME MarkInv, NEW q \in Requests, markRequest[q].pc = "wait",
           NEW m \in Messages, NEW p \in BOOLEAN, NEW list \in Seq(Pins),
           Mark!ChangePins(q, list, m, p),
           m \in Mark!Pinned <=> ~p,
           \A i, j \in DOMAIN list : list[i].msg = list[j].msg => i = j,
           \A k \in Messages :
             (\E i \in DOMAIN list : list[i].msg = k) <=> IF k = m THEN p ELSE k \in Mark!Pinned
    PROVE  MarkInv'
  <1> DEFINE L == Len(audit)
             y == [Mark!Idle EXCEPT !.pc = "tell", !.todo = Users]
  <1>1. /\ pins' = list /\ cached' = Mark!Newest(list)
        /\ audit' = Append(audit, <<m, p>>)
        /\ markRequest' = [markRequest EXCEPT ![q] = y]
        /\ UNCHANGED <<now, reactions, recalled, hidden, sent, overtaken, scenario, arrived>>
    BY DEF Mark!ChangePins
  <1>2. y \in MarkRequests /\ y.pc = "tell" /\ y.todo = Users
    BY IdleMarkRequest DEF MarkRequests
  <1> HIDE DEF y
  <1>3. /\ markRequest'[q] = y
        /\ \A r \in Requests : r # q => markRequest'[r] = markRequest[r]
    BY <1>1 DEF MarkInv, MarkTypes
  <1>4. audit \in Seq(Messages \X BOOLEAN)
    BY DEF MarkInv, MarkTypes
  <1>5. /\ L \in Nat /\ Len(audit') = L + 1 /\ audit'[L + 1] = <<m, p>>
        /\ audit' \in Seq(Messages \X BOOLEAN)
        /\ \A i \in 1 .. L : audit'[i] = audit[i]
        /\ DOMAIN audit = 1 .. L /\ DOMAIN audit' = 1 .. L + 1
    BY <1>1, <1>4
  <1>6. /\ \A n \in 0 .. L : \A k : Mark!SaidPinned(n, k)' <=> Mark!SaidPinned(n, k)
        /\ \A n \in Nat : \A k : n = L + 1 =>
             (Mark!SaidPinned(n, k)' <=> IF k = m THEN p ELSE Mark!SaidPinned(n - 1, k))
    BY <1>1, <1>4, OneMoreSaid
  <1>7. MarkTypes'
    BY <1>1, <1>2, <1>5 DEF MarkInv, MarkTypes
  <1> HIDE DEF L
  <1>8. MarkRequestsOK'
    <2> SUFFICES ASSUME NEW r \in Requests PROVE MarkRequestOK(markRequest[r])'
      BY DEF MarkRequestsOK
    <2> DEFINE z == markRequest'[r]
    <2>1. CASE r = q
      BY <1>2, <1>3, <2>1 DEF MarkRequestOK
    <2>2. CASE r # q
      <3>1. MarkRequestOK(z)
        BY <1>3, <2>2 DEF MarkInv, MarkRequestsOK
      <3>2. z \in MarkRequests
        BY <1>3, <2>2 DEF MarkInv, MarkTypes
      <3>3. z.pc = "send" => z.seen.change <= L /\ z.seen.change \in Nat
        BY <3>1, <3>2 DEF MarkRequestOK, IsListOf, MarkRequests, Lists, L
      <3>4. z.pc = "send" => z.seen.change <= Len(audit') /\ z.seen.change # Len(audit')
        BY <1>5, <3>3
      <3> QED
        BY <3>1, <3>4 DEF MarkRequestOK, IsListOf
    <2> QED
      BY <2>1, <2>2
  <1>9. AuditIsCounted'
    <2>1. /\ IsFiniteSet(Waiting') /\ Cardinality(Waiting) \in Nat
          /\ Cardinality(Waiting') = Cardinality(Waiting) - 1
      BY <1>1, <1>2, WaitingMoves DEF MarkInv, AuditIsCounted
    <2>2. L + Cardinality(Waiting) <= arrived /\ arrived' = arrived /\ arrived \in Nat
      BY <1>1, MarksAssumed DEF MarkInv, MarkTypes, AuditIsCounted, L
    <2> HIDE DEF Waiting
    <2>3. Len(audit') + Cardinality(Waiting') <= arrived'
      BY <1>5, <2>1, <2>2
    <2> QED
      BY <2>1, <2>3 DEF AuditIsCounted
  <1>10. PinnedOnce' /\ (cached = Mark!Newest(pins))'
    BY <1>1 DEF PinnedOnce, Mark!Newest, Mark!NoPin
  <1>11. Mark!AnnouncementsAreChanges'
    <2>1. \A k \in Messages : k \in Mark!Pinned <=> Mark!SaidPinned(L, k)
      BY DEF MarkInv, Mark!AnnouncementsAreChanges, L
    <2>2. \A n \in 1 .. L : audit[n][2] <=> ~Mark!SaidPinned(n - 1, audit[n][1])
      BY <1>5 DEF MarkInv, Mark!AnnouncementsAreChanges
    <2>3. \A k \in Messages : k \in Mark!Pinned' <=> IF k = m THEN p ELSE k \in Mark!Pinned
      <3>1. Mark!Pinned' = {list[i].msg : i \in DOMAIN list}
        BY <1>1 DEF Mark!Pinned
      <3> QED
        BY <3>1
    <2>4. ASSUME NEW k \in Messages
          PROVE  k \in Mark!Pinned' <=> (Mark!SaidPinned(Len(audit), k))'
      <3>1. \A n \in Nat : n = L + 1 =>
              (Mark!SaidPinned(n, k)' <=> IF k = m THEN p ELSE Mark!SaidPinned(n - 1, k))
        BY <1>6
      <3>2. \A n \in Nat : n = L + 1 => (k \in Mark!Pinned' <=> Mark!SaidPinned(n, k)')
        <4> TAKE n \in Nat
        <4>1. n = L + 1 => n - 1 = L
          BY <1>5
        <4> QED
          BY <2>1, <2>3, <3>1, <4>1
      <3> QED
        <4>1. PICK n \in Nat : n = L + 1
          BY <1>5
        <4>2. n = Len(audit')
          BY <1>5, <4>1
        <4>3. k \in Mark!Pinned' <=> Mark!SaidPinned(n, k)'
          BY <3>2, <4>1
        <4> QED
          BY <4>2, <4>3 DEF Mark!SaidPinned
    <2>5. ASSUME NEW n \in 1 .. L + 1
          PROVE  (audit[n][2] <=> ~Mark!SaidPinned(n - 1, audit[n][1]))'
      <3>1. n - 1 \in 0 .. L
        BY <1>5
      <3>2. ASSUME NEW k, audit'[n][1] = k, audit'[n][2] <=> ~Mark!SaidPinned(n - 1, k)
            PROVE  (audit[n][2] <=> ~Mark!SaidPinned(n - 1, audit[n][1]))'
        <4>1. audit'[n][2] <=> ~(Mark!SaidPinned(n - 1, k)')
          BY <1>6, <3>1, <3>2
        <4> QED
          BY <3>2, <4>1 DEF Mark!SaidPinned
      <3>3. CASE n \in 1 .. L
        BY <1>5, <2>2, <3>2, <3>3
      <3>4. CASE n = L + 1
        <4>1. n - 1 = L /\ audit'[n] = <<m, p>>
          BY <1>5, <3>4
        <4>2. audit'[n][1] = m /\ audit'[n][2] = p
          BY <4>1
        <4>3. p <=> ~Mark!SaidPinned(n - 1, m)
          BY <2>1, <4>1
        <4> QED
          BY <3>2, <4>2, <4>3
      <3> QED
        BY <1>5, <3>3, <3>4
    <2> QED
      BY <1>5, <2>4, <2>5 DEF Mark!AnnouncementsAreChanges
  <1>12. ListsAreTold'
    <2> SUFFICES ASSUME NEW u \in Users
                 PROVE  IsListOf(u, sent[u])' /\ WillTell(markRequest[q], u)'
      BY DEF ListsAreTold
    <2>1. sent'[u].change <= L /\ sent'[u].change \in Nat
      BY <1>1 DEF MarkInv, MarkTypes, Lists, ListsAreTold, IsListOf, L
    <2>2. sent'[u].change <= Len(audit') /\ sent'[u].change # Len(audit')
      BY <1>5, <2>1
    <2>3. WillTell(markRequest[q], u)'
      BY <1>2, <1>3 DEF WillTell
    <2> QED
      BY <2>2, <2>3 DEF IsListOf
  <1> QED
    BY <1>7, <1>8, <1>9, <1>10, <1>11, <1>12 DEF MarkInv

-----------------------------------------------------------------------------
(* A list is sent.                                                           *)

LEMMA SendKeeps ==
    ASSUME MarkInv, NEW q \in Requests, Mark!Send(q)
    PROVE  MarkInv'
  <1> DEFINE r == markRequest[q]
             y == IF r.todo = {} THEN Mark!Idle ELSE [r EXCEPT !.pc = "tell"]
             c == r.seen.change
             L == Len(audit)
  <1>1. /\ r.pc = "send"
        /\ sent' = [sent EXCEPT ![r.user] = r.seen]
        /\ overtaken' = IF c < sent[r.user].change THEN overtaken \cup {r.user} ELSE overtaken
        /\ markRequest' = [markRequest EXCEPT ![q] = y]
        /\ UNCHANGED <<now, pins, cached, reactions, recalled, hidden, audit, scenario, arrived>>
    BY DEF Mark!Send
  <1>2. r \in MarkRequests
    BY DEF MarkInv, MarkTypes
  <1>3. /\ y \in MarkRequests /\ y.pc \in {"idle", "tell"}
        /\ \A u \in Users : u \in r.todo => y.pc = "tell" /\ u \in y.todo
    BY <1>2, IdleMarkRequest DEF MarkRequests
  <1>4. r.user \in Users /\ IsListOf(r.user, r.seen) /\ r.seen \in Lists
    BY <1>1, <1>2 DEF MarkInv, MarkRequestsOK, MarkRequestOK, MarkRequests
  <1>5. c \in Nat /\ c <= L /\ L \in Nat
    BY <1>4 DEF Lists, IsListOf, MarkInv, MarkTypes
  <1> HIDE DEF y
  <1>6. /\ markRequest'[q] = y
        /\ \A p \in Requests : p # q => markRequest'[p] = markRequest[p]
    BY <1>1 DEF MarkInv, MarkTypes
  <1>7. MarkTypes'
    BY <1>1, <1>3, <1>4 DEF MarkInv, MarkTypes
  <1>8. \A u \in Users : \A x : IsListOf(u, x)' <=> IsListOf(u, x)
    BY <1>1 DEF IsListOf, Mark!Visible, Mark!Pinned
  <1>9. MarkRequestsOK'
    <2> SUFFICES ASSUME NEW p \in Requests PROVE MarkRequestOK(markRequest[p])'
      BY DEF MarkRequestsOK
    <2>1. CASE p = q
      BY <1>3, <1>6, <2>1 DEF MarkRequestOK
    <2>2. CASE p # q
      <3>1. MarkRequestOK(markRequest[p]) /\ markRequest'[p] = markRequest[p]
        BY <1>6, <2>2 DEF MarkInv, MarkRequestsOK
      <3> QED
        BY <1>1, <3>1 DEF MarkRequestOK, IsListOf, Mark!Visible, Mark!Pinned
    <2> QED
      BY <2>1, <2>2
  <1>10. AuditIsCounted'
    <2>1. IsFiniteSet(Waiting') /\ Cardinality(Waiting') = Cardinality(Waiting)
      BY <1>1, <1>3, WaitingMoves DEF MarkInv, AuditIsCounted
    <2> HIDE DEF Waiting
    <2> QED
      BY <1>1, <2>1 DEF MarkInv, AuditIsCounted
  <1>11. PinnedOnce' /\ (cached = Mark!Newest(pins))'
    BY <1>1 DEF MarkInv, PinnedOnce, Mark!Newest, Mark!NoPin
  <1>12. Mark!AnnouncementsAreChanges'
    BY <1>1, AnnouncementsStay DEF MarkInv
  <1>13. ListsAreTold'
    <2> SUFFICES ASSUME NEW u \in Users
                 PROVE  /\ IsListOf(u, sent[u])'
                        /\ \/ u \in overtaken' \/ sent'[u].change = Len(audit')
                           \/ \E p \in Requests : WillTell(markRequest[p], u)'
      BY DEF ListsAreTold
    <2>1. IsListOf(u, sent[u]) /\ sent[u] \in Lists
      BY DEF MarkInv, MarkTypes, ListsAreTold
    <2>2. sent'[u] = IF u = r.user THEN r.seen ELSE sent[u]
      BY <1>1, <1>4 DEF MarkInv, MarkTypes
    <2>3. IsListOf(u, sent[u])'
      <3>1. CASE u = r.user
        BY <1>1, <1>4, <2>2, <3>1 DEF IsListOf, Mark!Visible, Mark!Pinned
      <3>2. CASE u # r.user
        BY <1>1, <2>1, <2>2, <3>2 DEF IsListOf, Mark!Visible, Mark!Pinned
      <3> QED
        BY <3>1, <3>2
    <2>4. ASSUME NEW p \in Requests, WillTell(markRequest[p], u), p # q
          PROVE  WillTell(markRequest[p], u)'
      <3>1. markRequest'[p] = markRequest[p] /\ audit' = audit
        BY <1>1, <1>6, <2>4
      <3> QED
        BY <2>4, <3>1 DEF WillTell
    <2>5. u \in r.todo => WillTell(markRequest[q], u)'
      BY <1>3, <1>6 DEF WillTell
    <2>6. \/ u \in overtaken \/ sent[u].change = L
          \/ \E p \in Requests : WillTell(markRequest[p], u)
      BY DEF MarkInv, ListsAreTold
    <2>7. WillTell(r, u) => u \in r.todo \/ (u = r.user /\ c = L)
      BY DEF WillTell
    <2>8. sent[u].change \in Nat /\ audit' = audit
      BY <1>1, <2>1 DEF Lists
    <2>9. u = r.user /\ sent[u].change = L => c = L \/ u \in overtaken'
      BY <1>1, <1>5, <2>8
    <2>10. u = r.user => sent'[u].change = c
      BY <2>2
    <2>11. u \in overtaken => u \in overtaken'
      BY <1>1
    <2> HIDE DEF r, c
    <2>12. CASE \E p \in Requests : WillTell(markRequest[p], u)
      <3>1. PICK p \in Requests : WillTell(markRequest[p], u)
        BY <2>12
      <3>2. p = q => WillTell(r, u)
        BY <3>1 DEF r
      <3> QED
        BY <2>3, <2>4, <2>5, <2>7, <2>8, <2>10, <3>1, <3>2
    <2>13. CASE sent[u].change = L
      BY <2>2, <2>3, <2>8, <2>9, <2>10, <2>13
    <2> QED
      BY <2>3, <2>6, <2>11, <2>12, <2>13
  <1> QED
    BY <1>7, <1>9, <1>10, <1>11, <1>12, <1>13 DEF MarkInv

-----------------------------------------------------------------------------
(* The operations.                                                           *)

LEMMA MarkTickKeeps ==
    ASSUME MarkInv, Mark!Tick
    PROVE  MarkInv'
  <1>1. /\ now' = now + 1 /\ now < MaxTime
        /\ UNCHANGED <<pins, cached, reactions, recalled, hidden, markRequest, audit, sent,
                       overtaken, scenario, arrived>>
    BY DEF Mark!Tick
  <1>2. MarkTypes'
    BY <1>1, MarksAssumed DEF MarkInv, MarkTypes
  <1>3. MarkRequestsOK'
    BY <1>1 DEF MarkInv, MarkRequestsOK, MarkRequestOK, IsListOf, Mark!Visible, Mark!Pinned
  <1>4. AuditIsCounted'
    <2>1. Waiting' = Waiting
      BY <1>1 DEF Waiting
    <2> HIDE DEF Waiting
    <2> QED
      BY <1>1, <2>1 DEF MarkInv, AuditIsCounted
  <1>5. PinnedOnce' /\ (cached = Mark!Newest(pins))'
    BY <1>1 DEF MarkInv, PinnedOnce, Mark!Newest, Mark!NoPin
  <1>6. Mark!AnnouncementsAreChanges'
    BY <1>1, AnnouncementsStay DEF MarkInv
  <1>7. ListsAreTold'
    <2> SUFFICES ASSUME NEW u \in Users
                 PROVE  /\ IsListOf(u, sent[u])'
                        /\ \/ u \in overtaken' \/ sent'[u].change = Len(audit')
                           \/ \E p \in Requests : WillTell(markRequest[p], u)'
      BY DEF ListsAreTold
    <2>1. /\ IsListOf(u, sent[u])
          /\ \/ u \in overtaken \/ sent[u].change = Len(audit)
             \/ \E p \in Requests : WillTell(markRequest[p], u)
      BY DEF MarkInv, ListsAreTold
    <2>2. IsListOf(u, sent[u])'
      BY <1>1, <2>1 DEF IsListOf, Mark!Visible, Mark!Pinned
    <2>3. \A p \in Requests : WillTell(markRequest[p], u) => WillTell(markRequest[p], u)'
      BY <1>1 DEF WillTell
    <2> QED
      BY <1>1, <2>1, <2>2, <2>3
  <1> QED
    BY <1>2, <1>3, <1>4, <1>5, <1>6, <1>7 DEF MarkInv

LEMMA MarkArriveKeeps ==
    ASSUME MarkInv, NEW q \in Requests, NEW u \in Users, NEW op \in scenario,
           NEW m \in Messages \cup {NoMessage}, Mark!Arrive(q, u, op, m)
    PROVE  MarkInv'
  <1> DEFINE y == [Mark!Idle EXCEPT !.pc = "wait", !.op = op, !.user = u, !.msg = m,
                                    !.at = IF op = "pin" THEN now ELSE 0]
  <1>1. /\ markRequest[q] = Mark!Idle /\ arrived < MaxArrived
        /\ arrived' = arrived + 1 /\ (m = NoMessage => op = "unpin")
        /\ markRequest' = [markRequest EXCEPT ![q] = y]
        /\ UNCHANGED <<now, pins, cached, reactions, recalled, hidden, audit, sent, overtaken, scenario>>
    BY DEF Mark!Arrive
  <1>2. op \in MarkOps /\ now \in 0 .. MaxTime /\ arrived \in 0 .. MaxArrived
    BY MarksAssumed DEF MarkInv, MarkTypes
  <1>3. y \in MarkRequests /\ y.pc = "wait" /\ y.user = u /\ y.msg = m /\ y.op = op
    BY <1>2, MarksAssumed, IdleMarkRequest DEF MarkRequests, Mark!Idle
  <1> HIDE DEF y
  <1>4. markRequest[q].pc = "idle"
    BY <1>1, IdleMarkRequest
  <1>5. MarkRequestOK(y)
    BY <1>1, <1>3 DEF MarkRequestOK
  <1>6. \A w \in Users : WillTell(markRequest[q], w) => WillTell(y, w)
    BY <1>4 DEF WillTell
  <1>7. /\ reactions' \subseteq Messages \X Users
        /\ recalled \subseteq recalled' /\ recalled' \subseteq Messages
        /\ hidden' \in [Users -> SUBSET Messages]
        /\ \A w \in Users : hidden[w] \subseteq hidden'[w]
    BY <1>1 DEF MarkInv, MarkTypes
  <1>8. /\ arrived' \in 0 .. MaxArrived
        /\ arrived' = IF y.pc = "wait" THEN arrived + 1 ELSE arrived
    BY <1>1, <1>2, <1>3, MarksAssumed
  <1>9. UNCHANGED <<now, pins, cached, scenario, audit, sent, overtaken>>
    BY <1>1
  <1> QED
    BY <1>1, <1>3, <1>4, <1>5, <1>6, <1>7, <1>8, <1>9, MarkRequestGoesOn

\* A request that waited ends, whatever it did to reactions and to what is seen.
LEMMA MarkRequestEnds ==
    ASSUME MarkInv, NEW q \in Requests, markRequest[q].pc = "wait", Mark!Done(q),
           UNCHANGED <<now, pins, cached, scenario, audit, sent, overtaken, arrived>>,
           reactions' \subseteq Messages \X Users,
           recalled \subseteq recalled', recalled' \subseteq Messages,
           hidden' \in [Users -> SUBSET Messages],
           \A u \in Users : hidden[u] \subseteq hidden'[u]
    PROVE  MarkInv'
  <1> DEFINE y == Mark!Idle
  <1>1. markRequest' = [markRequest EXCEPT ![q] = y]
    BY DEF Mark!Done
  <1>2. y \in MarkRequests /\ y.pc = "idle"
    BY IdleMarkRequest
  <1> HIDE DEF y
  <1>3. MarkRequestOK(y) /\ \A u \in Users : WillTell(markRequest[q], u) => WillTell(y, u)
    BY <1>2 DEF MarkRequestOK, WillTell
  <1>4. arrived' \in 0 .. MaxArrived /\ arrived' = IF y.pc = "wait" THEN arrived + 1 ELSE arrived
    BY <1>2 DEF MarkInv, MarkTypes
  <1>5. UNCHANGED <<now, pins, cached, scenario, audit, sent, overtaken>>
    OBVIOUS
  <1>6. y.pc = "wait" => markRequest[q].pc # "wait"
    BY <1>2
  <1> QED
    BY <1>1, <1>2, <1>3, <1>4, <1>5, <1>6, MarkRequestGoesOn

LEMMA MarkRefuseKeeps ==
    ASSUME MarkInv, NEW q \in Requests, markRequest[q].pc = "wait", Mark!Refuse(q)
    PROVE  MarkInv'
  <1>1. /\ Mark!Done(q)
        /\ UNCHANGED <<now, pins, cached, reactions, recalled, hidden, scenario, audit, sent,
                       overtaken, arrived>>
    BY DEF Mark!Refuse
  <1>2. /\ reactions' \subseteq Messages \X Users
        /\ recalled \subseteq recalled' /\ recalled' \subseteq Messages
        /\ hidden' \in [Users -> SUBSET Messages]
        /\ \A u \in Users : hidden[u] \subseteq hidden'[u]
    BY <1>1 DEF MarkInv, MarkTypes
  <1> QED
    BY <1>1, <1>2, MarkRequestEnds

LEMMA PinKeeps ==
    ASSUME MarkInv, NEW q \in Requests, Mark!Pin(q)
    PROVE  MarkInv'
  <1> DEFINE r == markRequest[q]
             row == [msg |-> r.msg, at |-> r.at]
             n == Len(pins)
  <1>1. r.pc = "wait" /\ r \in MarkRequests
    BY DEF Mark!Pin, Mark!Running, MarkInv, MarkTypes
  <1>2. CASE Mark!Refuse(q)
    BY <1>1, <1>2, MarkRefuseKeeps
  <1>3. CASE r.msg \in Mark!Visible(r.user, Messages) /\ r.msg \notin Mark!Pinned
    <2> DEFINE list == Append(pins, row)
    <2>1. Mark!ChangePins(q, list, r.msg, TRUE)
      BY <1>3 DEF Mark!Pin
    <2>2. r.msg \in Messages /\ r.msg \notin Mark!Pinned
      BY <1>3 DEF Mark!Visible
    <2>3. pins \in Seq(Pins) /\ row \in Pins /\ row.msg = r.msg
      BY <1>1, <2>2 DEF MarkInv, MarkTypes, MarkRequests, Pins
    <2> HIDE DEF row
    <2>4. /\ n \in Nat /\ DOMAIN pins = 1 .. n /\ DOMAIN list = 1 .. n + 1 /\ list \in Seq(Pins)
          /\ list[n + 1] = row /\ \A i \in 1 .. n : list[i] = pins[i]
      BY <2>3
    <2> HIDE DEF list, n
    <2>5. \A i \in 1 .. n : pins[i].msg \in Mark!Pinned /\ list[i].msg = pins[i].msg
      BY <2>4 DEF Mark!Pinned
    <2>6. list[n + 1].msg = r.msg
      BY <2>3, <2>4
    <2>7. \A i, j \in 1 .. n : pins[i].msg = pins[j].msg => i = j
      BY <2>4 DEF MarkInv, PinnedOnce
    <2>8. \A i, j \in DOMAIN list : list[i].msg = list[j].msg => i = j
      <3> TAKE i, j \in DOMAIN list
      <3>1. CASE i \in 1 .. n /\ j \in 1 .. n
        BY <2>5, <2>7, <3>1
      <3>2. CASE i = n + 1 /\ j \in 1 .. n
        BY <2>2, <2>5, <2>6, <3>2
      <3>3. CASE i \in 1 .. n /\ j = n + 1
        BY <2>2, <2>5, <2>6, <3>3
      <3> QED
        BY <2>4, <3>1, <3>2, <3>3
    <2>9. \A k \in Messages :
            (\E i \in DOMAIN list : list[i].msg = k) <=> IF k = r.msg THEN TRUE ELSE k \in Mark!Pinned
      <3> TAKE k \in Messages
      <3>1. k \in Mark!Pinned <=> \E i \in 1 .. n : pins[i].msg = k
        BY <2>4 DEF Mark!Pinned
      <3>2. DOMAIN list = 1 .. n + 1 /\ n + 1 \in 1 .. n + 1
        BY <2>4
      <3>3. \A i \in 1 .. n + 1 : i \in 1 .. n \/ i = n + 1
        BY <2>4
      <3>4. \A i \in 1 .. n : i \in 1 .. n + 1
        BY <2>4
      <3> QED
        BY <2>5, <2>6, <3>1, <3>2, <3>3, <3>4
    <2> HIDE DEF r
    <2> QED
      BY <1>1, <2>1, <2>2, <2>4, <2>8, <2>9, ChangeIsAnnounced DEF r
  <1> QED
    BY <1>2, <1>3 DEF Mark!Pin

\* What is pinned are messages.
LEMMA RowsAreOfMessages ==
    ASSUME pins \in Seq(Pins)
    PROVE  Mark!Pinned \subseteq Messages
  <1>1. \A i \in DOMAIN pins : pins[i] \in Pins
    OBVIOUS
  <1>2. \A i \in DOMAIN pins : pins[i].msg \in Messages
    BY <1>1 DEF Pins
  <1> QED
    BY <1>2 DEF Mark!Pinned

LEMMA UnpinKeeps ==
    ASSUME MarkInv, NEW q \in Requests, Mark!Unpin(q)
    PROVE  MarkInv'
  <1> DEFINE r == markRequest[q]
             m == IF r.msg = NoMessage THEN Mark!Newest(pins).msg ELSE r.msg
             n == Len(pins)
  <1>1. r.pc = "wait"
    BY DEF Mark!Unpin, Mark!Running
  <1>2. CASE Mark!Refuse(q)
    BY <1>1, <1>2, MarkRefuseKeeps
  <1>3. CASE m \in Mark!Pinned
    <2> DEFINE list == Mark!Without(pins, m)
    <2>1. Mark!ChangePins(q, list, m, FALSE)
      BY <1>3 DEF Mark!Unpin
    <2> HIDE DEF m
    <2>2. pins \in Seq(Pins) /\ n \in Nat /\ DOMAIN pins = 1 .. n
      BY DEF MarkInv, MarkTypes
    <2>3. \E i \in DOMAIN pins : pins[i].msg = m
      BY <1>3 DEF Mark!Pinned
    <2>4. m \in Messages
      BY <1>3, <2>2, RowsAreOfMessages
    <2>5. PICK k \in 1 .. n :
            /\ pins[k].msg = m
            /\ list \in Seq(Pins) /\ Len(list) = n - 1
            /\ \A i \in 1 .. n - 1 : list[i] = IF i < k THEN pins[i] ELSE pins[i + 1]
      BY <2>2, <2>3, WithoutSays
    <2> HIDE DEF list
    <2>6. DOMAIN list = 1 .. n - 1
      BY <2>5
    <2> HIDE DEF n
    <2> DEFINE old == [i \in 1 .. n - 1 |-> IF i < k THEN i ELSE i + 1]
    <2>7. \A i \in 1 .. n - 1 :
            old[i] \in 1 .. n /\ old[i] # k /\ list[i] = pins[old[i]]
      BY <2>2, <2>5
    <2>8. \A i, j \in 1 .. n - 1 : old[i] = old[j] => i = j
      BY <2>2, <2>5
    <2>9. \A i \in 1 .. n : i # k => \E j \in 1 .. n - 1 : old[j] = i
      <3> TAKE i \in 1 .. n
      <3>1. CASE i < k
        <4>1. i \in 1 .. n - 1 /\ old[i] = i
          BY <2>2, <2>5, <3>1
        <4> QED
          BY <4>1
      <3>2. CASE i > k
        <4>1. i - 1 \in 1 .. n - 1 /\ ~(i - 1 < k)
          BY <2>2, <2>5, <3>2
        <4>2. old[i - 1] = i
          BY <2>2, <4>1
        <4> QED
          BY <4>1, <4>2
      <3> QED
        BY <2>2, <2>5, <3>1, <3>2
    <2> HIDE DEF old
    <2>10. \A i, j \in 1 .. n : pins[i].msg = pins[j].msg => i = j
      BY <2>2 DEF MarkInv, PinnedOnce
    <2>11. \A i, j \in DOMAIN list : list[i].msg = list[j].msg => i = j
      BY <2>6, <2>7, <2>8, <2>10
    <2>12. \A x \in Messages :
             (\E i \in DOMAIN list : list[i].msg = x) <=> IF x = m THEN FALSE ELSE x \in Mark!Pinned
      <3> TAKE x \in Messages
      <3>1. x \in Mark!Pinned <=> \E i \in 1 .. n : pins[i].msg = x
        BY <2>2 DEF Mark!Pinned
      <3>2. ASSUME NEW i \in 1 .. n - 1, list[i].msg = x
            PROVE  x # m /\ x \in Mark!Pinned
        BY <2>5, <2>7, <2>10, <3>1, <3>2
      <3>3. ASSUME NEW i \in 1 .. n, pins[i].msg = x, x # m
            PROVE  \E j \in 1 .. n - 1 : list[j].msg = x
        <4>1. PICK j \in 1 .. n - 1 : old[j] = i
          BY <2>5, <2>9, <3>3
        <4>2. list[j].msg = x
          BY <2>7, <3>3, <4>1
        <4> QED
          BY <4>2
      <3> QED
        BY <2>6, <3>1, <3>2, <3>3
    <2> QED
      BY <1>1, <1>3, <2>1, <2>4, <2>5, <2>11, <2>12, ChangeIsAnnounced
  <1> QED
    BY <1>2, <1>3 DEF Mark!Unpin

LEMMA ReactKeeps ==
    ASSUME MarkInv, NEW q \in Requests, Mark!React(q)
    PROVE  MarkInv'
  <1> DEFINE r == markRequest[q]
  <1>1. r.pc = "wait" /\ r.op # "unpin" /\ r \in MarkRequests /\ MarkRequestOK(r)
    BY DEF Mark!React, Mark!Running, MarkInv, MarkTypes, MarkRequestsOK
  <1>2. r.msg \in Messages /\ r.user \in Users
    BY <1>1 DEF MarkRequestOK, MarkRequests
  <1>3. /\ Mark!Done(q)
        /\ UNCHANGED <<now, pins, cached, recalled, hidden, scenario, audit, sent, overtaken, arrived>>
    BY DEF Mark!React
  <1>4. reactions \subseteq Messages \X Users
    BY DEF MarkInv, MarkTypes
  <1>5. \/ reactions' = reactions
        \/ reactions' = reactions \cup {<<r.msg, r.user>>}
        \/ reactions' = reactions \ {<<r.msg, r.user>>}
    BY DEF Mark!React
  <1>6. reactions' \subseteq Messages \X Users
    BY <1>2, <1>4, <1>5
  <1>7. /\ recalled \subseteq recalled' /\ recalled' \subseteq Messages
        /\ hidden' \in [Users -> SUBSET Messages]
        /\ \A u \in Users : hidden[u] \subseteq hidden'[u]
    BY <1>3 DEF MarkInv, MarkTypes
  <1> QED
    BY <1>1, <1>3, <1>6, <1>7, MarkRequestEnds

LEMMA MarkRecallKeeps ==
    ASSUME MarkInv, NEW q \in Requests, Mark!Recall(q)
    PROVE  MarkInv'
  <1> DEFINE r == markRequest[q]
  <1>1. r.pc = "wait" /\ r.op # "unpin" /\ r \in MarkRequests /\ MarkRequestOK(r)
    BY DEF Mark!Recall, Mark!Running, MarkInv, MarkTypes, MarkRequestsOK
  <1>2. r.msg \in Messages
    BY <1>1 DEF MarkRequestOK, MarkRequests
  <1>3. /\ Mark!Done(q) /\ recalled' = recalled \cup {r.msg}
        /\ UNCHANGED <<now, pins, cached, reactions, hidden, scenario, audit, sent, overtaken, arrived>>
    BY DEF Mark!Recall
  <1>4. recalled \subseteq recalled' /\ recalled' \subseteq Messages
    BY <1>2, <1>3 DEF MarkInv, MarkTypes
  <1>5. /\ reactions' \subseteq Messages \X Users
        /\ hidden' \in [Users -> SUBSET Messages]
        /\ \A u \in Users : hidden[u] \subseteq hidden'[u]
    BY <1>3 DEF MarkInv, MarkTypes
  <1> QED
    BY <1>1, <1>3, <1>4, <1>5, MarkRequestEnds

LEMMA HideKeeps ==
    ASSUME MarkInv, NEW q \in Requests, Mark!Hide(q)
    PROVE  MarkInv'
  <1> DEFINE r == markRequest[q]
  <1>1. r.pc = "wait" /\ r.op # "unpin" /\ r \in MarkRequests /\ MarkRequestOK(r)
    BY DEF Mark!Hide, Mark!Running, MarkInv, MarkTypes, MarkRequestsOK
  <1>2. r.msg \in Messages /\ r.user \in Users
    BY <1>1 DEF MarkRequestOK, MarkRequests
  <1>3. /\ Mark!Done(q) /\ hidden' = [hidden EXCEPT ![r.user] = @ \cup {r.msg}]
        /\ UNCHANGED <<now, pins, cached, reactions, recalled, scenario, audit, sent, overtaken, arrived>>
    BY DEF Mark!Hide
  <1>4. hidden \in [Users -> SUBSET Messages]
    BY DEF MarkInv, MarkTypes
  <1>5. hidden' \in [Users -> SUBSET Messages] /\ \A u \in Users : hidden[u] \subseteq hidden'[u]
    BY <1>2, <1>3, <1>4
  <1>6. /\ reactions' \subseteq Messages \X Users
        /\ recalled \subseteq recalled' /\ recalled' \subseteq Messages
    BY <1>3 DEF MarkInv, MarkTypes
  <1> QED
    BY <1>1, <1>3, <1>5, <1>6, MarkRequestEnds

LEMMA MarkLoadKeeps ==
    ASSUME MarkInv, NEW q \in Requests, NEW u \in Users, Mark!Load(q, u)
    PROVE  MarkInv'
  <1> DEFINE r == markRequest[q]
             x == [list |-> Mark!Visible(u, Mark!Pinned), change |-> Len(audit)]
             y == [r EXCEPT !.pc = "send", !.user = u, !.todo = @ \ {u}, !.seen = x]
  <1>1. /\ r.pc = "tell" /\ u \in r.todo
        /\ markRequest' = [markRequest EXCEPT ![q] = y]
        /\ UNCHANGED <<now, pins, cached, reactions, recalled, hidden, audit, sent, overtaken,
                       scenario, arrived>>
    <2>1. markRequest \in [Requests -> MarkRequests]
      BY DEF MarkInv, MarkTypes
    <2> QED
      BY <2>1 DEF Mark!Load
  <1>2. r \in MarkRequests
    BY DEF MarkInv, MarkTypes
  <1>3. x \in Lists /\ x.change = Len(audit) /\ x.list = Mark!Visible(u, Mark!Pinned)
    <2>1. Mark!Pinned \subseteq Messages /\ Len(audit) \in Nat
      BY RowsAreOfMessages DEF MarkInv, MarkTypes
    <2> QED
      BY <2>1 DEF Lists, Mark!Visible
  <1> HIDE DEF x
  <1>4. /\ y \in MarkRequests /\ y.pc = "send" /\ y.user = u
        /\ y.todo = r.todo \ {u} /\ y.seen = x
    BY <1>2, <1>3 DEF MarkRequests
  <1> HIDE DEF y
  <1>5. IsListOf(u, x)
    <2>1. Mark!Visible(u, x.list) = Mark!Visible(u, Mark!Pinned)
      BY <1>3 DEF Mark!Visible
    <2>2. Len(audit) \in Nat
      BY DEF MarkInv, MarkTypes
    <2> QED
      BY <1>3, <2>1, <2>2 DEF IsListOf
  <1>6. MarkRequestOK(y)
    BY <1>4, <1>5 DEF MarkRequestOK
  <1>7. \A w \in Users : WillTell(markRequest[q], w) => WillTell(y, w)
    BY <1>1, <1>3, <1>4 DEF WillTell
  <1>8. /\ reactions' \subseteq Messages \X Users
        /\ recalled \subseteq recalled' /\ recalled' \subseteq Messages
        /\ hidden' \in [Users -> SUBSET Messages]
        /\ \A w \in Users : hidden[w] \subseteq hidden'[w]
        /\ arrived' \in 0 .. MaxArrived
    BY <1>1 DEF MarkInv, MarkTypes
  <1>9. /\ arrived' = IF y.pc = "wait" THEN arrived + 1 ELSE arrived
        /\ y.pc = "wait" => markRequest[q].pc # "wait"
        /\ UNCHANGED <<now, pins, cached, scenario, audit, sent, overtaken>>
    BY <1>1, <1>4
  <1> QED
    BY <1>1, <1>4, <1>6, <1>7, <1>8, <1>9, MarkRequestGoesOn

\* A restart brings no pin back.
LEMMA RestartAddsNothing ==
    ASSUME MarkInv, Mark!Restart
    PROVE  UNCHANGED Mark!vars
  <1>1. cached.msg \in Mark!Pinned \cup {NoMessage}
    <2>1. CASE pins = <<>>
      BY <2>1 DEF MarkInv, Mark!Newest, Mark!NoPin
    <2>2. CASE pins # <<>>
      <3>1. PICK i \in DOMAIN pins : Mark!Newest(pins) = pins[i]
        BY <2>2, NewestIsThere DEF MarkInv, MarkTypes
      <3> QED
        BY <3>1 DEF MarkInv, Mark!Pinned
    <2> QED
      BY <2>1, <2>2
  <1> QED
    BY <1>1 DEF Mark!Restart, Mark!vars

-----------------------------------------------------------------------------
(* The service.                                                              *)

LEMMA MarksUnchanged ==
    ASSUME MarkInv, UNCHANGED Mark!vars
    PROVE  MarkInv'
  <1> USE DEF Mark!vars
  <1>1. MarkTypes' /\ MarkRequestsOK'
    BY DEF MarkInv, MarkTypes, MarkRequestsOK, MarkRequestOK, IsListOf, Mark!Visible, Mark!Pinned
  <1>2. AuditIsCounted'
    <2>1. Waiting' = Waiting
      BY DEF Waiting
    <2> HIDE DEF Waiting
    <2> QED
      BY <2>1 DEF MarkInv, AuditIsCounted
  <1>3. PinnedOnce' /\ (cached = Mark!Newest(pins))'
    BY DEF MarkInv, PinnedOnce, Mark!Newest, Mark!NoPin
  <1>4. Mark!AnnouncementsAreChanges'
    BY AnnouncementsStay DEF MarkInv
  <1>5. ListsAreTold'
    BY DEF MarkInv, ListsAreTold, IsListOf, WillTell, Mark!Visible, Mark!Pinned
  <1> QED
    BY <1>1, <1>2, <1>3, <1>4, <1>5 DEF MarkInv

LEMMA MarkInvKept ==
    ASSUME MarkInv, [Next]_vars
    PROVE  MarkInv'
  <1>1. CASE UNCHANGED Mark!vars
    BY <1>1, MarksUnchanged
  <1>2. CASE Mark!Next
    <2>1. CASE Mark!Tick
      BY <2>1, MarkTickKeeps
    <2>2. CASE Mark!Restart
      BY <2>2, RestartAddsNothing, MarksUnchanged
    <2>3. ASSUME NEW q \in Requests, NEW u \in Users, NEW op \in scenario,
                 NEW m \in Messages \cup {NoMessage}, Mark!Arrive(q, u, op, m)
          PROVE  MarkInv'
      BY <2>3, MarkArriveKeeps
    <2>4. ASSUME NEW q \in Requests,
                 \/ Mark!Pin(q) \/ Mark!Unpin(q) \/ Mark!React(q)
                 \/ Mark!Recall(q) \/ Mark!Hide(q) \/ Mark!Send(q)
          PROVE  MarkInv'
      BY <2>4, PinKeeps, UnpinKeeps, ReactKeeps, MarkRecallKeeps, HideKeeps, SendKeeps
    <2>5. ASSUME NEW q \in Requests, Mark!Rollback(q)
          PROVE  MarkInv'
      BY <2>5, MarkRefuseKeeps DEF Mark!Rollback
    <2>6. ASSUME NEW q \in Requests, NEW u \in Users, Mark!Load(q, u)
          PROVE  MarkInv'
      BY <2>6, MarkLoadKeeps
    <2> QED
      BY <1>2, <2>1, <2>2, <2>3, <2>4, <2>5, <2>6 DEF Mark!Next
  <1>3. UNCHANGED Mark!vars \/ Mark!Next
    BY DEF Next, PollNext, MarkNext, FileNext, DeviceNext, DirectNext, vars, markVars, Mark!vars
  <1> QED
    BY <1>1, <1>2, <1>3

LEMMA MarkInvHolds == Spec => []MarkInv
  <1>1. MarkInv /\ [Next]_vars => MarkInv'
    BY MarkInvKept
  <1> QED
    BY MarksBegin, <1>1, PTL DEF Spec

\* Of any number of pins that race, the conversation keeps the newest; what is
\* announced are changes, in order, and they end in what is pinned; when all requests
\* have ended a member shows the list of pins, unless an older one came last.
THEOREM MarksAreRight == Spec => []MarksHold
  <1>1. MarkInv => MarksHold
    BY MarkInvSays
  <1> QED
    BY <1>1, MarkInvHolds, PTL

\* No step gives a recalled message a pin or changes its reactions, also not one of a
\* request that arrived before the recall.
THEOREM RecalledLeftAlone == Spec => RecalledIsLeftAlone
  <1>1. ASSUME MarkInv, [Next]_vars
        PROVE  [\A m \in recalled : m \in recalled' => Mark!MarksOf(m)' = Mark!MarksOf(m)
                  /\ (m \in Mark!Pinned' => m \in Mark!Pinned)]_Mark!vars
    <2> SUFFICES ASSUME Mark!Next, NEW m \in recalled
                 PROVE  /\ Mark!MarksOf(m)' = Mark!MarksOf(m)
                        /\ (m \in Mark!Pinned' => m \in Mark!Pinned)
      BY <1>1 DEF Next, PollNext, MarkNext, FileNext, DeviceNext, DirectNext, vars, markVars, Mark!vars
    <2>1. ASSUME reactions' = reactions PROVE Mark!MarksOf(m)' = Mark!MarksOf(m)
      BY <2>1 DEF Mark!MarksOf
    <2>2. ASSUME pins' = pins PROVE Mark!Pinned' = Mark!Pinned
      BY <2>2 DEF Mark!Pinned
    <2>3. ASSUME NEW q \in Requests, Mark!Pin(q)
          PROVE  m \in Mark!Pinned' => m \in Mark!Pinned
      <3> DEFINE r == markRequest[q]
      <3>1. CASE Mark!Refuse(q)
        BY <2>2, <3>1 DEF Mark!Refuse
      <3>2. CASE /\ r.msg \in Mark!Visible(r.user, Messages)
                 /\ pins' = Append(pins, [msg |-> r.msg, at |-> r.at])
        <4>1. r.msg # m
          BY <3>2 DEF Mark!Visible
        <4>2. pins \in Seq(Pins)
          BY <1>1 DEF MarkInv, MarkTypes
        <4> DEFINE row == [msg |-> r.msg, at |-> r.at]
        <4>3. row.msg # m
          BY <4>1
        <4> HIDE DEF row
        <4>4. /\ \A i \in DOMAIN pins' : i \in DOMAIN pins \/ i = Len(pins) + 1
              /\ \A i \in DOMAIN pins : pins'[i] = pins[i]
              /\ pins'[Len(pins) + 1] = row
          BY <3>2, <4>2 DEF row
        <4> QED
          BY <4>3, <4>4 DEF Mark!Pinned
      <3> QED
        BY <2>3, <3>1, <3>2 DEF Mark!Pin, Mark!ChangePins
    <2>4. ASSUME NEW q \in Requests, Mark!Unpin(q)
          PROVE  m \in Mark!Pinned' => m \in Mark!Pinned
      <3> DEFINE r == markRequest[q]
                 o == IF r.msg = NoMessage THEN Mark!Newest(pins).msg ELSE r.msg
      <3>1. CASE Mark!Refuse(q)
        BY <2>2, <3>1 DEF Mark!Refuse
      <3>2. CASE o \in Mark!Pinned /\ pins' = Mark!Without(pins, o)
        <4>1. pins \in Seq(Pins) /\ \E i \in DOMAIN pins : pins[i].msg = o
          BY <1>1, <3>2 DEF MarkInv, MarkTypes, Mark!Pinned
        <4> HIDE DEF o
        <4>2. PICK k \in 1 .. Len(pins) :
                /\ pins' \in Seq(Pins) /\ Len(pins') = Len(pins) - 1
                /\ \A i \in 1 .. Len(pins) - 1 : pins'[i] = IF i < k THEN pins[i] ELSE pins[i + 1]
          BY <3>2, <4>1, WithoutSays
        <4>3. \A i \in DOMAIN pins' : \E j \in DOMAIN pins : pins'[i] = pins[j]
          <5> TAKE i \in DOMAIN pins'
          <5>1. i \in 1 .. Len(pins) - 1 /\ i \in DOMAIN pins /\ i + 1 \in DOMAIN pins
            BY <4>1, <4>2
          <5> QED
            BY <4>2, <5>1
        <4> QED
          BY <4>3 DEF Mark!Pinned
      <3> QED
        BY <2>4, <3>1, <3>2 DEF Mark!Unpin, Mark!ChangePins
    <2>5. ASSUME NEW q \in Requests, Mark!Pin(q) \/ Mark!Unpin(q)
          PROVE  reactions' = reactions
      BY <2>5 DEF Mark!Pin, Mark!Unpin, Mark!Refuse, Mark!ChangePins
    <2>6. ASSUME NEW q \in Requests, Mark!React(q)
          PROVE  Mark!MarksOf(m)' = Mark!MarksOf(m) /\ pins' = pins
      <3> DEFINE r == markRequest[q]
      <3>1. pins' = pins
        BY <2>6 DEF Mark!React
      <3>2. CASE r.msg \in recalled
        BY <2>1, <2>6, <3>1, <3>2 DEF Mark!React
      <3>3. CASE r.msg # m
        <4>1. \/ reactions' = reactions
              \/ reactions' = reactions \cup {<<r.msg, r.user>>}
              \/ reactions' = reactions \ {<<r.msg, r.user>>}
          BY <2>6 DEF Mark!React
        <4>2. \A u \in Users : <<m, u>> # <<r.msg, r.user>>
          BY <3>3
        <4>3. \A u \in Users : <<m, u>> \in reactions' <=> <<m, u>> \in reactions
          BY <4>1, <4>2
        <4> QED
          BY <3>1, <4>3 DEF Mark!MarksOf
      <3> QED
        BY <3>2, <3>3
    <2>7. CASE Mark!Restart
      BY <1>1, <2>1, <2>2, <2>7, RestartAddsNothing DEF Mark!vars
    <2>8. ASSUME \/ Mark!Tick
                 \/ \E q \in Requests :
                      \/ \E u \in Users, op \in scenario, o \in Messages \cup {NoMessage} :
                           Mark!Arrive(q, u, op, o)
                      \/ Mark!Recall(q) \/ Mark!Hide(q) \/ Mark!Rollback(q)
                      \/ \E u \in Users : Mark!Load(q, u)
                      \/ Mark!Send(q)
          PROVE  reactions' = reactions /\ pins' = pins
      BY <2>8 DEF Mark!Tick, Mark!Arrive, Mark!Recall, Mark!Hide, Mark!Rollback, Mark!Refuse,
                  Mark!Load, Mark!Send
    <2> QED
      BY <2>1, <2>2, <2>3, <2>4, <2>5, <2>6, <2>7, <2>8 DEF Mark!Next
  <1>2. MarkInv /\ [Next]_vars =>
          [\A m \in recalled : m \in recalled' => Mark!MarksOf(m)' = Mark!MarksOf(m)
             /\ (m \in Mark!Pinned' => m \in Mark!Pinned)]_Mark!vars
    BY <1>1
  <1> QED
    BY MarkInvHolds, <1>2, PTL DEF Spec, RecalledIsLeftAlone, Mark!RecalledIsLeftAlone
===============================================================================
