---------------------------- MODULE WebClientProofs ----------------------------
(***************************************************************************)
(* Proofs about the web client: about receiving (MessageSync) and sending  *)
(* (Outbox) for any requests, catch-ups, texts, pages, sizes and bounds,   *)
(* and about the call screen (CallScreen) for any pages of two users, any  *)
(* calls, acts and number of faults.                                       *)
(***************************************************************************)
EXTENDS WebClient, Integers, Sequences, FiniteSets, FiniteSetTheorems,
        NumberTheorems, TLAPS

-----------------------------------------------------------------------------
(* Receiving: what the helpers return.                                       *)

LEMMA SyncNumbers ==
    /\ Sync!SyncConstants
    /\ QueueSize \in Nat \ {0} /\ PageSize \in Nat \ {0} /\ MaxId \in Nat \ {0}
    /\ MaxFaults \in Nat /\ None \notin Workers
    /\ Sync!Ids = 1 .. MaxId
  BY WebClientAssumption DEF Sync!SyncConstants, Sync!Ids

LEMMA IdsAreNumbers ==
    /\ \A m \in Sync!Ids : m \in Nat /\ m \in Int /\ m # 0 /\ m \in 0 .. MaxId /\ m \in 1 .. MaxId
    /\ \A m \in 1 .. MaxId : m \in Sync!Ids
    /\ \A S \in SUBSET Sync!Ids : IsFiniteSet(S) /\ S \in SUBSET Nat
  <1>1. MaxId \in Nat /\ Sync!Ids = 1 .. MaxId
    BY SyncNumbers
  <1>2. IsFiniteSet(1 .. MaxId)
    BY <1>1, FS_Interval
  <1>3. \A S \in SUBSET Sync!Ids : IsFiniteSet(S)
    BY <1>1, <1>2, FS_Subset
  <1> QED
    BY <1>1, <1>3

LEMMA NewestIsLargest ==
    ASSUME NEW S \in SUBSET Sync!Ids
    PROVE  /\ Sync!Newest(S) \in S \cup {0}
           /\ \A m \in S : m <= Sync!Newest(S)
           /\ Sync!Newest(S) \in 0 .. MaxId
  <1>1. \E b \in S \cup {0} : \A m \in S : m <= b
    <2>1. CASE S = {}
      BY <2>1
    <2>2. CASE S # {}
      BY <2>2, SyncNumbers, LargestNumber
    <2> QED
      BY <2>1, <2>2
  <1>2. /\ Sync!Newest(S) \in S \cup {0}
        /\ \A m \in S : m <= Sync!Newest(S)
    BY <1>1 DEF Sync!Newest
  <1>3. 0 \in 0 .. MaxId
    BY SyncNumbers
  <1> QED
    BY <1>2, <1>3, IdsAreNumbers

LEMMA LargerIsMaximum ==
    ASSUME NEW a \in Nat, NEW b \in Nat
    PROVE  /\ Sync!Larger(a, b) \in {a, b}
           /\ Sync!Larger(a, b) >= a /\ Sync!Larger(a, b) >= b
  BY DEF Sync!Larger

\* A page of a catch-up is the beginning of what there is, and not empty unless
\* there is nothing.
PageOf(rest) == {m \in rest : Sync!Cardinality({n \in rest : n < m}) < PageSize}

LEMMA PageIsBeginning ==
    ASSUME NEW rest \in SUBSET Sync!Ids
    PROVE  /\ PageOf(rest) \subseteq rest
           /\ rest # {} => PageOf(rest) # {}
           /\ \A m \in rest, k \in PageOf(rest) : m <= k => m \in PageOf(rest)
  <1> USE DEF PageOf
  <1>1. IsFiniteSet(rest) /\ rest \subseteq Nat
    BY IdsAreNumbers
  <1>0. \A S \in SUBSET rest : Sync!Cardinality(S) = Cardinality(S)
    BY DEF Sync!Cardinality, Cardinality
  <1>2. ASSUME rest # {} PROVE PageOf(rest) # {}
    <2>1. PICK s \in rest : \A t \in rest : s <= t
      BY <1>1, <1>2, LeastNumber
    <2>2. {n \in rest : n < s} = {}
      <3>1. \A n \in rest : ~(n < s)
        <4> TAKE n \in rest
        <4>1. n \in Nat /\ s \in Nat /\ s <= n
          BY <1>1, <2>1
        <4> QED
          BY <4>1
      <3> QED
        BY <3>1
    <2>3. Sync!Cardinality({n \in rest : n < s}) = 0
      BY <1>0, <2>2, FS_EmptySet
    <2> QED
      BY <2>3, SyncNumbers
  <1>3. ASSUME NEW m \in rest, NEW k \in PageOf(rest), m <= k
        PROVE  m \in PageOf(rest)
    <2> DEFINE A == {n \in rest : n < m}
               B == {n \in rest : n < k}
    <2>1. A \in SUBSET B /\ B \in SUBSET rest
      <3>1. \A n \in rest : n < m => n < k
        <4> TAKE n \in rest
        <4>1. n \in Int /\ m \in Int /\ k \in Int
          BY <1>1, <1>3
        <4> QED
          BY <1>3, <4>1
      <3> QED
        BY <3>1
    <2>2. IsFiniteSet(B) /\ IsFiniteSet(A)
      BY <1>1, <2>1, FS_Subset
    <2>3. Cardinality(A) <= Cardinality(B) /\ Cardinality(A) \in Nat /\ Cardinality(B) \in Nat
      BY <2>1, <2>2, FS_Subset, FS_CardinalityType
    <2>4. Cardinality(B) < PageSize
      BY <1>0, <2>1
    <2>5. Cardinality(A) < PageSize /\ Sync!Cardinality(A) = Cardinality(A)
      BY <1>0, <2>1, <2>3, <2>4, SyncNumbers
    <2> QED
      BY <2>5
  <1> QED
    BY <1>2, <1>3

-----------------------------------------------------------------------------
(* Receiving: the invariant.                                                 *)

\* A request knows which message it writes; from its commit on it is stored.
WritersOK ==
    \A w \in Workers :
      /\ writer[w].pc # "idle" => writer[w].id \in Sync!Ids
      /\ writer[w].pc \in {"broadcast", "reply"} => writer[w].id \in stored

\* What is sent to the client is stored.
QueueOK == \A i \in 1 .. Len(queue) : queue[i] \in stored

\* What a catch-up had to bring, up to the position it has come to, is received.
\* A page that arrived brings the next of it, all of it if there is no more; if
\* there is more, it brings the catch-up forward.
RunOK(r, got) ==
    /\ r.due \subseteq stored
    /\ r.pc \in {"ask", "merge"} => \A m \in r.due : m <= r.after => m \in got
    /\ r.pc = "merge" =>
         /\ r.page \subseteq stored
         /\ \A m \in r.due : m > r.after =>
              m \in r.page \/ (r.more /\ \A k \in r.page : k < m)
         /\ r.more => \E k \in r.page : k > r.after

RunsOK == \A r \in Runs : RunOK(run[r], received)

SyncInv == Sync!TypeOK /\ WritersOK /\ QueueOK /\ Sync!CursorIsReceived /\ RunsOK

\* The parts of the type invariant.
WriterRecords == [pc : {"idle", "commit", "broadcast", "reply"}, id : 0 .. MaxId, own : BOOLEAN]
RunRecords == [pc : {"idle", "ask", "merge", "failed"}, after : 0 .. MaxId,
               page : SUBSET Sync!Ids, more : BOOLEAN, due : SUBSET Sync!Ids]

LEMMA SyncTypes ==
    ASSUME Sync!TypeOK
    PROVE  /\ stored \subseteq Sync!Ids /\ nextId \in 1 .. MaxId + 1
           /\ lock \in Workers \cup {None}
           /\ writer \in [Workers -> WriterRecords]
           /\ link \in {"down", "open", "up", "doomed"}
           /\ queue \in Seq(Sync!Ids) /\ Len(queue) <= QueueSize
           /\ cursor \in 0 .. MaxId /\ received \subseteq stored
           /\ run \in [Runs -> RunRecords]
           /\ faults \in 0 .. MaxFaults
  BY DEF Sync!TypeOK, WriterRecords, RunRecords

LEMMA SyncTyped ==
    ASSUME stored \subseteq Sync!Ids, nextId \in 1 .. MaxId + 1,
           lock \in Workers \cup {None},
           writer \in [Workers -> WriterRecords],
           link \in {"down", "open", "up", "doomed"},
           queue \in Seq(Sync!Ids), Len(queue) <= QueueSize,
           cursor \in 0 .. MaxId, received \subseteq stored,
           run \in [Runs -> RunRecords],
           faults \in 0 .. MaxFaults
    PROVE  Sync!TypeOK
  BY DEF Sync!TypeOK, WriterRecords, RunRecords

LEMMA SyncInit == Sync!Init => SyncInv
  <1> SUFFICES ASSUME Sync!Init PROVE SyncInv
    OBVIOUS
  <1> USE SyncNumbers DEF Sync!Init
  <1>1. Sync!NoWrite \in WriterRecords /\ Sync!NoRun \in RunRecords
    BY DEF Sync!NoWrite, Sync!NoRun, WriterRecords, RunRecords
  <1>2. Sync!TypeOK
    BY <1>1, SyncTyped
  <1>3. WritersOK /\ QueueOK
    BY DEF WritersOK, QueueOK, Sync!NoWrite
  <1>4. Sync!CursorIsReceived /\ RunsOK
    BY DEF Sync!CursorIsReceived, RunsOK, RunOK, Sync!NoRun
  <1> QED
    BY <1>2, <1>3, <1>4 DEF SyncInv

\* A fault stays within its bound.
LEMMA SyncFault ==
    ASSUME SyncInv, NEW kind, Sync!Fault(kind)
    PROVE  faults' \in 0 .. MaxFaults
  BY SyncNumbers DEF SyncInv, Sync!TypeOK, Sync!Fault

\* The client processes messages that are stored.
LEMMA Processing ==
    ASSUME SyncInv, NEW ids \in SUBSET stored, Sync!Process(ids)
    PROVE  /\ received' = received \cup ids /\ received' \subseteq stored
           /\ cursor' \in 0 .. MaxId /\ cursor' >= cursor
           /\ Sync!CursorIsReceived'
  <1>1. stored \subseteq Sync!Ids /\ cursor \in 0 .. MaxId /\ received \subseteq stored
        /\ cursor \in received \cup {0}
    BY DEF SyncInv, Sync!TypeOK, Sync!CursorIsReceived
  <1>2. ids \in SUBSET Sync!Ids
    BY <1>1
  <1> DEFINE n == Sync!Newest(ids)
  <1>3. n \in ids \cup {0} /\ n \in 0 .. MaxId
    BY <1>2, NewestIsLargest
  <1>4. received' = received \cup ids /\ cursor' = Sync!Larger(cursor, n)
    BY DEF Sync!Process
  <1> HIDE DEF n
  <1>5. cursor' \in {cursor, n} /\ cursor' >= cursor
    BY <1>1, <1>3, <1>4, LargerIsMaximum, SyncNumbers
  <1> QED
    BY <1>1, <1>3, <1>4, <1>5 DEF Sync!CursorIsReceived

\* Catch-ups are not disturbed by messages that are stored or received meanwhile.
LEMMA RunsUndisturbed ==
    ASSUME RunsOK, stored \subseteq stored', received \subseteq received', UNCHANGED run
    PROVE  RunsOK'
  BY DEF RunsOK, RunOK

-----------------------------------------------------------------------------
(* Receiving: the steps.                                                     *)

\* One request gets to a state that is in order.
LEMMA OneWriter ==
    ASSUME SyncInv, NEW w \in Workers, NEW x \in WriterRecords,
           writer' = [writer EXCEPT ![w] = x], stored \subseteq stored',
           x.pc # "idle" => x.id \in Sync!Ids,
           x.pc \in {"broadcast", "reply"} => x.id \in stored'
    PROVE  writer' \in [Workers -> WriterRecords] /\ WritersOK'
  <1>1. writer \in [Workers -> WriterRecords] /\ WritersOK
    BY SyncTypes DEF SyncInv
  <1> QED
    BY <1>1 DEF WritersOK

LEMMA NoWriteOK == Sync!NoWrite \in WriterRecords /\ Sync!NoWrite.pc = "idle"
  BY SyncNumbers DEF Sync!NoWrite, WriterRecords

\* A request in hand.
LEMMA TheWriter ==
    ASSUME SyncInv, NEW w \in Workers
    PROVE  /\ writer[w] \in WriterRecords
           /\ writer[w].pc # "idle" => writer[w].id \in Sync!Ids
           /\ writer[w].pc \in {"broadcast", "reply"} => writer[w].id \in stored
  BY SyncTypes DEF SyncInv, WritersOK

LEMMA InsertSync ==
    ASSUME SyncInv, NEW w \in Workers, NEW locked \in BOOLEAN, NEW own \in BOOLEAN,
           Sync!Insert(w, locked, own)
    PROVE  SyncInv' /\ UNCHANGED Sync!client
  <1> DEFINE x == [pc |-> "commit", id |-> nextId, own |-> own]
  <1>1. /\ nextId \in Sync!Ids /\ writer' = [writer EXCEPT ![w] = x]
        /\ nextId' = nextId + 1 /\ lock' \in {w, lock}
        /\ UNCHANGED <<stored, link, queue, cursor, received, run, faults>>
    BY DEF Sync!Insert, Sync!client
  <1>2. x \in WriterRecords /\ x.pc = "commit" /\ x.id = nextId
    BY <1>1, SyncNumbers DEF WriterRecords
  <1> HIDE DEF x
  <1>3. writer' \in [Workers -> WriterRecords] /\ WritersOK'
    BY <1>1, <1>2, OneWriter
  <1>4. Sync!TypeOK'
    BY <1>1, <1>3, SyncNumbers DEF SyncInv, Sync!TypeOK, WriterRecords
  <1> QED
    BY <1>1, <1>3, <1>4 DEF SyncInv, QueueOK, Sync!CursorIsReceived, RunsOK, RunOK, Sync!client

LEMMA EditSync ==
    ASSUME SyncInv, NEW w \in Workers, NEW m \in Sync!Ids, Sync!Edit(w, m)
    PROVE  SyncInv' /\ UNCHANGED Sync!client
  <1> DEFINE x == [Sync!NoWrite EXCEPT !.pc = "broadcast", !.id = m]
  <1>1. /\ m \in stored /\ writer' = [writer EXCEPT ![w] = x]
        /\ faults' \in 0 .. MaxFaults
        /\ UNCHANGED <<stored, nextId, lock, link, queue, cursor, received, run>>
    BY SyncFault DEF Sync!Edit, Sync!client
  <1>2. x \in WriterRecords /\ x.pc = "broadcast" /\ x.id = m
    BY IdsAreNumbers DEF WriterRecords, Sync!NoWrite
  <1> HIDE DEF x
  <1>3. writer' \in [Workers -> WriterRecords] /\ WritersOK'
    BY <1>1, <1>2, OneWriter
  <1>4. Sync!TypeOK'
    BY <1>1, <1>3 DEF SyncInv, Sync!TypeOK, WriterRecords
  <1> QED
    BY <1>1, <1>3, <1>4 DEF SyncInv, QueueOK, Sync!CursorIsReceived, RunsOK, RunOK, Sync!client

LEMMA CommitSync ==
    ASSUME SyncInv, NEW w \in Workers, Sync!Commit(w)
    PROVE  SyncInv' /\ UNCHANGED Sync!client
  <1> DEFINE x == [writer[w] EXCEPT !.pc = "broadcast"]
  <1>1. /\ writer[w] \in WriterRecords /\ writer[w].id \in Sync!Ids
        /\ stored' = stored \cup {writer[w].id} /\ lock' \in {None, lock}
        /\ writer' = [writer EXCEPT ![w] = x]
        /\ UNCHANGED <<nextId, link, queue, cursor, received, run, faults>>
    BY TheWriter DEF Sync!Commit, Sync!client
  <1>2. x \in WriterRecords /\ x.pc = "broadcast" /\ x.id = writer[w].id
    BY <1>1 DEF WriterRecords
  <1> HIDE DEF x
  <1>3. writer' \in [Workers -> WriterRecords] /\ WritersOK'
    BY <1>1, <1>2, OneWriter
  <1>4. Sync!TypeOK'
    BY <1>1, <1>3 DEF SyncInv, Sync!TypeOK, WriterRecords
  <1>5. QueueOK'
    BY <1>1 DEF SyncInv, QueueOK
  <1>6. RunsOK'
    BY <1>1, RunsUndisturbed DEF SyncInv
  <1> QED
    BY <1>1, <1>3, <1>4, <1>5, <1>6 DEF SyncInv, Sync!CursorIsReceived, Sync!client

LEMMA BroadcastSync ==
    ASSUME SyncInv, NEW w \in Workers, Sync!Broadcast(w)
    PROVE  SyncInv' /\ UNCHANGED Sync!client
  <1>1. /\ writer[w] \in WriterRecords /\ writer[w].id \in stored /\ writer[w].id \in Sync!Ids
        /\ UNCHANGED <<stored, nextId, lock, cursor, received, run, faults>>
    BY TheWriter DEF Sync!Broadcast, Sync!client
  <1>2. writer' \in [Workers -> WriterRecords] /\ WritersOK'
    <2>1. CASE writer[w].own
      <3> DEFINE x == [writer[w] EXCEPT !.pc = "reply"]
      <3>1. writer' = [writer EXCEPT ![w] = x]
        BY <2>1 DEF Sync!Broadcast, Sync!Answered
      <3>2. x \in WriterRecords /\ x.id = writer[w].id
        BY <1>1 DEF WriterRecords
      <3> HIDE DEF x
      <3> QED
        BY <1>1, <3>1, <3>2, OneWriter
    <2>2. CASE ~writer[w].own
      <3>1. writer' = [writer EXCEPT ![w] = Sync!NoWrite]
        BY <2>2 DEF Sync!Broadcast, Sync!Answered
      <3> QED
        BY <1>1, <3>1, NoWriteOK, OneWriter
    <2> QED
      BY <2>1, <2>2
  <1>3. queue \in Seq(Sync!Ids) /\ Len(queue) <= QueueSize /\ QueueOK
    BY DEF SyncInv, Sync!TypeOK
  <1>4. /\ queue' \in Seq(Sync!Ids) /\ Len(queue') <= QueueSize
        /\ link' \in {"down", "open", "up", "doomed"}
        /\ \A i \in 1 .. Len(queue') : queue'[i] \in stored
    <2>1. CASE Len(queue) < QueueSize /\ queue' = Append(queue, writer[w].id) /\ UNCHANGED link
      <3>1. /\ queue' \in Seq(Sync!Ids) /\ Len(queue') = Len(queue) + 1
            /\ \A i \in 1 .. Len(queue') :
                 queue'[i] = IF i <= Len(queue) THEN queue[i] ELSE writer[w].id
        BY <1>1, <1>3, <2>1
      <3>2. \A i \in 1 .. Len(queue') : queue'[i] \in stored
        <4> TAKE i \in 1 .. Len(queue')
        <4>1. CASE i <= Len(queue)
          <5>1. i \in 1 .. Len(queue)
            BY <1>3, <3>1, <4>1
          <5> QED
            BY <1>3, <3>1, <4>1, <5>1 DEF QueueOK
        <4>2. CASE ~(i <= Len(queue))
          BY <1>1, <3>1, <4>2
        <4> QED
          BY <4>1, <4>2
      <3>3. Len(queue') <= QueueSize
        BY <1>3, <2>1, <3>1, SyncNumbers
      <3> QED
        BY <2>1, <3>1, <3>2, <3>3 DEF SyncInv, Sync!TypeOK
    <2>2. CASE UNCHANGED queue /\ link' \in {link, "doomed"}
      BY <1>3, <2>2 DEF SyncInv, Sync!TypeOK, QueueOK
    <2> QED
      BY <2>1, <2>2 DEF Sync!Broadcast
  <1>5. Sync!TypeOK'
    BY <1>1, <1>2, <1>4 DEF SyncInv, Sync!TypeOK, WriterRecords
  <1> QED
    BY <1>1, <1>2, <1>4, <1>5 DEF SyncInv, QueueOK, Sync!CursorIsReceived, RunsOK, RunOK, Sync!client

LEMMA LoseSync ==
    ASSUME SyncInv, NEW w \in Workers, Sync!Lose(w)
    PROVE  SyncInv' /\ UNCHANGED Sync!client
  <1>1. /\ writer' = [writer EXCEPT ![w] = Sync!NoWrite] /\ faults' \in 0 .. MaxFaults
        /\ UNCHANGED <<stored, nextId, lock, link, queue, cursor, received, run>>
    BY SyncFault DEF Sync!Lose, Sync!client
  <1>2. writer' \in [Workers -> WriterRecords] /\ WritersOK'
    BY <1>1, NoWriteOK, OneWriter
  <1>3. Sync!TypeOK'
    BY <1>1, <1>2 DEF SyncInv, Sync!TypeOK, WriterRecords
  <1> QED
    BY <1>1, <1>2, <1>3 DEF SyncInv, QueueOK, Sync!CursorIsReceived, RunsOK, RunOK, Sync!client

LEMMA ReplySync ==
    ASSUME SyncInv, NEW w \in Workers, Sync!Reply(w)
    PROVE  SyncInv' /\ cursor' >= cursor /\ UNCHANGED run
  <1>1. /\ writer[w].id \in stored /\ Sync!Process({writer[w].id})
        /\ writer' = [writer EXCEPT ![w] = Sync!NoWrite]
        /\ UNCHANGED <<stored, nextId, lock, link, queue, run, faults>>
    BY TheWriter DEF Sync!Reply
  <1>2. /\ received \subseteq received' /\ received' \subseteq stored
        /\ cursor' \in 0 .. MaxId /\ cursor' >= cursor
        /\ Sync!CursorIsReceived'
    BY <1>1, Processing
  <1>3. writer' \in [Workers -> WriterRecords] /\ WritersOK'
    BY <1>1, NoWriteOK, OneWriter
  <1>4. Sync!TypeOK'
    BY <1>1, <1>2, <1>3 DEF SyncInv, Sync!TypeOK, WriterRecords
  <1>5. RunsOK'
    BY <1>1, <1>2, RunsUndisturbed DEF SyncInv
  <1> QED
    BY <1>1, <1>2, <1>3, <1>4, <1>5 DEF SyncInv, QueueOK

LEMMA ReceiveSync ==
    ASSUME SyncInv, Sync!Receive
    PROVE  SyncInv' /\ cursor' >= cursor /\ UNCHANGED run
  <1>1. /\ queue # <<>> /\ Sync!Process({Head(queue)}) /\ queue' = Tail(queue)
        /\ UNCHANGED <<stored, nextId, lock, writer, link, run, faults>>
    BY DEF Sync!Receive, Sync!server
  <1>2. queue \in Seq(Sync!Ids) /\ Len(queue) <= QueueSize /\ QueueOK
    BY DEF SyncInv, Sync!TypeOK
  <1>3. /\ Len(queue) \in Nat /\ Len(queue) > 0 /\ Head(queue) = queue[1]
        /\ queue' \in Seq(Sync!Ids) /\ Len(queue') = Len(queue) - 1
        /\ \A i \in 1 .. Len(queue') : queue'[i] = queue[i + 1]
    BY <1>1, <1>2
  <1>4. Head(queue) \in stored
    BY <1>2, <1>3 DEF QueueOK
  <1>5. \A i \in 1 .. Len(queue') : queue'[i] \in stored
    <2> TAKE i \in 1 .. Len(queue')
    <2>1. i + 1 \in 1 .. Len(queue)
      BY <1>3
    <2> QED
      BY <1>2, <1>3, <2>1 DEF QueueOK
  <1>6. /\ received \subseteq received' /\ received' \subseteq stored
        /\ cursor' \in 0 .. MaxId /\ cursor' >= cursor
        /\ Sync!CursorIsReceived'
    BY <1>1, <1>4, Processing
  <1>7. Len(queue') <= QueueSize
    BY <1>2, <1>3, SyncNumbers
  <1>8. Sync!TypeOK'
    BY <1>1, <1>3, <1>6, <1>7 DEF SyncInv, Sync!TypeOK
  <1>9. RunsOK'
    BY <1>1, <1>6, RunsUndisturbed DEF SyncInv
  <1> QED
    BY <1>1, <1>5, <1>6, <1>8, <1>9 DEF SyncInv, QueueOK, WritersOK

LEMMA SocketSync ==
    ASSUME SyncInv, Sync!Drop \/ Sync!Unregister \/ Sync!Register
    PROVE  SyncInv' /\ UNCHANGED Sync!client
  <1>1. /\ link' \in {"down", "open", "up", "doomed"} /\ (queue' = <<>> \/ queue' = queue)
        /\ faults' \in 0 .. MaxFaults
        /\ UNCHANGED <<stored, nextId, lock, writer, cursor, received, run>>
    <2>1. faults \in 0 .. MaxFaults
      BY DEF SyncInv, Sync!TypeOK
    <2>2. CASE Sync!Drop
      BY <2>2, SyncFault DEF Sync!Drop, Sync!Closed, Sync!server, Sync!client
    <2>3. CASE Sync!Unregister \/ Sync!Register
      BY <2>1, <2>3 DEF Sync!Unregister, Sync!Register, Sync!Closed, Sync!server, Sync!client
    <2> QED
      BY <2>2, <2>3
  <1>2. Sync!TypeOK' /\ QueueOK'
    <2>1. CASE queue' = <<>>
      BY <1>1, <2>1, SyncNumbers DEF SyncInv, Sync!TypeOK, QueueOK
    <2>2. CASE queue' = queue
      BY <1>1, <2>2 DEF SyncInv, Sync!TypeOK, QueueOK
    <2> QED
      BY <1>1, <2>1, <2>2
  <1> QED
    BY <1>1, <1>2 DEF SyncInv, WritersOK, Sync!CursorIsReceived, RunsOK, RunOK, Sync!client

\* One catch-up gets to a state that is in order.
LEMMA OneRun ==
    ASSUME SyncInv, NEW r \in Runs, NEW x \in RunRecords, RunOK(x, received'),
           run' = [run EXCEPT ![r] = x], received \subseteq received', UNCHANGED stored
    PROVE  run' \in [Runs -> RunRecords] /\ RunsOK'
  <1>1. run \in [Runs -> RunRecords] /\ RunsOK
    BY SyncTypes DEF SyncInv
  <1>2. \A q \in Runs : q # r => RunOK(run[q], received')
    BY <1>1 DEF RunsOK, RunOK
  <1>3. \A q \in Runs : RunOK(run'[q], received')
    BY <1>1, <1>2
  <1> QED
    BY <1>1, <1>3 DEF RunsOK, RunOK

LEMMA TheRun ==
    ASSUME SyncInv, NEW r \in Runs
    PROVE  run[r] \in RunRecords /\ RunOK(run[r], received)
  BY SyncTypes DEF SyncInv, RunsOK

LEMMA NoRunOK == Sync!NoRun \in RunRecords /\ \A got : RunOK(Sync!NoRun, got)
  BY SyncNumbers DEF Sync!NoRun, RunRecords, RunOK

\* The snapshot: all that is stored above the cursor is still to come.
LEMMA StartedSync ==
    ASSUME SyncInv, NEW r \in Runs, Sync!Started(r), UNCHANGED <<stored, received>>
    PROVE  /\ run' \in [Runs -> RunRecords] /\ RunsOK'
           /\ \A q \in Runs : run[q].pc = "merge" => run'[q].pc # "idle"
  <1> DEFINE due == Sync!Above(stored, cursor)
             x == [Sync!NoRun EXCEPT !.pc = "ask", !.after = cursor, !.due = due]
  <1>1. run' = [run EXCEPT ![r] = x] /\ run[r].pc \in {"idle", "failed"}
    BY DEF Sync!Started
  <1>2. stored \subseteq Sync!Ids /\ cursor \in 0 .. MaxId
    BY DEF SyncInv, Sync!TypeOK
  <1>3. due \in SUBSET Sync!Ids /\ due \subseteq stored /\ \A m \in due : ~(m <= cursor)
    BY <1>2, IdsAreNumbers DEF Sync!Above
  <1> HIDE DEF due
  <1>4. /\ x \in RunRecords /\ x.pc = "ask" /\ x.after = cursor /\ x.due = due
    BY <1>2, <1>3, NoRunOK DEF RunRecords, Sync!NoRun
  <1> HIDE DEF x
  <1>5. RunOK(x, received')
    BY <1>3, <1>4 DEF RunOK
  <1>6. run \in [Runs -> RunRecords]
    BY SyncTypes DEF SyncInv
  <1> QED
    BY <1>1, <1>4, <1>5, <1>6, OneRun

LEMMA OpenSync ==
    ASSUME SyncInv, NEW r \in Runs, Sync!Open(r) \/ Sync!Refresh(r)
    PROVE  /\ SyncInv' /\ UNCHANGED Sync!client
           /\ \A q \in Runs : run[q].pc = "merge" => run'[q].pc # "idle"
  <1>1. /\ Sync!Started(r) /\ link' \in {link, "up", "open"}
        /\ UNCHANGED <<stored, nextId, lock, writer, queue, cursor, received, faults>>
    BY DEF Sync!Open, Sync!Refresh, Sync!server, Sync!client
  <1>2. /\ run' \in [Runs -> RunRecords] /\ RunsOK'
        /\ \A q \in Runs : run[q].pc = "merge" => run'[q].pc # "idle"
    BY <1>1, StartedSync
  <1>3. Sync!TypeOK'
    BY <1>1, <1>2 DEF SyncInv, Sync!TypeOK, RunRecords
  <1> QED
    BY <1>1, <1>2, <1>3 DEF SyncInv, WritersOK, QueueOK, Sync!CursorIsReceived, Sync!client

LEMMA AskSync ==
    ASSUME SyncInv, NEW r \in Runs, Sync!Ask(r)
    PROVE  /\ SyncInv' /\ UNCHANGED Sync!client
           /\ \A q \in Runs : run[q].pc = "merge" => run'[q].pc # "idle"
  <1> DEFINE rest == Sync!Above(stored, run[r].after)
             got == PageOf(rest)
             x == [run[r] EXCEPT !.pc = "merge", !.page = got, !.more = (got # rest)]
  <1>1. /\ run[r].pc = "ask" /\ run' = [run EXCEPT ![r] = x]
        /\ UNCHANGED <<stored, nextId, lock, writer, link, queue, cursor, received, faults>>
    BY DEF Sync!Ask, PageOf, Sync!server, Sync!client
  <1>2. /\ run[r] \in RunRecords /\ RunOK(run[r], received)
        /\ run[r].after \in 0 .. MaxId /\ stored \subseteq Sync!Ids
    BY TheRun DEF SyncInv, Sync!TypeOK, RunRecords
  <1>3. rest \in SUBSET Sync!Ids /\ rest \subseteq stored
        /\ \A m \in stored : m \in rest <=> m > run[r].after
    BY <1>2 DEF Sync!Above
  <1>4. got \subseteq rest /\ (rest # {} => got # {})
        /\ \A m \in rest, k \in got : m <= k => m \in got
    <2> HIDE DEF rest
    <2> QED
      BY <1>3, PageIsBeginning
  <1> HIDE DEF rest, got
  <1>5. /\ x \in RunRecords /\ x.pc = "merge" /\ x.after = run[r].after /\ x.page = got
        /\ x.more = (got # rest) /\ x.due = run[r].due
    BY <1>2, <1>3, <1>4 DEF RunRecords
  <1> HIDE DEF x
  <1>6. RunOK(x, received')
    <2>1. x.due \subseteq stored /\ \A m \in x.due : m <= x.after => m \in received
      BY <1>1, <1>2, <1>5 DEF RunOK
    <2>2. ASSUME NEW m \in x.due, m > x.after, m \notin got
          PROVE  got # rest /\ \A k \in got : k < m
      <3>1. m \in rest
        BY <1>3, <1>5, <2>1, <2>2
      <3>2. \A k \in got : ~(m <= k) /\ k \in Int /\ m \in Int
        BY <1>3, <1>4, <2>2, <3>1, IdsAreNumbers
      <3> QED
        BY <2>2, <3>1, <3>2
    <2>3. got # rest => \E k \in got : k > x.after
      BY <1>3, <1>4, <1>5
    <2> QED
      BY <1>1, <1>3, <1>4, <1>5, <2>1, <2>2, <2>3 DEF RunOK
  <1>7. run' \in [Runs -> RunRecords] /\ RunsOK'
    BY <1>1, <1>5, <1>6, OneRun
  <1>8. \A q \in Runs : run[q].pc = "merge" => run'[q].pc # "idle"
    <2>1. run \in [Runs -> RunRecords]
      BY SyncTypes DEF SyncInv
    <2> QED
      BY <1>1, <1>5, <2>1
  <1>9. Sync!TypeOK'
    BY <1>1, <1>7 DEF SyncInv, Sync!TypeOK, RunRecords
  <1> QED
    BY <1>1, <1>7, <1>8, <1>9 DEF SyncInv, WritersOK, QueueOK, Sync!CursorIsReceived, Sync!client

\* A page brings the catch-up forward, or it was the last one and nothing is missing.
LEMMA MergeSync ==
    ASSUME SyncInv, NEW r \in Runs, Sync!Merge(r)
    PROVE  /\ SyncInv' /\ cursor' >= cursor
           /\ \A q \in Runs : (run[q].pc = "merge" /\ run'[q].pc = "idle")
                                => run[q].due \subseteq received'
  <1> DEFINE newest == Sync!Newest(run[r].page)
             after == Sync!Larger(run[r].after, newest)
  <1>1. /\ run[r].pc = "merge" /\ Sync!Process(run[r].page)
        /\ UNCHANGED <<stored, nextId, lock, writer, link, queue, faults>>
    BY DEF Sync!Merge, Sync!server
  <1>2. /\ run[r] \in RunRecords /\ RunOK(run[r], received)
        /\ run[r].after \in 0 .. MaxId /\ stored \subseteq Sync!Ids
        /\ run \in [Runs -> RunRecords]
    BY TheRun, SyncTypes DEF SyncInv, RunRecords
  <1>3. /\ run[r].page \subseteq stored /\ run[r].due \subseteq stored
        /\ \A m \in run[r].due : m <= run[r].after => m \in received
        /\ \A m \in run[r].due : m > run[r].after =>
             m \in run[r].page \/ (run[r].more /\ \A k \in run[r].page : k < m)
        /\ run[r].more => \E k \in run[r].page : k > run[r].after
    BY <1>1, <1>2 DEF RunOK
  <1>4. /\ received' = received \cup run[r].page /\ received' \subseteq stored
        /\ cursor' \in 0 .. MaxId /\ cursor' >= cursor
        /\ Sync!CursorIsReceived'
    BY <1>1, <1>3, Processing
  <1>5. /\ newest \in run[r].page \cup {0} /\ newest \in 0 .. MaxId
        /\ \A m \in run[r].page : m <= newest
    BY <1>2, <1>3, NewestIsLargest
  <1> HIDE DEF newest
  <1>6. /\ after \in {run[r].after, newest} /\ after >= run[r].after /\ after >= newest
        /\ after \in 0 .. MaxId
    BY <1>2, <1>5, LargerIsMaximum, SyncNumbers
  <1>7. \A m \in run[r].due : m \in Int
    BY <1>2, <1>3, IdsAreNumbers
  <1>8. CASE run[r].more
    <2>1. after > run[r].after
      <3>1. PICK k \in run[r].page : k > run[r].after
        BY <1>3, <1>8
      <3>2. k \in Int /\ k <= newest
        BY <1>2, <1>3, <1>5, IdsAreNumbers
      <3> QED
        BY <1>2, <1>5, <1>6, <3>1, <3>2
    <2> DEFINE x == [run[r] EXCEPT !.pc = "ask", !.after = after, !.page = {}]
    <2>2. run' = [run EXCEPT ![r] = x]
      BY <1>8, <2>1 DEF Sync!Merge, newest
    <2> HIDE DEF after
    <2>3. /\ x \in RunRecords /\ x.pc = "ask" /\ x.after = after /\ x.due = run[r].due
      BY <1>2, <1>6 DEF RunRecords
    <2> HIDE DEF x
    <2>4. \A m \in run[r].due : m <= after => m \in received'
      <3> SUFFICES ASSUME NEW m \in run[r].due, m <= after PROVE m \in received'
        OBVIOUS
      <3>1. CASE m <= run[r].after
        BY <1>3, <1>4, <3>1
      <3>2. CASE ~(m <= run[r].after)
        <4>1. m \in Int /\ m > run[r].after /\ m <= newest /\ newest \in run[r].page
          BY <1>2, <1>5, <1>6, <1>7, <3>2
        <4>2. ~\A k \in run[r].page : k < m
          BY <1>5, <4>1
        <4> QED
          BY <1>3, <1>4, <4>1, <4>2
      <3> QED
        BY <3>1, <3>2
    <2>5. RunOK(x, received')
      BY <1>3, <2>3, <2>4 DEF RunOK
    <2>6. run' \in [Runs -> RunRecords] /\ RunsOK'
      BY <1>1, <1>4, <2>2, <2>3, <2>5, OneRun
    <2>7. \A q \in Runs : run[q].pc = "merge" => run'[q].pc # "idle"
      BY <1>2, <2>2, <2>3
    <2>8. Sync!TypeOK'
      BY <1>1, <1>4, <2>6 DEF SyncInv, Sync!TypeOK, RunRecords
    <2> QED
      BY <1>1, <1>4, <2>6, <2>7, <2>8 DEF SyncInv, WritersOK, QueueOK
  <1>9. CASE ~run[r].more
    <2>1. run' = [run EXCEPT ![r] = Sync!NoRun]
      BY <1>9 DEF Sync!Merge
    <2>2. run' \in [Runs -> RunRecords] /\ RunsOK'
      BY <1>1, <1>4, <2>1, NoRunOK, OneRun
    <2>3. run[r].due \subseteq received'
      <3>1. \A m \in run[r].due : m <= run[r].after \/ m > run[r].after
        BY <1>2, <1>7
      <3> QED
        BY <1>3, <1>4, <1>9, <3>1
    <2>4. Sync!TypeOK'
      BY <1>1, <1>4, <2>2 DEF SyncInv, Sync!TypeOK, RunRecords
    <2>5. \A q \in Runs : q # r => run'[q] = run[q]
      BY <1>2, <2>1
    <2> QED
      BY <1>1, <1>4, <2>2, <2>3, <2>4, <2>5 DEF SyncInv, WritersOK, QueueOK
  <1> QED
    BY <1>8, <1>9

LEMMA FailSync ==
    ASSUME SyncInv, NEW r \in Runs, Sync!Fail(r)
    PROVE  /\ SyncInv' /\ UNCHANGED Sync!client
           /\ \A q \in Runs : run[q].pc = "merge" => run'[q].pc # "idle"
  <1> DEFINE x == [run[r] EXCEPT !.pc = "failed"]
  <1>1. /\ run' = [run EXCEPT ![r] = x] /\ faults' \in 0 .. MaxFaults
        /\ UNCHANGED <<stored, nextId, lock, writer, link, queue, cursor, received>>
    BY SyncFault DEF Sync!Fail, Sync!server, Sync!client
  <1>2. run[r] \in RunRecords /\ RunOK(run[r], received) /\ run \in [Runs -> RunRecords]
    BY TheRun, SyncTypes DEF SyncInv
  <1>3. x \in RunRecords /\ x.pc = "failed" /\ x.due = run[r].due
    BY <1>2 DEF RunRecords
  <1> HIDE DEF x
  <1>4. RunOK(x, received')
    BY <1>2, <1>3 DEF RunOK
  <1>5. run' \in [Runs -> RunRecords] /\ RunsOK'
    BY <1>1, <1>3, <1>4, OneRun
  <1>6. \A q \in Runs : run[q].pc = "merge" => run'[q].pc # "idle"
    BY <1>1, <1>2, <1>3
  <1>7. Sync!TypeOK'
    BY <1>1, <1>5 DEF SyncInv, Sync!TypeOK, RunRecords
  <1> QED
    BY <1>1, <1>5, <1>6, <1>7 DEF SyncInv, WritersOK, QueueOK, Sync!CursorIsReceived, Sync!client

\* A catch-up ends well only with all it had to bring.
CompletesRightly ==
    \A q \in Runs : (run[q].pc = "merge" /\ run'[q].pc = "idle") => run[q].due \subseteq received'

LEMMA SyncStep ==
    ASSUME SyncInv, Sync!Next
    PROVE  SyncInv' /\ cursor' >= cursor /\ CompletesRightly
  <1>0. ASSUME UNCHANGED Sync!client \/ UNCHANGED run
        PROVE  (UNCHANGED Sync!client => cursor' >= cursor) /\ (UNCHANGED run => CompletesRightly)
    <2>1. cursor \in 0 .. MaxId
      BY DEF SyncInv, Sync!TypeOK
    <2> QED
      BY <2>1, SyncNumbers DEF Sync!client, CompletesRightly
  <1>1. ASSUME NEW w \in Workers, NEW locked \in BOOLEAN, NEW own \in BOOLEAN,
               Sync!Insert(w, locked, own)
        PROVE  SyncInv' /\ cursor' >= cursor /\ CompletesRightly
    <2>1. UNCHANGED run
      BY <1>1 DEF Sync!Insert
    <2> QED
      BY <1>0, <1>1, <2>1, InsertSync
  <1>2. ASSUME NEW w \in Workers, NEW m \in Sync!Ids, Sync!Edit(w, m)
        PROVE  SyncInv' /\ cursor' >= cursor /\ CompletesRightly
    <2>1. UNCHANGED run
      BY <1>2 DEF Sync!Edit
    <2> QED
      BY <1>0, <1>2, <2>1, EditSync
  <1>3. ASSUME NEW w \in Workers, Sync!Write(w) \/ Sync!Lose(w)
        PROVE  SyncInv' /\ cursor' >= cursor /\ CompletesRightly
    <2>1. UNCHANGED run
      BY <1>3 DEF Sync!Write, Sync!Commit, Sync!Broadcast, Sync!Reply, Sync!Lose
    <2> QED
      BY <1>0, <1>3, <2>1, CommitSync, BroadcastSync, ReplySync, LoseSync DEF Sync!Write
  <1>4. CASE Sync!Receive
    BY <1>0, <1>4, ReceiveSync
  <1>5. CASE Sync!Drop \/ Sync!Unregister \/ Sync!Register
    <2>1. UNCHANGED run
      BY <1>5 DEF Sync!Drop, Sync!Unregister, Sync!Register
    <2> QED
      BY <1>0, <1>5, <2>1, SocketSync
  <1>6. ASSUME NEW r \in Runs, Sync!Open(r) \/ Sync!Refresh(r) \/ Sync!Ask(r) \/ Sync!Fail(r)
        PROVE  SyncInv' /\ cursor' >= cursor /\ CompletesRightly
    <2>1. /\ SyncInv' /\ UNCHANGED Sync!client
          /\ \A q \in Runs : run[q].pc = "merge" => run'[q].pc # "idle"
      BY <1>6, OpenSync, AskSync, FailSync
    <2> QED
      BY <1>0, <2>1 DEF CompletesRightly
  <1>7. ASSUME NEW r \in Runs, Sync!Merge(r)
        PROVE  SyncInv' /\ cursor' >= cursor /\ CompletesRightly
    BY <1>7, MergeSync DEF CompletesRightly
  <1> QED
    BY <1>1, <1>2, <1>3, <1>4, <1>5, <1>6, <1>7 DEF Sync!Next, Sync!CatchUp

LEMMA SyncSteps ==
    ASSUME SyncInv, [Next]_vars
    PROVE  /\ SyncInv'
           /\ [cursor' >= cursor]_Sync!vars
           /\ [CompletesRightly]_Sync!vars
  <1>1. CASE SyncNext
    BY <1>1, SyncStep DEF SyncNext
  <1>2. CASE UNCHANGED syncVars
    <2>1. SyncInv'
      BY <1>2 DEF syncVars, SyncInv, Sync!TypeOK, WritersOK, QueueOK, Sync!CursorIsReceived,
                  RunsOK, RunOK
    <2> QED
      BY <1>2, <2>1 DEF syncVars, Sync!vars
  <1> QED
    BY <1>1, <1>2 DEF Next, OutboxNext, ScreenNext, vars

LEMMA SyncInvHolds == Spec => []SyncInv
  <1>1. Init => SyncInv
    BY SyncInit DEF Init
  <1>2. SyncInv /\ [Next]_vars => SyncInv'
    BY SyncSteps
  <1> QED
    BY <1>1, <1>2, PTL DEF Spec

\* The cursor names a message that the client has processed, and a catch-up that
\* ends well has brought all that was stored above its snapshot, whatever is
\* written, edited, received, lost or broken meanwhile (catchUpConversation).
THEOREM CatchUpIsRight == Spec => CatchUpHolds
  <1>1. SyncInv => Sync!CursorIsReceived
    BY DEF SyncInv
  <1>2. SyncInv /\ [Next]_vars
          => [\A r \in Runs : (run[r].pc = "merge" /\ run'[r].pc = "idle")
                                => run[r].due \subseteq received']_(Sync!vars)
    BY SyncSteps DEF CompletesRightly
  <1> QED
    BY <1>1, <1>2, SyncInvHolds, PTL DEF Spec, CatchUpHolds, Sync!CatchUpIsComplete

-----------------------------------------------------------------------------
(* Receiving: nothing falls behind the cursor.                               *)

\* The client of a quiet conversation: one request at a time writes, only connections
\* break, and the queue holds what can be on its way.
Orderly ==
    /\ \A v, w \in Workers : v = w
    /\ Faults \subseteq {"drop", "note"}
    /\ MaxId <= QueueSize

\* A catch-up under way will bring m.
Brings(m) ==
    \E r \in Runs :
      \/ run[r].pc = "ask" /\ run[r].after < m
      \/ run[r].pc = "merge" /\ (m \in run[r].page \/ (run[r].more /\ run[r].after < m))

\* What is being written is the newest, and there is room for it.
WriterInOrder(w) ==
    /\ ~writer[w].own /\ writer[w].pc # "reply"
    /\ writer[w].pc # "idle" =>
         /\ writer[w].id + 1 = nextId /\ Len(queue) + 2 <= nextId
         /\ \A i \in 1 .. Len(queue) : queue[i] < writer[w].id
    /\ writer[w].pc = "commit" => writer[w].id \notin stored

\* Events come in the order of the ids.
QueueInOrder ==
    /\ Len(queue) + 1 <= nextId /\ \A m \in stored : m < nextId
    /\ \A i, j \in 1 .. Len(queue) : i < j => queue[i] < queue[j]

\* A catch-up is behind the cursor, and its page leaves nothing out.
RunInOrder(x) ==
    /\ x.pc # "failed"
    /\ x.pc # "idle" => x.after <= cursor
    /\ x.pc = "merge" => \A k \in x.page, m \in stored : x.after < m /\ m < k => m \in x.page

\* What the cursor has passed and the client has not, a catch-up brings.
PassedIsBrought == \A m \in stored \ received : m > cursor \/ Brings(m)

\* While the client is connected, the rest is in the queue or about to be.
RestIsSent ==
    link = "up" =>
      \A m \in stored \ received :
        \/ Brings(m)
        \/ \E i \in 1 .. Len(queue) : queue[i] = m
        \/ \E w \in Workers : writer[w].pc = "broadcast" /\ writer[w].id = m

FallInv ==
    /\ link \in {"down", "up"}
    /\ \A w \in Workers : WriterInOrder(w)
    /\ QueueInOrder /\ (\A r \in Runs : RunInOrder(run[r])) /\ PassedIsBrought /\ RestIsSent

LEMMA FallNumbers ==
    ASSUME SyncInv
    PROVE  /\ cursor \in Nat /\ nextId \in Nat /\ nextId <= MaxId + 1 /\ MaxId \in Nat
           /\ queue \in Seq(Sync!Ids) /\ Len(queue) \in Nat
           /\ \A i \in 1 .. Len(queue) : queue[i] \in Nat /\ queue[i] \in stored
           /\ \A m \in stored : m \in Nat /\ m \in Sync!Ids /\ m > 0
           /\ received \subseteq stored
           /\ cursor \in received \cup {0}
           /\ \A r \in Runs : /\ run[r] \in RunRecords /\ run[r].after \in Nat
                              /\ run[r].page \subseteq Sync!Ids
           /\ \A w \in Workers : writer[w] \in WriterRecords /\ writer[w].id \in Nat
  <1>1. MaxId \in Nat /\ Sync!Ids = 1 .. MaxId
    BY SyncNumbers
  <1>2. /\ \A r \in Runs : run[r] \in RunRecords
        /\ \A w \in Workers : writer[w] \in WriterRecords
        /\ cursor \in 0 .. MaxId /\ nextId \in 1 .. MaxId + 1
        /\ queue \in Seq(Sync!Ids) /\ stored \subseteq Sync!Ids
    BY SyncTypes DEF SyncInv
  <1>3. /\ \A r \in Runs : run[r].after \in Nat /\ run[r].page \subseteq Sync!Ids
        /\ \A w \in Workers : writer[w].id \in Nat
    BY <1>1, <1>2 DEF RunRecords, WriterRecords
  <1>4. cursor \in received \cup {0} /\ received \subseteq stored
    BY SyncTypes DEF SyncInv, Sync!CursorIsReceived
  <1>5. Len(queue) \in Nat /\ \A i \in 1 .. Len(queue) : queue[i] \in Nat /\ queue[i] \in stored
    BY <1>1, <1>2 DEF SyncInv, QueueOK
  <1> QED
    BY <1>1, <1>2, <1>3, <1>4, <1>5

LEMMA FallInit == Sync!Init => FallInv
  <1> SUFFICES ASSUME Sync!Init PROVE FallInv
    OBVIOUS
  <1>1. /\ link = "up" /\ stored = {} /\ nextId = 1 /\ Len(queue) = 0
        /\ \A w \in Workers : writer[w].pc = "idle" /\ writer[w].own = FALSE
        /\ \A r \in Runs : run[r].pc = "idle"
    BY DEF Sync!Init, Sync!NoWrite, Sync!NoRun
  <1> QED
    BY <1>1 DEF FallInv, WriterInOrder, QueueInOrder, RunInOrder, PassedIsBrought, RestIsSent

LEMMA InsertFalls ==
    ASSUME SyncInv, FallInv, Orderly, NEW w \in Workers, NEW locked \in BOOLEAN,
           NEW own \in BOOLEAN, Sync!Insert(w, locked, own)
    PROVE  FallInv'
  <1>1. /\ writer' = [writer EXCEPT ![w] = [pc |-> "commit", id |-> nextId, own |-> own]]
        /\ nextId' = nextId + 1 /\ ~own
        /\ UNCHANGED <<stored, link, queue, cursor, received, run>>
    BY DEF Sync!Insert, Sync!client, Orderly
  <1>2. writer \in [Workers -> WriterRecords]
    BY SyncTypes DEF SyncInv
  <1>3. /\ writer'[w].pc = "commit" /\ writer'[w].id = nextId /\ writer'[w].own = own
        /\ \A v \in Workers : v = w
    BY <1>1, <1>2 DEF Orderly
  <1>4. /\ Len(queue) + 1 <= nextId /\ Len(queue) \in Nat /\ nextId \in Nat
        /\ \A m \in stored : m < nextId /\ m \in Nat
        /\ \A i \in 1 .. Len(queue) : queue[i] \in stored
    BY FallNumbers DEF FallInv, QueueInOrder
  <1>5. \A v \in Workers : WriterInOrder(v)'
    <2>1. /\ nextId + 1 = nextId' /\ Len(queue) + 2 <= nextId'
          /\ \A i \in 1 .. Len(queue) : queue[i] < nextId
          /\ nextId \notin stored
      BY <1>1, <1>4
    <2> QED
      BY <1>1, <1>3, <2>1 DEF WriterInOrder
  <1>6. QueueInOrder'
    <2>1. Len(queue) + 1 <= nextId' /\ \A m \in stored : m < nextId'
      BY <1>1, <1>4
    <2> QED
      BY <1>1, <2>1 DEF FallInv, QueueInOrder
  <1>7. writer[w].pc = "idle"
    BY DEF Sync!Insert
  <1>8. /\ \A r \in Runs : RunInOrder(run[r])'
        /\ PassedIsBrought' /\ RestIsSent'
    BY <1>1, <1>3, <1>7 DEF FallInv, RunInOrder, PassedIsBrought, RestIsSent, Brings
  <1> QED
    BY <1>1, <1>5, <1>6, <1>8 DEF FallInv

LEMMA CommitFalls ==
    ASSUME SyncInv, FallInv, Orderly, NEW w \in Workers, Sync!Commit(w)
    PROVE  FallInv'
  <1> DEFINE n == writer[w].id
  <1>1. /\ stored' = stored \cup {n} /\ writer[w].pc = "commit"
        /\ writer' = [writer EXCEPT ![w].pc = "broadcast"]
        /\ UNCHANGED <<nextId, link, queue, cursor, received, run>>
    BY DEF Sync!Commit, Sync!client
  <1>2. writer \in [Workers -> WriterRecords] /\ \A v \in Workers : v = w
    BY SyncTypes DEF SyncInv, Orderly
  <1>3. writer'[w].pc = "broadcast" /\ writer'[w].id = n /\ writer'[w].own = writer[w].own
    BY <1>1, <1>2 DEF WriterRecords
  <1>4. /\ n + 1 = nextId /\ n \in Nat /\ n \notin stored /\ n \notin received /\ nextId \in Nat
        /\ \A m \in stored : m < n /\ m \in Nat
        /\ cursor < n /\ cursor \in Nat
    <2>1. n + 1 = nextId /\ n \in Nat /\ n \notin stored /\ nextId \in Nat
      BY <1>1, FallNumbers DEF FallInv, WriterInOrder
    <2>2. n > 0
      BY <1>1, <1>2, SyncNumbers DEF SyncInv, WritersOK
    <2>3. \A m \in stored : m < nextId /\ m \in Nat /\ m # n
      BY <2>1, FallNumbers DEF FallInv, QueueInOrder
    <2>4. \A m \in stored : m < n
      BY <2>1, <2>3
    <2> QED
      BY <2>1, <2>2, <2>3, <2>4, FallNumbers
  <1> HIDE DEF n
  <1>5. \A v \in Workers : WriterInOrder(v)'
    BY <1>1, <1>2, <1>3 DEF FallInv, WriterInOrder
  <1>6. QueueInOrder'
    BY <1>1, <1>4 DEF FallInv, QueueInOrder
  <1>7. ASSUME NEW r \in Runs PROVE RunInOrder(run[r])'
    <2>1. \A k \in run[r].page : run[r].pc = "merge" => k \in stored
      BY DEF SyncInv, RunsOK, RunOK
    <2>2. \A k \in run[r].page : run[r].pc = "merge" => ~(n < k)
      BY <1>4, <2>1
    <2> QED
      BY <1>1, <2>2 DEF FallInv, RunInOrder
  <1>8. PassedIsBrought'
    BY <1>1, <1>4 DEF FallInv, PassedIsBrought, Brings
  <1>9. RestIsSent'
    BY <1>1, <1>2, <1>3 DEF FallInv, RestIsSent, Brings
  <1> QED
    BY <1>1, <1>5, <1>6, <1>7, <1>8, <1>9 DEF FallInv

LEMMA BroadcastFalls ==
    ASSUME SyncInv, FallInv, Orderly, NEW w \in Workers, Sync!Broadcast(w)
    PROVE  FallInv'
  <1> DEFINE n == writer[w].id
  <1>1. /\ writer[w].pc = "broadcast" /\ ~writer[w].own /\ \A v \in Workers : v = w
        /\ n + 1 = nextId /\ Len(queue) + 2 <= nextId /\ n \in Sync!Ids
        /\ \A i \in 1 .. Len(queue) : queue[i] < n
    BY DEF Sync!Broadcast, FallInv, WriterInOrder, Orderly, SyncInv, WritersOK
  <1>2. /\ writer' = [writer EXCEPT ![w] = Sync!NoWrite] /\ writer \in [Workers -> WriterRecords]
        /\ UNCHANGED <<stored, nextId, cursor, received, run>>
    BY <1>1, SyncTypes DEF Sync!Broadcast, Sync!Answered, Sync!client, SyncInv
  <1>3. \A v \in Workers : writer'[v].pc = "idle" /\ ~writer'[v].own
    BY <1>1, <1>2 DEF Sync!NoWrite
  <1>4. \A v \in Workers : WriterInOrder(v)'
    BY <1>3 DEF WriterInOrder
  <1>5. (\A r \in Runs : RunInOrder(run[r])') /\ PassedIsBrought'
    BY <1>2 DEF FallInv, RunInOrder, PassedIsBrought, Brings
  <1>6. /\ Len(queue) \in Nat /\ queue \in Seq(Sync!Ids) /\ nextId \in Nat /\ n \in Nat
        /\ Len(queue) < QueueSize
    BY <1>1, FallNumbers, SyncNumbers DEF Orderly
  <1>7. CASE link = "up"
    <2>1. queue' = Append(queue, n) /\ link' = link
      BY <1>6, <1>7, SyncNumbers DEF Sync!Broadcast
    <2> HIDE DEF n
    <2>2. /\ Len(queue') = Len(queue) + 1 /\ queue'[Len(queue) + 1] = n
          /\ \A i \in 1 .. Len(queue) : queue'[i] = queue[i]
          /\ Len(queue) + 1 \in 1 .. Len(queue')
          /\ \A i \in 1 .. Len(queue) : i \in 1 .. Len(queue')
          /\ \A i \in 1 .. Len(queue') : i \in 1 .. Len(queue) \/ i = Len(queue) + 1
      BY <1>1, <1>6, <2>1
    <2>3. QueueInOrder'
      <3>1. ASSUME NEW i \in 1 .. Len(queue'), NEW j \in 1 .. Len(queue'), i < j
            PROVE  queue'[i] < queue'[j]
        <4>1. CASE j \in 1 .. Len(queue)
          <5>1. i \in 1 .. Len(queue)
            BY <1>6, <3>1, <4>1
          <5> QED
            BY <2>2, <3>1, <4>1, <5>1 DEF FallInv, QueueInOrder
        <4>2. CASE j = Len(queue) + 1
          <5>1. i \in 1 .. Len(queue)
            BY <1>6, <2>2, <3>1, <4>2
          <5> QED
            BY <1>1, <2>2, <4>2, <5>1
        <4> QED
          BY <2>2, <4>1, <4>2
      <3>2. Len(queue') + 1 <= nextId'
        BY <1>1, <1>2, <1>6, <2>2
      <3> QED
        BY <1>2, <3>1, <3>2 DEF FallInv, QueueInOrder
    <2>4. RestIsSent'
      <3> SUFFICES ASSUME NEW m \in stored \ received
                   PROVE  Brings(m) \/ \E i \in 1 .. Len(queue') : queue'[i] = m
        BY <1>2 DEF RestIsSent, Brings
      <3>1. \/ Brings(m) \/ (\E i \in 1 .. Len(queue) : queue[i] = m)
            \/ \E v \in Workers : writer[v].pc = "broadcast" /\ writer[v].id = m
        BY <1>7 DEF FallInv, RestIsSent
      <3>2. (\E v \in Workers : writer[v].pc = "broadcast" /\ writer[v].id = m) => m = n
        BY <1>1 DEF n
      <3> QED
        BY <2>2, <3>1, <3>2
    <2> QED
      BY <1>4, <1>5, <2>1, <2>3, <2>4 DEF FallInv
  <1>8. CASE link = "down"
    <2>1. UNCHANGED <<link, queue>>
      BY <1>8 DEF Sync!Broadcast
    <2> QED
      BY <1>2, <1>4, <1>5, <1>8, <2>1 DEF FallInv, QueueInOrder, RestIsSent
  <1> QED
    BY <1>7, <1>8 DEF FallInv

LEMMA ReceiveFalls ==
    ASSUME SyncInv, FallInv, Sync!Receive
    PROVE  FallInv'
  <1> DEFINE h == Head(queue)
  <1>1. /\ queue # <<>> /\ Sync!Process({h}) /\ queue' = Tail(queue) /\ link = "up"
        /\ UNCHANGED <<stored, nextId, writer, link, run>>
    BY DEF Sync!Receive, Sync!server, FallInv
  <1>2. /\ Len(queue) \in Nat /\ Len(queue) > 0 /\ h = queue[1] /\ 1 \in 1 .. Len(queue)
        /\ Len(queue') = Len(queue) - 1 /\ Len(queue') \in Nat
        /\ \A i \in 1 .. Len(queue') : queue'[i] = queue[i + 1] /\ i + 1 \in 1 .. Len(queue)
        /\ \A i \in 1 .. Len(queue) : i # 1 => i - 1 \in 1 .. Len(queue') /\ i = (i - 1) + 1 /\ 1 < i
    <2>1. queue \in Seq(Sync!Ids)
      BY FallNumbers
    <2>2. Len(queue) \in Nat /\ Len(queue) > 0 /\ h = queue[1] /\ Len(queue') = Len(queue) - 1
      BY <1>1, <2>1
    <2>3. \A i \in 1 .. Len(queue') : queue'[i] = queue[i + 1]
      BY <1>1, <2>1
    <2> QED
      BY <2>2, <2>3
  <1>3. h \in stored /\ h \in Nat /\ h > 0 /\ h \in Sync!Ids
    BY <1>2, FallNumbers
  <1>4. received' = received \cup {h} /\ cursor' = Sync!Larger(cursor, h)
    <2>1. Sync!Newest({h}) = h
      <3> HIDE DEF h
      <3>1. {h} \in SUBSET Sync!Ids
        BY <1>3
      <3>2. Sync!Newest({h}) \in {h, 0} /\ h <= Sync!Newest({h})
        BY <3>1, NewestIsLargest
      <3> QED
        BY <1>3, <3>2
    <2> QED
      BY <1>1, <2>1 DEF Sync!Process
  <1>5. cursor \in Nat /\ cursor' \in {cursor, h} /\ cursor' >= cursor /\ cursor' \in Nat
    BY <1>3, <1>4, FallNumbers, LargerIsMaximum
  <1> HIDE DEF h
  <1>6. \A i \in 1 .. Len(queue) : queue[i] \in Nat /\ (i # 1 => h < queue[i])
    BY <1>2, FallNumbers DEF FallInv, QueueInOrder
  <1>7. \A w \in Workers : WriterInOrder(w)'
    <2> TAKE w \in Workers
    <2>1. writer[w].pc # "idle" => Len(queue') + 2 <= nextId
      BY <1>2, FallNumbers DEF FallInv, WriterInOrder
    <2>2. \A i \in 1 .. Len(queue') : writer[w].pc # "idle" => queue'[i] < writer[w].id
      BY <1>2 DEF FallInv, WriterInOrder
    <2> QED
      BY <1>1, <2>1, <2>2 DEF FallInv, WriterInOrder
  <1>8. QueueInOrder'
    <2>1. Len(queue') + 1 <= nextId
      BY <1>2, FallNumbers DEF FallInv, QueueInOrder
    <2>2. ASSUME NEW i \in 1 .. Len(queue'), NEW j \in 1 .. Len(queue'), i < j
          PROVE  queue'[i] < queue'[j]
      <3>1. i + 1 < j + 1
        BY <2>2
      <3> QED
        BY <1>2, <2>2, <3>1 DEF FallInv, QueueInOrder
    <2> QED
      BY <1>1, <2>1, <2>2 DEF FallInv, QueueInOrder
  <1>9. \A r \in Runs : RunInOrder(run[r])'
    <2> TAKE r \in Runs
    <2>1. run[r].pc # "idle" => run[r].after <= cursor'
      BY <1>5, FallNumbers DEF FallInv, RunInOrder
    <2> QED
      BY <1>1, <2>1 DEF FallInv, RunInOrder
  <1>10. ASSUME NEW m \in stored \ received'
         PROVE  \/ Brings(m)
                \/ \E i \in 1 .. Len(queue) : i # 1 /\ queue[i] = m
                \/ \E w \in Workers : writer[w].pc = "broadcast" /\ writer[w].id = m
    <2>1. m \in stored \ received /\ m # h
      BY <1>4, <1>10
    <2> QED
      BY <1>1, <1>2, <2>1 DEF FallInv, RestIsSent
  <1>11. PassedIsBrought'
    <2> SUFFICES ASSUME NEW m \in stored \ received', ~Brings(m) PROVE m > cursor'
      BY <1>1 DEF PassedIsBrought, Brings
    <2>1. m > cursor /\ m \in Nat
      BY <1>4, FallNumbers DEF FallInv, PassedIsBrought
    <2>2. h < m
      <3>1. CASE \E i \in 1 .. Len(queue) : i # 1 /\ queue[i] = m
        BY <1>6, <3>1
      <3>2. CASE \E w \in Workers : writer[w].pc = "broadcast" /\ writer[w].id = m
        BY <1>2, <3>2 DEF FallInv, WriterInOrder
      <3> QED
        BY <1>10, <3>1, <3>2
    <2> QED
      BY <1>3, <1>5, <2>1, <2>2
  <1>12. RestIsSent'
    <2>1. ASSUME NEW i \in 1 .. Len(queue), i # 1
          PROVE  \E j \in 1 .. Len(queue') : queue'[j] = queue[i]
      BY <1>2, <2>1
    <2> SUFFICES ASSUME NEW m \in stored \ received'
                 PROVE  \/ Brings(m) \/ \E j \in 1 .. Len(queue') : queue'[j] = m
                        \/ \E w \in Workers : writer[w].pc = "broadcast" /\ writer[w].id = m
      BY <1>1 DEF RestIsSent, Brings
    <2> QED
      BY <1>10, <2>1
  <1> QED
    BY <1>1, <1>7, <1>8, <1>9, <1>11, <1>12 DEF FallInv

LEMMA SocketFalls ==
    ASSUME SyncInv, FallInv, Sync!Drop \/ Sync!Unregister \/ Sync!Register
    PROVE  FallInv'
  <1>1. /\ link' = "down" /\ queue' = <<>>
        /\ UNCHANGED <<stored, nextId, writer, cursor, received, run>>
    BY DEF Sync!Drop, Sync!Unregister, Sync!Register, Sync!Closed, Sync!server, Sync!client, FallInv
  <1>2. /\ Len(queue') = 0 /\ Len(queue) \in Nat /\ nextId \in Nat
        /\ \A i \in 1 .. Len(queue') : FALSE
    BY <1>1, FallNumbers
  <1>3. \A w \in Workers : WriterInOrder(w)'
    <2> TAKE w \in Workers
    <2>1. writer[w].pc # "idle" => Len(queue') + 2 <= nextId
      BY <1>2 DEF FallInv, WriterInOrder
    <2> QED
      BY <1>1, <1>2, <2>1 DEF FallInv, WriterInOrder
  <1>4. QueueInOrder'
    <2>1. Len(queue') + 1 <= nextId
      BY <1>2 DEF FallInv, QueueInOrder
    <2> QED
      BY <1>1, <1>2, <2>1 DEF FallInv, QueueInOrder
  <1>5. (\A r \in Runs : RunInOrder(run[r])') /\ PassedIsBrought' /\ RestIsSent'
    BY <1>1 DEF FallInv, RunInOrder, PassedIsBrought, RestIsSent, Brings
  <1> QED
    BY <1>1, <1>3, <1>4, <1>5 DEF FallInv

\* One catch-up goes on, and may bring more.
LEMMA RunFalls ==
    ASSUME SyncInv, FallInv, NEW r \in Runs, NEW x \in RunRecords, run' = [run EXCEPT ![r] = x],
           UNCHANGED <<stored, nextId, writer, queue>>, RunInOrder(x)',
           received \subseteq received', cursor' \in Nat, cursor' >= cursor,
           \A m \in stored \ received' : Brings(m) \/ m > cursor => m > cursor' \/ Brings(m)',
           \A m \in stored \ received' : Brings(m) => Brings(m)',
           \/ UNCHANGED link
           \/ link' = "up" /\ \A m \in stored \ received' : m > cursor => Brings(m)'
    PROVE  FallInv'
  <1>1. /\ run \in [Runs -> RunRecords] /\ run'[r] = x
        /\ \A q \in Runs : q # r => run'[q] = run[q]
    BY SyncTypes DEF SyncInv
  <1>2. \A q \in Runs : RunInOrder(run[q])'
    <2> TAKE q \in Runs
    <2>1. run[q].pc # "idle" => run[q].after <= cursor'
      BY FallNumbers DEF FallInv, RunInOrder
    <2> QED
      BY <1>1, <2>1 DEF FallInv, RunInOrder
  <1>3. (\A w \in Workers : WriterInOrder(w)') /\ QueueInOrder'
    BY DEF FallInv, WriterInOrder, QueueInOrder
  <1>4. ASSUME NEW m \in stored \ received' PROVE m > cursor \/ Brings(m)
    BY DEF FallInv, PassedIsBrought
  <1>5. PassedIsBrought'
    BY <1>4 DEF PassedIsBrought
  <1>6. RestIsSent'
    <2>1. CASE UNCHANGED link
      BY <2>1 DEF FallInv, RestIsSent
    <2>2. CASE \A m \in stored \ received' : m > cursor => Brings(m)'
      BY <1>4, <2>2 DEF RestIsSent
    <2> QED
      BY <2>1, <2>2
  <1> QED
    BY <1>2, <1>3, <1>5, <1>6 DEF FallInv

LEMMA OpenFalls ==
    ASSUME SyncInv, FallInv, Orderly, NEW r \in Runs, Sync!Open(r) \/ Sync!Refresh(r)
    PROVE  FallInv'
  <1>0. PICK x : x = [Sync!NoRun EXCEPT !.pc = "ask", !.after = cursor,
                                        !.due = Sync!Above(stored, cursor)]
    OBVIOUS
  <1>1. /\ run' = [run EXCEPT ![r] = x] /\ run[r].pc = "idle"
        /\ link' = link \/ link' = "up"
        /\ UNCHANGED <<stored, nextId, writer, queue, cursor, received>>
    BY <1>0 DEF Sync!Open, Sync!Refresh, Sync!Started, Sync!server, Sync!client, Orderly, FallInv, RunInOrder
  <1>2. run \in [Runs -> RunRecords] /\ cursor \in Nat
    BY SyncTypes, FallNumbers DEF SyncInv
  <1>3. x.pc = "ask" /\ x.after = cursor
    BY <1>0 DEF Sync!NoRun
  <1>4. x \in RunRecords
    <2>1. run' \in [Runs -> RunRecords]
      BY OpenSync DEF SyncInv, Sync!TypeOK, RunRecords
    <2>2. run'[r] = x
      BY <1>1, <1>2
    <2> QED
      BY <2>1, <2>2
  <1>5. run'[r] = x /\ \A q \in Runs : q # r => run'[q] = run[q]
    BY <1>1, <1>2
  <1>6. ASSUME NEW m \in stored
        PROVE  /\ Brings(m) => Brings(m)'
               /\ m > cursor => Brings(m)'
    <2>1. m \in Nat
      BY FallNumbers
    <2> QED
      BY <1>1, <1>2, <1>3, <1>5, <2>1 DEF Brings
  <1>7. RunInOrder(x)'
    BY <1>1, <1>2, <1>3 DEF RunInOrder
  <1>8. received \subseteq received' /\ cursor' \in Nat /\ cursor' >= cursor
    BY <1>1, <1>2
  <1>9. \A m \in stored \ received' : (Brings(m) => Brings(m)') /\ (m > cursor => Brings(m)')
    BY <1>6
  <1> QED
    BY <1>1, <1>4, <1>7, <1>8, <1>9, RunFalls

LEMMA AskFalls ==
    ASSUME SyncInv, FallInv, NEW r \in Runs, Sync!Ask(r)
    PROVE  FallInv'
  <1> DEFINE rest == Sync!Above(stored, run[r].after)
             got == PageOf(rest)
  <1>0. PICK x : x = [run[r] EXCEPT !.pc = "merge", !.page = got, !.more = (got # rest)]
    OBVIOUS
  <1>1. /\ run[r].pc = "ask" /\ run' = [run EXCEPT ![r] = x]
        /\ UNCHANGED <<stored, nextId, writer, link, queue, cursor, received>>
    BY <1>0 DEF Sync!Ask, PageOf, Sync!server, Sync!client
  <1>2. run \in [Runs -> RunRecords] /\ cursor \in Nat /\ stored \subseteq Sync!Ids
    BY SyncTypes, FallNumbers DEF SyncInv
  <1>3. rest \in SUBSET Sync!Ids /\ \A m \in stored : m \in rest <=> m > run[r].after
    BY <1>2 DEF Sync!Above
  <1>4. got \subseteq rest /\ \A m \in rest, k \in got : m <= k => m \in got
    <2> HIDE DEF rest
    <2> QED
      BY <1>3, PageIsBeginning
  <1>5. x \in RunRecords
    <2>1. run' \in [Runs -> RunRecords]
      BY AskSync DEF SyncInv, Sync!TypeOK, RunRecords
    <2>2. run'[r] = x
      BY <1>1, <1>2
    <2> QED
      BY <2>1, <2>2
  <1> HIDE DEF rest, got
  <1>6. /\ x.pc = "merge" /\ x.after = run[r].after /\ x.page = got
        /\ x.more = (got # rest)
    BY <1>0, <1>2 DEF RunRecords
  <1>7. run'[r] = x /\ \A q \in Runs : q # r => run'[q] = run[q]
    BY <1>1, <1>2
  <1>8. ASSUME NEW m \in stored, Brings(m) PROVE Brings(m)'
    <2>1. CASE run[r].after < m
      <3>1. m \in rest
        BY <1>3, <2>1, FallNumbers
      <3>2. m \in x.page \/ x.more
        BY <1>6, <3>1
      <3> QED
        BY <1>6, <1>7, <2>1, <3>2 DEF Brings
    <2>2. CASE ~(run[r].after < m)
      BY <1>1, <1>7, <1>8, <2>2 DEF Brings
    <2> QED
      BY <2>1, <2>2
  <1>9. RunInOrder(x)'
    <2>1. ASSUME NEW k \in got, NEW m \in stored, run[r].after < m, m < k PROVE m \in got
      <3>1. m \in rest /\ m \in Nat /\ k \in Nat
        BY <1>3, <1>4, <2>1, FallNumbers, IdsAreNumbers
      <3> QED
        BY <1>4, <2>1, <3>1
    <2> QED
      BY <1>1, <1>6, <2>1 DEF FallInv, RunInOrder
  <1>10. received \subseteq received' /\ cursor' \in Nat /\ cursor' >= cursor
    BY <1>1, <1>2
  <1>11. \A m \in stored \ received' : Brings(m) => Brings(m)'
    BY <1>8
  <1>12. \A m \in stored \ received' : m > cursor => m > cursor'
    BY <1>1
  <1> QED
    BY <1>1, <1>5, <1>9, <1>10, <1>11, <1>12, RunFalls

LEMMA MergeFalls ==
    ASSUME SyncInv, FallInv, NEW r \in Runs, Sync!Merge(r)
    PROVE  FallInv'
  <1> DEFINE newest == Sync!Newest(run[r].page)
             after == Sync!Larger(run[r].after, newest)
  <1>1. /\ run[r].pc = "merge" /\ Sync!Process(run[r].page)
        /\ UNCHANGED <<stored, nextId, writer, link, queue>>
    BY DEF Sync!Merge, Sync!server
  <1>2. /\ run \in [Runs -> RunRecords] /\ cursor \in Nat /\ run[r].after \in Nat
        /\ run[r].page \in SUBSET Sync!Ids /\ run[r].after <= cursor
        /\ \A k \in run[r].page, m \in stored : run[r].after < m /\ m < k => m \in run[r].page
        /\ run[r].more => \E k \in run[r].page : k > run[r].after
    BY <1>1, SyncTypes, FallNumbers, TheRun DEF SyncInv, FallInv, RunInOrder, RunOK
  <1>3. /\ newest \in run[r].page \cup {0} /\ newest \in Nat
        /\ \A m \in run[r].page : m <= newest
    BY <1>2, NewestIsLargest, SyncNumbers
  <1>4. received' = received \cup run[r].page /\ cursor' = Sync!Larger(cursor, newest)
    BY <1>1 DEF Sync!Process
  <1> HIDE DEF newest
  <1>5. /\ cursor' \in {cursor, newest} /\ cursor' >= cursor /\ cursor' >= newest /\ cursor' \in Nat
        /\ after \in {run[r].after, newest} /\ after >= run[r].after /\ after >= newest
        /\ after \in Nat
    BY <1>2, <1>3, <1>4, LargerIsMaximum
  <1>6. after <= cursor'
    BY <1>2, <1>5
  <1>7. ASSUME NEW m \in stored, m \notin run[r].page, run[r].after < m PROVE newest < m
    <2>1. m \in Nat /\ m > 0
      BY FallNumbers
    <2>2. CASE newest = 0
      BY <2>1, <2>2
    <2>3. CASE newest \in run[r].page
      <3>1. ~(m < newest) /\ m # newest
        BY <1>2, <1>7, <2>3
      <3> QED
        BY <1>3, <2>1, <3>1
    <2> QED
      BY <1>3, <2>2, <2>3
  <1>8. \A m \in stored \ received' : m > cursor => m > cursor'
    <2> SUFFICES ASSUME NEW m \in stored \ received', m > cursor PROVE m > cursor'
      OBVIOUS
    <2>1. m \in Nat /\ run[r].after < m /\ m \notin run[r].page
      BY <1>2, <1>4, FallNumbers
    <2> QED
      BY <1>2, <1>3, <1>5, <1>7, <2>1
  <1>9. CASE run[r].more
    <2>1. after > run[r].after
      <3>1. PICK k \in run[r].page : k > run[r].after
        BY <1>2, <1>9
      <3>2. k \in Nat /\ k <= newest
        BY <1>2, <1>3, IdsAreNumbers
      <3> QED
        BY <1>2, <1>3, <1>5, <3>1, <3>2
    <2>0. PICK x : x = [run[r] EXCEPT !.pc = "ask", !.after = after, !.page = {}]
      OBVIOUS
    <2>2. run' = [run EXCEPT ![r] = x]
      BY <1>9, <2>0, <2>1 DEF Sync!Merge, newest
    <2> HIDE DEF after
    <2>3. x.pc = "ask" /\ x.after = after
      BY <1>2, <2>0 DEF RunRecords
    <2>4. x \in RunRecords
      <3>1. run' \in [Runs -> RunRecords]
        BY MergeSync DEF SyncInv, Sync!TypeOK, RunRecords
      <3>2. run'[r] = x
        BY <1>2, <2>2
      <3> QED
        BY <3>1, <3>2
    <2>5. run'[r] = x /\ \A q \in Runs : q # r => run'[q] = run[q]
      BY <1>2, <2>2
    <2>6. ASSUME NEW m \in stored \ received', Brings(m) PROVE Brings(m)'
      <3>1. m \in Nat /\ m \notin run[r].page /\ m \in stored
        BY <1>4, FallNumbers
      <3>2. CASE run[r].after < m
        <4>1. after < m
          BY <1>2, <1>3, <1>5, <1>7, <3>1, <3>2
        <4> QED
          BY <2>3, <2>5, <4>1 DEF Brings
      <3>3. CASE ~(run[r].after < m)
        BY <1>1, <2>5, <2>6, <3>1, <3>3 DEF Brings
      <3> QED
        BY <3>2, <3>3
    <2>7. RunInOrder(x)'
      BY <1>6, <2>3 DEF RunInOrder
    <2> QED
      BY <1>1, <1>4, <1>5, <1>8, <2>2, <2>4, <2>6, <2>7, RunFalls
  <1>10. CASE ~run[r].more
    <2>1. run' = [run EXCEPT ![r] = Sync!NoRun]
      BY <1>10 DEF Sync!Merge
    <2>2. Sync!NoRun \in RunRecords /\ Sync!NoRun.pc = "idle"
      BY NoRunOK DEF Sync!NoRun
    <2>3. \A q \in Runs : q # r => run'[q] = run[q]
      BY <1>2, <2>1
    <2>4. \A m \in stored \ received' : Brings(m) => Brings(m)'
      BY <1>1, <1>4, <1>10, <2>3 DEF Brings
    <2>5. RunInOrder(Sync!NoRun)'
      BY <2>2 DEF RunInOrder
    <2> QED
      BY <1>1, <1>4, <1>5, <1>8, <2>1, <2>2, <2>4, <2>5, RunFalls
  <1> QED
    BY <1>9, <1>10

LEMMA FallSteps ==
    ASSUME SyncInv, FallInv, Orderly, [Next]_vars
    PROVE  FallInv'
  <1>1. ASSUME Sync!Next PROVE FallInv'
    <2>1. \A w \in Workers : ~Sync!Lose(w) /\ ~Sync!Reply(w) /\ \A m \in Sync!Ids : ~Sync!Edit(w, m)
      BY DEF Sync!Lose, Sync!Reply, Sync!Edit, Sync!Fault, Orderly, FallInv, WriterInOrder
    <2>2. \A r \in Runs : ~Sync!Fail(r)
      BY DEF Sync!Fail, Sync!Fault, Orderly
    <2> QED
      BY <1>1, <2>1, <2>2, InsertFalls, CommitFalls, BroadcastFalls, ReceiveFalls, SocketFalls,
         OpenFalls, AskFalls, MergeFalls
      DEF Sync!Next, Sync!Write, Sync!CatchUp
  <1>2. ASSUME UNCHANGED syncVars PROVE FallInv'
    BY <1>2 DEF syncVars, FallInv, WriterInOrder, QueueInOrder, RunInOrder, PassedIsBrought,
                RestIsSent, Brings
  <1> QED
    BY <1>1, <1>2 DEF Next, SyncNext, OutboxNext, ScreenNext, vars

\* What the client misses is ahead of its cursor or being fetched, so that live events
\* may overtake a catch-up (snapshotCatchUpCursors, advanceRealtimeCursor) and
\* connections may break at any time: as long as one request at a time writes to the
\* conversation, its requests do not fail and its queue does not overflow.
THEOREM NothingIsPassed == Spec => [](Orderly => NothingFallsBehind)
  <1>1. Orderly => (FallInv => NothingFallsBehind)
    BY DEF FallInv, PassedIsBrought, Brings, NothingFallsBehind, Sync!NothingFallsBehind,
           Sync!OnItsWay
  <1>2. Init => (Orderly => FallInv)
    BY FallInit DEF Init
  <1>3. SyncInv /\ (Orderly => FallInv) /\ [Next]_vars => (Orderly => FallInv)'
    BY FallSteps DEF Orderly
  <1> QED
    BY <1>1, <1>2, <1>3, SyncInvHolds, PTL DEF Spec

-----------------------------------------------------------------------------
(* Sending: the invariant.                                                   *)

PageStates == {"closed", "opening", "ready"}
EntryMaps == [Texts -> Outbox!EntryStates]
SendingStates == {"no", "sent", "stored", "error", "refused"}
SendingMaps == [Texts -> SendingStates]

OutboxTypes ==
    /\ page \in [Pages -> PageStates]
    /\ pending \in [Pages -> EntryMaps]
    /\ storage \in EntryMaps
    /\ sending \in [Pages -> SendingMaps]
    /\ retrying \in [Pages -> SUBSET Texts]
    /\ rows \in [Texts -> Nat]

\* A page in state c with entries e, requests s and messages z to send again: an entry
\* with a request says so, a closed page has neither requests nor messages to send
\* again, and what a request is said to have stored is stored.
PageOK(c, e, s, z, count) ==
    \A m \in Texts :
      /\ s[m] # "no" /\ e[m] # Outbox!NoEntry => e[m].state = "sending"
      /\ c = "closed" => s[m] = "no" /\ m \notin z
      /\ s[m] = "stored" => count[m] > 0

PagesOK == \A p \in Pages : PageOK(page[p], pending[p], sending[p], retrying[p], rows)

OutboxInv == OutboxTypes /\ PagesOK /\ Outbox!StoredOnce /\ Outbox!NothingIsLost

LEMMA NoEntryOK ==
    /\ Outbox!NoEntry \in Outbox!EntryStates
    /\ Outbox!NoEntry.state = "none" /\ Outbox!NoEntry.retryable = FALSE
    /\ Outbox!Nothing \in EntryMaps
    /\ \A m \in Texts : Outbox!Nothing[m] = Outbox!NoEntry
    /\ [m \in Texts |-> "no"] \in SendingMaps
  BY DEF Outbox!NoEntry, Outbox!Nothing, Outbox!EntryStates, EntryMaps, SendingMaps, SendingStates

LEMMA EntryShapes ==
    ASSUME NEW e \in Outbox!EntryStates
    PROVE  /\ e # Outbox!NoEntry => /\ e.state \in {"sending", "failed"}
                                    /\ e.retryable \in BOOLEAN
           /\ [e EXCEPT !.state = "sending"].state = "sending"
           /\ e.state \in {"sending", "failed"} \/ e.retryable =>
                /\ [e EXCEPT !.state = "sending"] \in Outbox!EntryStates \ {Outbox!NoEntry}
                /\ e # Outbox!NoEntry
  BY DEF Outbox!EntryStates, Outbox!NoEntry

LEMMA NewEntries ==
    ASSUME NEW s \in {"sending", "failed"}, NEW b \in BOOLEAN
    PROVE  /\ [state |-> s, retryable |-> b] \in Outbox!EntryStates
           /\ [state |-> s, retryable |-> b] # Outbox!NoEntry
           /\ [state |-> s, retryable |-> b].state = s
           /\ [[state |-> s, retryable |-> b] EXCEPT !.state = "sending"]
                = [state |-> "sending", retryable |-> b]
  BY DEF Outbox!EntryStates, Outbox!NoEntry

LEMMA OutboxInit == Outbox!Init => OutboxInv
  <1> SUFFICES ASSUME Outbox!Init PROVE OutboxInv
    OBVIOUS
  <1>1. OutboxTypes
    BY NoEntryOK DEF Outbox!Init, OutboxTypes, PageStates
  <1>2. PagesOK
    BY NoEntryOK DEF Outbox!Init, PagesOK, PageOK
  <1>3. Outbox!StoredOnce /\ Outbox!NothingIsLost
    BY DEF Outbox!Init, Outbox!StoredOnce, Outbox!NothingIsLost
  <1> QED
    BY <1>1, <1>2, <1>3 DEF OutboxInv

\* What the invariant says about one page.
LEMMA ThePage ==
    ASSUME OutboxInv, NEW p \in Pages
    PROVE  /\ page[p] \in PageStates /\ pending[p] \in EntryMaps
           /\ sending[p] \in SendingMaps /\ retrying[p] \in SUBSET Texts
           /\ page = [page EXCEPT ![p] = page[p]]
           /\ pending = [pending EXCEPT ![p] = pending[p]]
           /\ sending = [sending EXCEPT ![p] = sending[p]]
           /\ retrying = [retrying EXCEPT ![p] = retrying[p]]
           /\ PageOK(page[p], pending[p], sending[p], retrying[p], rows)
  BY DEF OutboxInv, OutboxTypes, PagesOK

\* One page gets to a state that is in order.
LEMMA OnePage ==
    ASSUME OutboxInv, NEW p \in Pages,
           NEW c \in PageStates, NEW e \in EntryMaps, NEW s \in SendingMaps,
           NEW z \in SUBSET Texts,
           page' = [page EXCEPT ![p] = c], pending' = [pending EXCEPT ![p] = e],
           sending' = [sending EXCEPT ![p] = s], retrying' = [retrying EXCEPT ![p] = z],
           rows' \in [Texts -> Nat], \A m \in Texts : rows'[m] >= rows[m],
           PageOK(c, e, s, z, rows')
    PROVE  /\ page' \in [Pages -> PageStates] /\ pending' \in [Pages -> EntryMaps]
           /\ sending' \in [Pages -> SendingMaps] /\ retrying' \in [Pages -> SUBSET Texts]
           /\ PagesOK'
           /\ \A q \in Pages : q # p => pending'[q] = pending[q]
           /\ pending'[p] = e
  <1>1. OutboxTypes /\ PagesOK
    BY DEF OutboxInv
  <1>2. /\ page' \in [Pages -> PageStates] /\ pending' \in [Pages -> EntryMaps]
        /\ sending' \in [Pages -> SendingMaps] /\ retrying' \in [Pages -> SUBSET Texts]
        /\ page'[p] = c /\ pending'[p] = e /\ sending'[p] = s /\ retrying'[p] = z
        /\ \A q \in Pages : q # p =>
             /\ page'[q] = page[q] /\ pending'[q] = pending[q]
             /\ sending'[q] = sending[q] /\ retrying'[q] = retrying[q]
    BY <1>1 DEF OutboxTypes
  <1>3. ASSUME NEW q \in Pages, q # p
        PROVE  PageOK(page[q], pending[q], sending[q], retrying[q], rows')
    <2>1. PageOK(page[q], pending[q], sending[q], retrying[q], rows)
      BY <1>1 DEF PagesOK
    <2>2. \A m \in Texts : rows[m] > 0 => rows'[m] > 0
      BY <1>1 DEF OutboxTypes
    <2> QED
      BY <2>1, <2>2 DEF PageOK
  <1>4. \A q \in Pages : PageOK(page'[q], pending'[q], sending'[q], retrying'[q], rows')
    BY <1>2, <1>3
  <1> QED
    BY <1>2, <1>4 DEF PagesOK

\* Rows come, one for a message, and do not go.
LEMMA Storing ==
    ASSUME OutboxInv, NEW m \in Texts, rows' \in {rows, Outbox!Store(m)}
    PROVE  /\ rows' \in [Texts -> Nat] /\ \A n \in Texts : rows'[n] >= rows[n]
           /\ Outbox!StoredOnce'
           /\ rows' = Outbox!Store(m) => rows'[m] > 0
  <1>1. rows \in [Texts -> Nat] /\ \A n \in Texts : rows[n] <= 1
    BY DEF OutboxInv, OutboxTypes, Outbox!StoredOnce
  <1>2. ASSUME NEW n \in Texts
        PROVE  /\ Outbox!Store(m)[n] \in {rows[n], 1}
               /\ Outbox!Store(m)[n] = 1 \/ n # m \/ rows[n] # 0
               /\ rows[n] = 0 \/ rows[n] = 1
    BY <1>1 DEF Outbox!Store
  <1>3. Outbox!Store(m) \in [Texts -> Nat]
    BY <1>1 DEF Outbox!Store
  <1>4. \A n \in Texts : Outbox!Store(m)[n] \in {rows[n], 1} /\ Outbox!Store(m)[n] >= rows[n]
                         /\ Outbox!Store(m)[n] <= 1
    BY <1>1, <1>2
  <1>5. Outbox!Store(m)[m] > 0
    BY <1>1 DEF Outbox!Store
  <1> QED
    BY <1>1, <1>3, <1>4, <1>5 DEF Outbox!StoredOnce

\* A page writes its entries: it loses none, but of messages that are stored.
LEMMA Persisting ==
    ASSUME OutboxInv, NEW p \in Pages, NEW e \in EntryMaps, Outbox!Persist(p, e), UNCHANGED rows,
           \A m \in Texts : pending[p][m] # Outbox!NoEntry /\ e[m] = Outbox!NoEntry => rows[m] > 0
    PROVE  /\ pending' = [pending EXCEPT ![p] = e]
           /\ storage' \in EntryMaps /\ Outbox!NothingIsLost'
  <1>1. /\ pending' = [pending EXCEPT ![p] = e] /\ storage' = e
        /\ fate' = [m \in Texts |-> Outbox!FateAfter(p, e, m)]
    BY DEF Outbox!Persist
  <1>2. ASSUME NEW m \in Texts, fate'[m] = "kept", e[m] = Outbox!NoEntry
        PROVE  rows[m] > 0
    <2>1. Outbox!FateAfter(p, e, m) = "kept"
      BY <1>1, <1>2
    <2>2. fate[m] = "kept"
      BY <1>2, <2>1 DEF Outbox!FateAfter
    <2>3. CASE storage[m] # Outbox!NoEntry /\ pending[p][m] = Outbox!NoEntry
      BY <1>2, <2>1, <2>2, <2>3 DEF Outbox!FateAfter
    <2>4. CASE storage[m] = Outbox!NoEntry
      BY <2>2, <2>4 DEF OutboxInv, Outbox!NothingIsLost
    <2>5. CASE pending[p][m] # Outbox!NoEntry
      BY <1>2, <2>5
    <2> QED
      BY <2>3, <2>4, <2>5
  <1> QED
    BY <1>1, <1>2 DEF Outbox!NothingIsLost
-----------------------------------------------------------------------------
(* Sending: the steps.                                                       *)

\* A removed entry does not come back.
NothingComesBack ==
    \A p \in Pages, m \in Texts :
      (page[p] # "closed" /\ pending[p][m] = Outbox!NoEntry /\ fate[m] # "unwritten")
        => pending'[p][m] = Outbox!NoEntry

OutboxStep == OutboxInv' /\ NothingComesBack

\* A page that is open writes entries, none of which is back.
LEMMA OpenPageWrites ==
    ASSUME OutboxInv, NEW p \in Pages, page[p] # "closed",
           NEW e \in EntryMaps, NEW s \in SendingMaps, NEW z \in SUBSET Texts,
           pending' = [pending EXCEPT ![p] = e], sending' = [sending EXCEPT ![p] = s],
           retrying' = [retrying EXCEPT ![p] = z], UNCHANGED <<page, rows>>,
           storage' \in EntryMaps, Outbox!NothingIsLost',
           PageOK(page[p], e, s, z, rows),
           \A m \in Texts : pending[p][m] = Outbox!NoEntry /\ fate[m] # "unwritten"
                              => e[m] = Outbox!NoEntry
    PROVE  OutboxStep
  <1>1. page[p] \in PageStates /\ page' = [page EXCEPT ![p] = page[p]]
    BY ThePage
  <1>2. rows' \in [Texts -> Nat] /\ rows' = rows /\ \A m \in Texts : rows'[m] >= rows[m]
        /\ Outbox!StoredOnce
    BY DEF OutboxInv, OutboxTypes
  <1>3. /\ page' \in [Pages -> PageStates] /\ pending' \in [Pages -> EntryMaps]
        /\ sending' \in [Pages -> SendingMaps] /\ retrying' \in [Pages -> SUBSET Texts]
        /\ PagesOK'
        /\ \A q \in Pages : q # p => pending'[q] = pending[q]
        /\ pending'[p] = e
    BY <1>1, <1>2, OnePage
  <1>4. OutboxInv'
    BY <1>2, <1>3 DEF OutboxInv, OutboxTypes, Outbox!StoredOnce
  <1>5. NothingComesBack
    BY <1>3 DEF NothingComesBack
  <1> QED
    BY <1>4, <1>5 DEF OutboxStep

\* A request of a page changes, and perhaps the rows, but no entry.
LEMMA RequestChanges ==
    ASSUME OutboxInv, NEW p \in Pages, NEW m \in Texts, sending[p][m] # "no",
           NEW s \in SendingMaps, sending' = [sending EXCEPT ![p] = s],
           \A n \in Texts : n # m => s[n] = sending[p][n],
           rows' \in [Texts -> Nat], \A n \in Texts : rows'[n] >= rows[n],
           Outbox!StoredOnce',
           s[m] = "stored" => rows'[m] > 0,
           UNCHANGED <<page, pending, storage, retrying, fate>>
    PROVE  OutboxStep
  <1>1. /\ page[p] \in PageStates /\ pending[p] \in EntryMaps
        /\ sending[p] \in SendingMaps /\ retrying[p] \in SUBSET Texts
        /\ page' = [page EXCEPT ![p] = page[p]]
        /\ pending' = [pending EXCEPT ![p] = pending[p]]
        /\ retrying' = [retrying EXCEPT ![p] = retrying[p]]
        /\ PageOK(page[p], pending[p], sending[p], retrying[p], rows)
    BY ThePage
  <1>2. \A n \in Texts : rows[n] > 0 => rows'[n] > 0
    BY DEF OutboxInv, OutboxTypes
  <1>3. PageOK(page[p], pending[p], s, retrying[p], rows')
    BY <1>1, <1>2 DEF PageOK
  <1>4. /\ page' \in [Pages -> PageStates] /\ pending' \in [Pages -> EntryMaps]
        /\ sending' \in [Pages -> SendingMaps] /\ retrying' \in [Pages -> SUBSET Texts]
        /\ PagesOK'
    BY <1>1, <1>3, OnePage
  <1>5. Outbox!NothingIsLost'
    BY <1>2 DEF OutboxInv, Outbox!NothingIsLost
  <1> QED
    BY <1>4, <1>5 DEF OutboxInv, OutboxTypes, OutboxStep, NothingComesBack

\* Entries of a page, one of which changes.
LEMMA OneEntry ==
    ASSUME OutboxInv, NEW p \in Pages, NEW m \in Texts, NEW x \in Outbox!EntryStates
    PROVE  /\ [pending[p] EXCEPT ![m] = x] \in EntryMaps
           /\ [pending[p] EXCEPT ![m] = x][m] = x
           /\ \A n \in Texts : n # m => [pending[p] EXCEPT ![m] = x][n] = pending[p][n]
  BY ThePage DEF EntryMaps

LEMMA OneSending ==
    ASSUME OutboxInv, NEW p \in Pages, NEW m \in Texts, NEW x \in SendingStates
    PROVE  /\ [sending EXCEPT ![p][m] = x] = [sending EXCEPT ![p] = [sending[p] EXCEPT ![m] = x]]
           /\ [sending[p] EXCEPT ![m] = x] \in SendingMaps
           /\ [sending[p] EXCEPT ![m] = x][m] = x
           /\ \A n \in Texts : n # m => [sending[p] EXCEPT ![m] = x][n] = sending[p][n]
  BY ThePage DEF SendingMaps

LEMMA Delivering ==
    ASSUME OutboxInv, NEW p \in Pages, NEW m \in Texts, NEW entry, page[p] # "closed",
           Outbox!Deliver(p, m, entry),
           [entry EXCEPT !.state = "sending"] \in Outbox!EntryStates \ {Outbox!NoEntry},
           [entry EXCEPT !.state = "sending"].state = "sending",
           pending[p][m] = Outbox!NoEntry => fate[m] = "unwritten",
           NEW z \in SUBSET Texts, retrying' = [retrying EXCEPT ![p] = z], UNCHANGED <<page, rows>>
    PROVE  OutboxStep
  <1> DEFINE x == [entry EXCEPT !.state = "sending"]
             e == [pending[p] EXCEPT ![m] = x]
             s == [sending[p] EXCEPT ![m] = "sent"]
  <1>1. Outbox!Persist(p, e) /\ sending' = [sending EXCEPT ![p][m] = "sent"]
    BY DEF Outbox!Deliver
  <1>2. /\ e \in EntryMaps /\ e[m] = x /\ \A n \in Texts : n # m => e[n] = pending[p][n]
    <2> HIDE DEF x
    <2> QED
      BY OneEntry DEF x
  <1>3. /\ sending' = [sending EXCEPT ![p] = s] /\ s \in SendingMaps /\ s[m] = "sent"
        /\ \A n \in Texts : n # m => s[n] = sending[p][n]
    BY <1>1, OneSending DEF SendingStates
  <1> HIDE DEF s
  <1>4. x # Outbox!NoEntry /\ x.state = "sending"
    OBVIOUS
  <1> HIDE DEF x, e
  <1>5. /\ pending' = [pending EXCEPT ![p] = e]
        /\ storage' \in EntryMaps /\ Outbox!NothingIsLost'
    BY <1>1, <1>2, <1>4, Persisting
  <1>6. PageOK(page[p], e, s, z, rows)
    BY <1>2, <1>3, <1>4, ThePage DEF PageOK
  <1>7. \A n \in Texts : pending[p][n] = Outbox!NoEntry /\ fate[n] # "unwritten"
                           => e[n] = Outbox!NoEntry
    BY <1>2
  <1> QED
    BY <1>2, <1>3, <1>5, <1>6, <1>7, OpenPageWrites

LEMMA WriteOutbox ==
    ASSUME OutboxInv, NEW p \in Pages, NEW m \in Texts, Outbox!Write(p, m)
    PROVE  OutboxStep
  <1> DEFINE entry == [state |-> "sending", retryable |-> TRUE]
  <1>1. /\ page[p] # "closed" /\ fate[m] = "unwritten" /\ Outbox!Deliver(p, m, entry)
        /\ UNCHANGED <<page, retrying, rows>>
    BY DEF Outbox!Write
  <1>2. /\ [entry EXCEPT !.state = "sending"] \in Outbox!EntryStates \ {Outbox!NoEntry}
        /\ [entry EXCEPT !.state = "sending"].state = "sending"
    BY NewEntries
  <1> HIDE DEF entry
  <1>3. retrying[p] \in SUBSET Texts /\ retrying' = [retrying EXCEPT ![p] = retrying[p]]
    BY <1>1, ThePage
  <1> QED
    BY <1>1, <1>2, <1>3, Delivering

LEMMA RetryOutbox ==
    ASSUME OutboxInv, NEW p \in Pages, NEW m \in Texts, Outbox!RetryByUser(p, m)
    PROVE  OutboxStep
  <1> DEFINE entry == pending[p][m]
  <1>1. /\ page[p] # "closed" /\ entry.state = "failed" /\ Outbox!Deliver(p, m, entry)
        /\ UNCHANGED <<page, retrying, rows>>
    BY DEF Outbox!RetryByUser
  <1>2. entry \in Outbox!EntryStates
    BY ThePage DEF EntryMaps
  <1>3. /\ [entry EXCEPT !.state = "sending"] \in Outbox!EntryStates \ {Outbox!NoEntry}
        /\ [entry EXCEPT !.state = "sending"].state = "sending"
        /\ entry # Outbox!NoEntry
    <2> HIDE DEF entry
    <2> QED
      BY <1>1, <1>2, EntryShapes
  <1>4. retrying[p] \in SUBSET Texts /\ retrying' = [retrying EXCEPT ![p] = retrying[p]]
    BY <1>1, ThePage
  <1> QED
    BY <1>1, <1>3, <1>4, Delivering

LEMMA RetryNextOutbox ==
    ASSUME OutboxInv, NEW p \in Pages, NEW m \in Texts, Outbox!RetryNext(p, m)
    PROVE  OutboxStep
  <1> DEFINE entry == pending[p][m]
             z == retrying[p] \ {m}
  <1>1. /\ m \in retrying[p] /\ retrying' = [retrying EXCEPT ![p] = z]
        /\ UNCHANGED <<page, rows>>
    BY DEF Outbox!RetryNext
  <1>2. entry \in Outbox!EntryStates /\ z \in SUBSET Texts
    BY ThePage DEF EntryMaps
  <1>3. page[p] # "closed"
    BY <1>1, ThePage DEF PageOK
  <1>4. CASE entry.retryable /\ sending[p][m] = "no"
    <2>1. Outbox!Deliver(p, m, entry)
      BY <1>4 DEF Outbox!RetryNext
    <2>2. /\ [entry EXCEPT !.state = "sending"] \in Outbox!EntryStates \ {Outbox!NoEntry}
          /\ [entry EXCEPT !.state = "sending"].state = "sending"
          /\ entry # Outbox!NoEntry
      <3> HIDE DEF entry
      <3> QED
        BY <1>2, <1>4, EntryShapes
    <2> HIDE DEF z
    <2> QED
      BY <1>1, <1>2, <1>3, <2>1, <2>2, Delivering
  <1>5. CASE ~(entry.retryable /\ sending[p][m] = "no")
    <2>1. UNCHANGED <<pending, storage, sending, fate>>
      BY <1>5 DEF Outbox!RetryNext
    <2>2. storage' \in EntryMaps /\ Outbox!NothingIsLost'
      BY <1>1, <2>1 DEF OutboxInv, OutboxTypes, Outbox!NothingIsLost
    <2>3. /\ pending[p] \in EntryMaps /\ sending[p] \in SendingMaps
          /\ pending' = [pending EXCEPT ![p] = pending[p]]
          /\ sending' = [sending EXCEPT ![p] = sending[p]]
          /\ PageOK(page[p], pending[p], sending[p], z, rows)
      BY <2>1, ThePage DEF PageOK
    <2> HIDE DEF z
    <2> QED
      BY <1>1, <1>2, <1>3, <2>2, <2>3, OpenPageWrites
  <1> QED
    BY <1>4, <1>5

LEMMA BeginRetryOutbox ==
    ASSUME OutboxInv, NEW p \in Pages, Outbox!BeginRetry(p) \/ Outbox!LoseSocket(p)
    PROVE  OutboxStep
  <1>1. PICK c \in {"ready", "opening"}, z \in SUBSET Texts :
          /\ page[p] # "closed" /\ page' = [page EXCEPT ![p] = c]
          /\ retrying' = [retrying EXCEPT ![p] = z]
          /\ UNCHANGED <<pending, storage, sending, rows, fate>>
    <2>1. CASE Outbox!BeginRetry(p)
      <3>1. retrying[p] \cup Outbox!Entries(p) \in SUBSET Texts
        BY ThePage DEF Outbox!Entries
      <3> QED
        BY <2>1, <3>1 DEF Outbox!BeginRetry
    <2>2. CASE Outbox!LoseSocket(p)
      <3>1. retrying[p] \in SUBSET Texts /\ retrying = [retrying EXCEPT ![p] = retrying[p]]
        BY ThePage
      <3> QED
        BY <2>2, <3>1 DEF Outbox!LoseSocket
    <2> QED
      BY <2>1, <2>2
  <1>2. /\ pending[p] \in EntryMaps /\ sending[p] \in SendingMaps
        /\ pending' = [pending EXCEPT ![p] = pending[p]]
        /\ sending' = [sending EXCEPT ![p] = sending[p]]
        /\ PageOK(c, pending[p], sending[p], z, rows')
        /\ c \in PageStates
    BY <1>1, ThePage DEF PageOK, PageStates
  <1>3. rows' \in [Texts -> Nat] /\ \A m \in Texts : rows'[m] >= rows[m]
    BY <1>1 DEF OutboxInv, OutboxTypes
  <1>4. /\ page' \in [Pages -> PageStates] /\ pending' \in [Pages -> EntryMaps]
        /\ sending' \in [Pages -> SendingMaps] /\ retrying' \in [Pages -> SUBSET Texts]
        /\ PagesOK'
    BY <1>1, <1>2, <1>3, OnePage
  <1> QED
    BY <1>1, <1>3, <1>4 DEF OutboxInv, OutboxTypes, Outbox!StoredOnce, Outbox!NothingIsLost,
                            OutboxStep, NothingComesBack

LEMMA LoadOutbox ==
    ASSUME OutboxInv, NEW p \in Pages, Outbox!LoadPage(p)
    PROVE  OutboxStep
  <1>1. /\ page[p] = "closed" /\ page' = [page EXCEPT ![p] = "opening"]
        /\ pending' = [pending EXCEPT ![p] = storage]
        /\ UNCHANGED <<storage, sending, retrying, rows, fate>>
    BY DEF Outbox!LoadPage
  <1>2. /\ sending[p] \in SendingMaps /\ retrying[p] \in SUBSET Texts /\ storage \in EntryMaps
        /\ sending' = [sending EXCEPT ![p] = sending[p]]
        /\ retrying' = [retrying EXCEPT ![p] = retrying[p]]
        /\ PageOK("opening", storage, sending[p], retrying[p], rows')
        /\ "opening" \in PageStates
    BY <1>1, ThePage DEF PageOK, PageStates, OutboxInv, OutboxTypes
  <1>3. rows' \in [Texts -> Nat] /\ \A m \in Texts : rows'[m] >= rows[m]
    BY <1>1 DEF OutboxInv, OutboxTypes
  <1>4. /\ page' \in [Pages -> PageStates] /\ pending' \in [Pages -> EntryMaps]
        /\ sending' \in [Pages -> SendingMaps] /\ retrying' \in [Pages -> SUBSET Texts]
        /\ PagesOK'
        /\ \A q \in Pages : q # p => pending'[q] = pending[q]
    BY <1>1, <1>2, <1>3, OnePage
  <1>5. OutboxInv'
    BY <1>1, <1>3, <1>4 DEF OutboxInv, OutboxTypes, Outbox!StoredOnce, Outbox!NothingIsLost
  <1>6. NothingComesBack
    BY <1>1, <1>4 DEF NothingComesBack
  <1> QED
    BY <1>5, <1>6 DEF OutboxStep

LEMMA CloseOutbox ==
    ASSUME OutboxInv, NEW p \in Pages, Outbox!ClosePage(p)
    PROVE  OutboxStep
  <1> DEFINE s == [m \in Texts |-> "no"]
  <1>1. /\ page' = [page EXCEPT ![p] = "closed"]
        /\ pending' = [pending EXCEPT ![p] = Outbox!Nothing]
        /\ sending' = [sending EXCEPT ![p] = s] /\ retrying' = [retrying EXCEPT ![p] = {}]
        /\ UNCHANGED <<storage, rows, fate>>
    BY DEF Outbox!ClosePage
  <1>2. /\ s \in SendingMaps /\ Outbox!Nothing \in EntryMaps /\ "closed" \in PageStates
        /\ {} \in SUBSET Texts
        /\ PageOK("closed", Outbox!Nothing, s, {}, rows')
    BY NoEntryOK DEF PageOK, PageStates
  <1> HIDE DEF s
  <1>3. rows' \in [Texts -> Nat] /\ \A m \in Texts : rows'[m] >= rows[m]
    BY <1>1 DEF OutboxInv, OutboxTypes
  <1>4. /\ page' \in [Pages -> PageStates] /\ pending' \in [Pages -> EntryMaps]
        /\ sending' \in [Pages -> SendingMaps] /\ retrying' \in [Pages -> SUBSET Texts]
        /\ PagesOK'
        /\ \A q \in Pages : q # p => pending'[q] = pending[q]
        /\ pending'[p] = Outbox!Nothing
    BY <1>1, <1>2, <1>3, OnePage
  <1>5. OutboxInv'
    BY <1>1, <1>3, <1>4 DEF OutboxInv, OutboxTypes, Outbox!StoredOnce, Outbox!NothingIsLost
  <1>6. NothingComesBack
    BY <1>4, NoEntryOK DEF NothingComesBack
  <1> QED
    BY <1>5, <1>6 DEF OutboxStep

\* The user deletes a message: that it is gone is what the user wants.
LEMMA DeleteOutbox ==
    ASSUME OutboxInv, NEW p \in Pages, NEW m \in Texts, Outbox!Delete(p, m)
    PROVE  OutboxStep
  <1> DEFINE e == [pending[p] EXCEPT ![m] = Outbox!NoEntry]
  <1>1. /\ page[p] # "closed" /\ pending' = [pending EXCEPT ![p] = e]
        /\ storage' = pending'[p]
        /\ fate' = [n \in Texts |-> IF n = m THEN "deleted"
                                    ELSE Outbox!FateAfter(p, pending'[p], n)]
        /\ UNCHANGED <<page, sending, retrying, rows>>
    BY DEF Outbox!Delete
  <1>2. /\ e \in EntryMaps /\ e[m] = Outbox!NoEntry
        /\ \A n \in Texts : n # m => e[n] = pending[p][n]
    BY OneEntry, NoEntryOK
  <1> HIDE DEF e
  <1>3. pending'[p] = e
    BY <1>1 DEF OutboxInv, OutboxTypes
  <1>4. ASSUME NEW n \in Texts, fate'[n] = "kept", e[n] = Outbox!NoEntry
        PROVE  rows[n] > 0
    <2>1. n # m /\ Outbox!FateAfter(p, e, n) = "kept" /\ pending[p][n] = Outbox!NoEntry
      BY <1>1, <1>2, <1>3, <1>4
    <2>2. fate[n] = "kept"
      BY <1>4, <2>1 DEF Outbox!FateAfter
    <2>3. storage[n] = Outbox!NoEntry
      BY <1>4, <2>1, <2>2 DEF Outbox!FateAfter
    <2> QED
      BY <2>2, <2>3 DEF OutboxInv, Outbox!NothingIsLost
  <1>5. storage' \in EntryMaps /\ Outbox!NothingIsLost'
    BY <1>1, <1>2, <1>3, <1>4 DEF Outbox!NothingIsLost
  <1>6. /\ sending[p] \in SendingMaps /\ retrying[p] \in SUBSET Texts
        /\ sending' = [sending EXCEPT ![p] = sending[p]]
        /\ retrying' = [retrying EXCEPT ![p] = retrying[p]]
        /\ PageOK(page[p], e, sending[p], retrying[p], rows)
    BY <1>1, <1>2, ThePage DEF PageOK
  <1>7. \A n \in Texts : pending[p][n] = Outbox!NoEntry /\ fate[n] # "unwritten"
                           => e[n] = Outbox!NoEntry
    BY <1>2
  <1>8. page[p] # "closed" /\ pending' = [pending EXCEPT ![p] = e] /\ UNCHANGED <<page, rows>>
    BY <1>1
  <1> QED
    BY <1>2, <1>5, <1>6, <1>7, <1>8, OpenPageWrites

\* An open page writes its entries, or all but one that is stored, and a request of it
\* may have ended.
Follows(p, e, s) ==
    \A m \in Texts :
      /\ s[m] \in {"no", sending[p][m]}
      /\ \/ e[m] = pending[p][m]
         \/ e[m] = Outbox!NoEntry /\ rows[m] > 0
         \/ s[m] = "no" /\ pending[p][m] # Outbox!NoEntry /\ e[m] # Outbox!NoEntry

LEMMA PageWrites ==
    ASSUME OutboxInv, NEW p \in Pages, page[p] # "closed", NEW e \in EntryMaps,
           Outbox!Persist(p, e), NEW s \in SendingMaps, sending' = [sending EXCEPT ![p] = s],
           UNCHANGED <<page, retrying, rows>>,
           Follows(p, e, s)
    PROVE  OutboxStep
  <1> USE DEF Follows
  <1>1. \A m \in Texts : pending[p][m] # Outbox!NoEntry /\ e[m] = Outbox!NoEntry => rows[m] > 0
    OBVIOUS
  <1>2. /\ pending' = [pending EXCEPT ![p] = e]
        /\ storage' \in EntryMaps /\ Outbox!NothingIsLost'
    BY <1>1, Persisting
  <1>3. /\ retrying[p] \in SUBSET Texts /\ retrying' = [retrying EXCEPT ![p] = retrying[p]]
        /\ PageOK(page[p], e, s, retrying[p], rows)
    BY ThePage DEF PageOK
  <1>4. \A m \in Texts : pending[p][m] = Outbox!NoEntry /\ fate[m] # "unwritten"
                           => e[m] = Outbox!NoEntry
    OBVIOUS
  <1> QED
    BY <1>2, <1>3, <1>4, OpenPageWrites

LEMMA PersistOutbox ==
    ASSUME OutboxInv, NEW p \in Pages, Outbox!PersistOthers(p)
    PROVE  OutboxStep
  <1>1. /\ page[p] # "closed" /\ Outbox!Persist(p, pending[p])
        /\ UNCHANGED <<page, sending, retrying, rows>>
    BY DEF Outbox!PersistOthers
  <1>2. pending[p] \in EntryMaps /\ sending[p] \in SendingMaps
        /\ sending' = [sending EXCEPT ![p] = sending[p]]
    BY <1>1, ThePage
  <1>3. Follows(p, pending[p], sending[p])
    BY DEF Follows
  <1> QED
    BY <1>1, <1>2, <1>3, PageWrites

LEMMA ReceiveOutbox ==
    ASSUME OutboxInv, NEW p \in Pages, NEW m \in Texts, Outbox!Receive(p, m)
    PROVE  OutboxStep
  <1> DEFINE e == [pending[p] EXCEPT ![m] = Outbox!NoEntry]
  <1>1. /\ page[p] # "closed" /\ Outbox!Persist(p, e) /\ rows[m] > 0
        /\ UNCHANGED <<page, sending, retrying, rows>>
    BY DEF Outbox!Receive
  <1>2. /\ e \in EntryMaps /\ e[m] = Outbox!NoEntry
        /\ \A n \in Texts : n # m => e[n] = pending[p][n]
    BY OneEntry, NoEntryOK
  <1> HIDE DEF e
  <1>3. sending[p] \in SendingMaps /\ sending' = [sending EXCEPT ![p] = sending[p]]
    BY <1>1, ThePage
  <1>4. Follows(p, e, sending[p])
    BY <1>1, <1>2 DEF Follows
  <1>5. e \in EntryMaps
    BY <1>2
  <1> QED
    BY <1>1, <1>3, <1>4, <1>5, PageWrites

\* A request that has ended is on a page that is open.
LEMMA SendingIsOpen ==
    ASSUME OutboxInv, NEW p \in Pages, NEW m \in Texts, sending[p][m] # "no"
    PROVE  page[p] # "closed" /\ (sending[p][m] = "stored" => rows[m] > 0)
  BY ThePage DEF PageOK

LEMMA SucceedOutbox ==
    ASSUME OutboxInv, NEW p \in Pages, NEW m \in Texts, Outbox!Succeed(p, m)
    PROVE  OutboxStep
  <1> DEFINE e == [pending[p] EXCEPT ![m] = Outbox!NoEntry]
             s == [sending[p] EXCEPT ![m] = "no"]
  <1>1. /\ sending[p][m] = "stored" /\ Outbox!Persist(p, e)
        /\ sending' = [sending EXCEPT ![p][m] = "no"]
        /\ UNCHANGED <<page, retrying, rows>>
    BY DEF Outbox!Succeed
  <1>2. /\ e \in EntryMaps /\ e[m] = Outbox!NoEntry
        /\ \A n \in Texts : n # m => e[n] = pending[p][n]
    BY OneEntry, NoEntryOK
  <1>3. /\ sending' = [sending EXCEPT ![p] = s] /\ s \in SendingMaps /\ s[m] = "no"
        /\ \A n \in Texts : n # m => s[n] = sending[p][n]
    BY <1>1, OneSending DEF SendingStates
  <1>4. page[p] # "closed" /\ rows[m] > 0
    BY <1>1, SendingIsOpen
  <1> HIDE DEF e, s
  <1>5. /\ Follows(p, e, s)
        /\ e \in EntryMaps /\ s \in SendingMaps /\ sending' = [sending EXCEPT ![p] = s]
        /\ Outbox!Persist(p, e) /\ UNCHANGED <<page, retrying, rows>>
    BY <1>1, <1>2, <1>3, <1>4 DEF Follows
  <1> QED
    BY <1>4, <1>5, PageWrites

LEMMA FailOutbox ==
    ASSUME OutboxInv, NEW p \in Pages, NEW m \in Texts, Outbox!Fail(p, m)
    PROVE  OutboxStep
  <1> DEFINE s == [sending[p] EXCEPT ![m] = "no"]
  <1>1. /\ sending[p][m] \in {"error", "refused"}
        /\ sending' = [sending EXCEPT ![p][m] = "no"]
        /\ UNCHANGED <<page, retrying, rows>>
    BY DEF Outbox!Fail
  <1>2. /\ sending' = [sending EXCEPT ![p] = s] /\ s \in SendingMaps /\ s[m] = "no"
        /\ \A n \in Texts : n # m => s[n] = sending[p][n]
    BY <1>1, OneSending DEF SendingStates
  <1>3. page[p] # "closed"
    BY <1>1, SendingIsOpen
  <1> HIDE DEF s
  <1>4. CASE m \in Outbox!Entries(p)
    <2> DEFINE b == (sending[p][m] = "error")
               x == [state |-> "failed", retryable |-> b]
               e == [pending[p] EXCEPT ![m] = x]
    <2>1. Outbox!Persist(p, e)
      BY <1>4 DEF Outbox!Fail
    <2>2. x \in Outbox!EntryStates /\ x # Outbox!NoEntry /\ pending[p][m] # Outbox!NoEntry
      BY <1>4, NewEntries DEF Outbox!Entries
    <2> HIDE DEF x
    <2>3. /\ e \in EntryMaps /\ e[m] = x /\ \A n \in Texts : n # m => e[n] = pending[p][n]
      BY <2>2, OneEntry
    <2> HIDE DEF e
    <2>4. /\ Follows(p, e, s)
          /\ e \in EntryMaps /\ s \in SendingMaps /\ sending' = [sending EXCEPT ![p] = s]
          /\ UNCHANGED <<page, retrying, rows>>
      BY <1>1, <1>2, <2>2, <2>3 DEF Follows
    <2> QED
      BY <1>3, <2>1, <2>4, PageWrites
  <1>5. CASE m \notin Outbox!Entries(p)
    <2>1. UNCHANGED <<pending, storage, fate>>
      BY <1>5 DEF Outbox!Fail
    <2>2. storage' \in EntryMaps /\ Outbox!NothingIsLost'
      BY <1>1, <2>1 DEF OutboxInv, OutboxTypes, Outbox!NothingIsLost
    <2>3. /\ pending[p] \in EntryMaps /\ pending' = [pending EXCEPT ![p] = pending[p]]
          /\ retrying[p] \in SUBSET Texts /\ retrying' = [retrying EXCEPT ![p] = retrying[p]]
          /\ PageOK(page[p], pending[p], s, retrying[p], rows)
      BY <1>1, <1>2, <2>1, ThePage DEF PageOK
    <2>4. /\ \A n \in Texts : pending[p][n] = Outbox!NoEntry /\ fate[n] # "unwritten"
                              => pending[p][n] = Outbox!NoEntry
          /\ s \in SendingMaps /\ sending' = [sending EXCEPT ![p] = s]
          /\ UNCHANGED <<page, rows>>
      BY <1>1, <1>2
    <2> QED
      BY <1>3, <2>2, <2>3, <2>4, OpenPageWrites
  <1> QED
    BY <1>4, <1>5

LEMMA HandleOutbox ==
    ASSUME OutboxInv, NEW p \in Pages, NEW m \in Texts,
           Outbox!Handle(p, m) \/ Outbox!HandleFails(p, m) \/ Outbox!TimeOut(p, m)
    PROVE  OutboxStep
  <1>1. /\ sending[p][m] = "sent"
        /\ UNCHANGED <<page, pending, storage, retrying, fate>>
    BY DEF Outbox!Handle, Outbox!HandleFails, Outbox!TimeOut
  <1>2. PICK x \in {"stored", "error", "refused"} :
          /\ sending' = [sending EXCEPT ![p][m] = x]
          /\ rows' \in {rows, Outbox!Store(m)}
          /\ x = "stored" => rows' = Outbox!Store(m)
    BY DEF Outbox!Handle, Outbox!HandleFails, Outbox!TimeOut
  <1> DEFINE s == [sending[p] EXCEPT ![m] = x]
  <1>3. /\ sending' = [sending EXCEPT ![p] = s] /\ s \in SendingMaps /\ s[m] = x
        /\ \A n \in Texts : n # m => s[n] = sending[p][n]
    <2>1. x \in SendingStates
      BY DEF SendingStates
    <2> QED
      BY <1>2, <2>1, OneSending
  <1>4. /\ rows' \in [Texts -> Nat] /\ \A n \in Texts : rows'[n] >= rows[n]
        /\ Outbox!StoredOnce'
        /\ x = "stored" => rows'[m] > 0
    BY <1>2, Storing
  <1> HIDE DEF s
  <1>5. sending[p][m] # "no" /\ (s[m] = "stored" => rows'[m] > 0)
    BY <1>1, <1>3, <1>4
  <1> QED
    BY <1>1, <1>3, <1>4, <1>5, RequestChanges

LEMMA LateOutbox ==
    ASSUME OutboxInv, NEW m \in Texts, Outbox!HandleLate(m)
    PROVE  OutboxStep
  <1>1. /\ rows' \in {rows, Outbox!Store(m)}
        /\ UNCHANGED <<page, pending, storage, sending, retrying, fate>>
    BY DEF Outbox!HandleLate
  <1>2. /\ rows' \in [Texts -> Nat] /\ \A n \in Texts : rows'[n] >= rows[n]
        /\ Outbox!StoredOnce'
    BY <1>1, Storing
  <1>3. \A n \in Texts : rows[n] > 0 => rows'[n] > 0
    BY <1>2 DEF OutboxInv, OutboxTypes
  <1> QED
    BY <1>1, <1>2, <1>3 DEF OutboxInv, OutboxTypes, PagesOK, PageOK, Outbox!NothingIsLost,
                            OutboxStep, NothingComesBack

LEMMA OutboxSteps ==
    ASSUME OutboxInv, [Next]_vars
    PROVE  OutboxInv' /\ [NothingComesBack]_Outbox!vars
  <1>1. ASSUME Outbox!Next PROVE OutboxStep
    BY <1>1, LoadOutbox, CloseOutbox, BeginRetryOutbox, PersistOutbox, RetryNextOutbox,
       WriteOutbox, RetryOutbox, DeleteOutbox, ReceiveOutbox, HandleOutbox, SucceedOutbox,
       FailOutbox, LateOutbox
    DEF Outbox!Next, Outbox!Run, Outbox!Request
  <1>2. CASE UNCHANGED outboxVars
    <2>1. OutboxInv'
      BY <1>2 DEF outboxVars, OutboxInv, OutboxTypes, PagesOK, PageOK, Outbox!StoredOnce,
                  Outbox!NothingIsLost
    <2> QED
      BY <1>2, <2>1 DEF outboxVars, Outbox!vars
  <1>3. CASE OutboxNext
    BY <1>1, <1>3 DEF OutboxNext, OutboxStep
  <1> QED
    BY <1>2, <1>3 DEF Next, SyncNext, ScreenNext, vars

LEMMA OutboxInvHolds == Spec => []OutboxInv
  <1>1. Init => OutboxInv
    BY OutboxInit DEF Init
  <1>2. OutboxInv /\ [Next]_vars => OutboxInv'
    BY OutboxSteps
  <1> QED
    BY <1>1, <1>2, PTL DEF Spec

\* However often a message is sent again, by several pages and after timeouts whose
\* requests arrive late, it is stored once; and a message that is not stored and was
\* not deleted is still in the storage, unless a page that did not know of it has
\* written the storage since (SendMessageIdempotent, persistPendingMessages).
THEOREM SentExactlyOnce == Spec => []ExactlyOnce
  <1>1. OutboxInv => ExactlyOnce
    BY DEF OutboxInv, ExactlyOnce
  <1> QED
    BY <1>1, OutboxInvHolds, PTL

\* The cursor only advances, and what a page has removed from its outbox, because it
\* is stored or was deleted, is not pending there again when an older request for it
\* fails (advanceRealtimeCursor, setPendingMessageState).
THEOREM NothingComesAgain == Spec => NothingReturns
  <1>1. SyncInv /\ [Next]_vars => [cursor' >= cursor]_Sync!vars
    BY SyncSteps
  <1>2. OutboxInv /\ [Next]_vars
          => [\A p \in Pages, m \in Texts :
                (page[p] # "closed" /\ pending[p][m] = Outbox!NoEntry /\ fate[m] # "unwritten")
                  => pending'[p][m] = Outbox!NoEntry]_(Outbox!vars)
    BY OutboxSteps DEF NothingComesBack
  <1> QED
    BY <1>1, <1>2, SyncInvHolds, OutboxInvHolds, PTL
    DEF Spec, NothingReturns, Sync!CursorNeverGoesBack, Outbox!RemovedIsGone

-----------------------------------------------------------------------------
(* Calling: the invariant.                                                   *)

Ops    == {"invite", "accept", "reject", "busy", "cancel", "end", "offer", "answer"}
EndOps == {"reject", "busy", "cancel", "end"}

Events      == [op : Ops, page : Devices, call : Calls]
TaskRecords == [page  : Devices, call : Calls,
                step  : {"media", "invite", "accept", "prepare", "offering", "offered", "answering"},
                reply : {"none", "ok", "no", "blind"}]
CallRows    == [status : {"none", "ringing", "accepted", "connecting", "active"} \cup Screen!Terminal,
                caller : Screen!Users \cup {None}, device : Devices \cup {None}]
Screens     == [state : {"idle", "incoming", "outgoing", "connecting", "active"},
                call : Calls \cup {None}, timer : BOOLEAN,
                pc : {"none", "local", "remote"}, over : BOOLEAN]

ScreenTypes ==
    /\ Screen!TypeOK
    /\ tasks \subseteq TaskRecords /\ requests \subseteq Events /\ relays \subseteq Events
    /\ inbox \in [Devices -> Seq(Events)]
    /\ socket \in [Devices -> {"open", "broken", "reopened"}]

\* A call has a caller, and a device only if it was accepted.
RowOK(x) ==
    /\ x.status = "none" <=> x.caller = None
    /\ x.device # None => x.status \notin {"none", "ringing"}

RowsOK == \A i \in Calls : RowOK(row[i])

IsInvite(e, i) == e.op = "invite" /\ e.call = i
IsAccept(e, i) == e.op = "accept" /\ e.call = i
IsOffer(e, i)  == e.op = "offer" /\ e.call = i
Ends(e, i)     == e.op \in EndOps /\ e.call = i

\* The invitation, or the acceptance, has been broadcast.
InviteTold(i) == row[i].status # "none" /\ \A e \in relays : ~IsInvite(e, i)
AcceptTold(i) == row[i].device # None /\ \A e \in relays : ~IsAccept(e, i)

\* What an event says is so.
EventOK(e) ==
    /\ row[e.call].status # "none"
    /\ e.op = "invite" => row[e.call].caller = UserOf[e.page]
    /\ e.op = "accept" => row[e.call].device = e.page
    /\ e.op = "offer" => row[e.call].caller = UserOf[e.page] /\ AcceptTold(e.call)
    /\ e.op = "answer" => row[e.call].status \in {"active"} \cup Screen!Terminal

\* It comes to pages that it concerns, once it was broadcast.
ArrivalOK(p, e) ==
    /\ EventOK(e) /\ e.page # p
    /\ e.op = "invite" => InviteTold(e.call)
    /\ e.op = "accept" => AcceptTold(e.call)
    /\ e.op \in {"invite", "offer"} => row[e.call].caller # UserOf[p]

EventsOK ==
    /\ \A e \in relays : EventOK(e)
    /\ \A p \in Devices : \A k \in 1 .. Len(inbox[p]) : ArrivalOK(p, inbox[p][k])

\* There is one invitation to a call.
InvitedOnce ==
    /\ \A e, f \in relays : (e.op = "invite" /\ IsInvite(f, e.call)) => e = f
    /\ \A p \in Devices : \A j, k \in 1 .. Len(inbox[p]) :
         (inbox[p][j].op = "invite" /\ IsInvite(inbox[p][k], inbox[p][j].call)) => j = k

\* Nothing will invite p to call i, now that there is one.
NoInvite(p, i) == \A k \in 1 .. Len(inbox[p]) : ~IsInvite(inbox[p][k], i)
Invited(p, i) ==
    row[i].status # "none" => row[i].caller = UserOf[p] \/ (InviteTold(i) /\ NoInvite(p, i))

\* Whoever shows a call or asks something about it was invited, or called.
InvitedOK ==
    /\ \A p \in Devices : screen[p].call # None => Invited(p, screen[p].call)
    /\ \A r \in requests : Invited(r.page, r.call)
    /\ \A i \in Calls : \A d \in Devices : row[i].device = d =>
         row[i].caller # UserOf[d] /\ InviteTold(i) /\ NoInvite(d, i)

\* As long as the server does not know a call, one page does.
OwnedBy(o, i) ==
    /\ \A p \in Devices : screen[p].call = i => p = o
    /\ \A x \in tasks \cup requests : x.call = i => x.page = o

Owned == \A i \in Calls : row[i].status = "none" => \E o \in Devices \cup {None} : OwnedBy(o, i)

\* The page that has begun the call that it shows has no handlers of another one.
Begun(p)  == screen[p].call # None /\ row[screen[p].call].caller \in {None, UserOf[p]}
StartedOK == \A p \in Devices : Begun(p) => \A t \in tasks : t.page = p => t.call = screen[p].call

TaskOK(t) ==
    /\ t.step = "media" => t.reply = "none" /\ row[t.call].status = "none"
    /\ t.step = "accept" /\ t.reply = "ok" => row[t.call].device = t.page
    /\ t.step = "offering" => AcceptTold(t.call)
    /\ t.step = "offered" => row[t.call].status # "none" /\ row[t.call].caller # UserOf[t.page]

\* An offer of the caller follows the acceptance; who ended a call does not show it;
\* nobody is about to invite to a call that was.
RequestOK(r) ==
    /\ r.op = "offer" /\ row[r.call].caller \in {None, UserOf[r.page]} => AcceptTold(r.call)
    /\ r.op \in EndOps => screen[r.page].call # r.call
    /\ r.op = "invite" => \A t \in tasks : ~(t.step = "media" /\ t.call = r.call)

WorkOK == (\A t \in tasks : TaskOK(t)) /\ (\A r \in requests : RequestOK(r))

\* A page that has heard that another one took the call does not wait for it.
Waits(p, i) == screen[p].state = "incoming" /\ screen[p].call = i
Past(p, i)  == NoInvite(p, i) /\ ~Waits(p, i)

AcceptAhead(p, i) ==
    \E k \in 1 .. Len(inbox[p]) :
      /\ IsAccept(inbox[p][k], i)
      /\ \A j \in 1 .. Len(inbox[p]) :
           /\ j < k => ~IsOffer(inbox[p][j], i)
           /\ j > k => ~IsInvite(inbox[p][j], i)

TakenElse(p, i) ==
    AcceptTold(i) /\ socket[p] = "open" /\ row[i].caller # UserOf[p] /\ row[i].device # p

TakenIsHeard ==
    \A p \in Devices, i \in Calls : TakenElse(p, i) => Past(p, i) \/ AcceptAhead(p, i)

\* Who calls is the caller, and a page that connects has heard of a call that there is.
CallersCall ==
    \A p \in Devices \ strayed :
      /\ Screen!Shows(p, {"outgoing"}) => row[screen[p].call].caller \in {None, UserOf[p]}
      /\ Screen!Shows(p, {"connecting", "active"}) => row[screen[p].call].status # "none"

\* An event that ends the call is on its way to p.
EndingComes(p, i) ==
    \/ \E e \in relays : Ends(e, i) /\ e.page # p
    \/ \E k \in 1 .. Len(inbox[p]) : Ends(inbox[p][k], i)

\* p shows a call that has ended.
Overdue(p) ==
    /\ screen[p].call # None /\ screen[p].state # "idle"
    /\ row[screen[p].call].status \in Screen!Terminal
    /\ screen[p].state = "incoming" => row[screen[p].call].device = p

\* If nothing has failed, it will hear of it.
EndIsHeard ==
    failures = 0 =>
      /\ \A p \in Devices :
           IF p \in scenario.open THEN socket[p] = "open"
           ELSE socket[p] = "broken" /\ inbox[p] = <<>> /\ screen[p].call = None
      /\ \A p \in Devices \ strayed : Overdue(p) => EndingComes(p, screen[p].call)

ScreenInv ==
    /\ ScreenTypes /\ RowsOK /\ EventsOK /\ InvitedOnce /\ InvitedOK /\ Owned /\ StartedOK /\ WorkOK
    /\ TakenIsHeard /\ CallersCall
    /\ Screen!ConnectsIfTaken /\ Screen!CallerWasAnswered /\ EndIsHeard

-----------------------------------------------------------------------------
(* Calling: what sequences and constants give.                               *)

LEMMA ScreenNames ==
    /\ None \notin Devices /\ None \notin Calls
    /\ \A p \in Devices : UserOf[p] \in Screen!Users /\ UserOf[p] # None
    /\ \A p, q, r \in Devices : UserOf[p] # UserOf[q] => UserOf[r] \in {UserOf[p], UserOf[q]}
    /\ \A s \in Scenarios : s.faults \in Nat
  BY WebClientAssumption DEF Screen!CallScreenConstants, Screen!Users

LEMMA TailOfEvents ==
    ASSUME NEW q \in Seq(Events), q # <<>>
    PROVE  /\ Len(q) \in Nat \ {0} /\ Head(q) = q[1] /\ Head(q) \in Events
           /\ Tail(q) \in Seq(Events) /\ Len(q) = Len(Tail(q)) + 1
           /\ \A k \in 1 .. Len(Tail(q)) : k + 1 \in 1 .. Len(q) /\ Tail(q)[k] = q[k + 1]
  OBVIOUS

LEMMA LongerByOne ==
    ASSUME NEW q \in Seq(Events), NEW e \in Events
    PROVE  /\ Append(q, e) \in Seq(Events) /\ Len(q) \in Nat /\ Len(Append(q, e)) = Len(q) + 1
           /\ Append(q, e)[Len(q) + 1] = e
           /\ \A k \in 1 .. Len(q) : Append(q, e)[k] = q[k]
  OBVIOUS

LEMMA ScreenTyped ==
    ASSUME ScreenTypes
    PROVE  /\ scenario \in Scenarios /\ scenario.faults \in Nat /\ failures \in 0 .. scenario.faults
           /\ row \in [Calls -> CallRows] /\ screen \in [Devices -> Screens]
           /\ strayed \subseteq Devices /\ leaked \subseteq Devices \X (Calls \cup {None})
           /\ tasks \subseteq TaskRecords /\ requests \subseteq Events /\ relays \subseteq Events
           /\ inbox \in [Devices -> Seq(Events)]
           /\ socket \in [Devices -> {"open", "broken", "reopened"}]
  BY ScreenNames DEF ScreenTypes, Screen!TypeOK, CallRows, Screens

LEMMA ScreenTypeFacts ==
    ASSUME scenario \in Scenarios, failures \in 0 .. scenario.faults,
           row \in [Calls -> CallRows], screen \in [Devices -> Screens],
           strayed \subseteq Devices, leaked \subseteq Devices \X (Calls \cup {None}),
           tasks \subseteq TaskRecords, requests \subseteq Events, relays \subseteq Events,
           inbox \in [Devices -> Seq(Events)],
           socket \in [Devices -> {"open", "broken", "reopened"}]
    PROVE  ScreenTypes
  BY DEF ScreenTypes, Screen!TypeOK, CallRows, Screens

LEMMA ScreenInit == Init => ScreenInv
  <1> SUFFICES ASSUME Screen!Init PROVE ScreenInv
    BY DEF Init
  <1> USE DEF Screen!Init
  <1>1. ScreenTypes
    <2>1. Screen!NoRow \in CallRows /\ Screen!Blank \in Screens
      BY ScreenNames DEF Screen!NoRow, Screen!Blank, CallRows, Screens
    <2>2. <<>> \in Seq(Events)
      OBVIOUS
    <2>3. scenario.faults \in Nat
      BY ScreenNames
    <2> QED
      BY <2>1, <2>2, <2>3, ScreenTypeFacts
  <1>2. /\ \A p \in Devices : screen[p] = Screen!Blank /\ inbox[p] = <<>>
        /\ \A i \in Calls : row[i] = Screen!NoRow
    OBVIOUS
  <1>3. /\ Screen!NoRow.status = "none" /\ Screen!NoRow.caller = None /\ Screen!NoRow.device = None
        /\ Screen!Blank.state = "idle" /\ Screen!Blank.call = None
    BY DEF Screen!NoRow, Screen!Blank
  <1>4. RowsOK /\ EventsOK /\ InvitedOnce /\ StartedOK /\ WorkOK /\ CallersCall
    BY <1>2, <1>3
    DEF RowsOK, RowOK, EventsOK, InvitedOnce, StartedOK, Begun, WorkOK, CallersCall, Screen!Shows
  <1>5. InvitedOK
    BY <1>2, <1>3, ScreenNames DEF InvitedOK
  <1>6. Owned
    <2>1. \A i \in Calls : OwnedBy(None, i)
      BY <1>2, <1>3, ScreenNames DEF OwnedBy
    <2> QED
      BY <2>1 DEF Owned
  <1>7. TakenIsHeard
    BY <1>2, <1>3 DEF TakenIsHeard, TakenElse, AcceptTold
  <1>8. Screen!ConnectsIfTaken /\ Screen!CallerWasAnswered
    BY <1>2, <1>3 DEF Screen!ConnectsIfTaken, Screen!CallerWasAnswered, Screen!Shows
  <1>9. EndIsHeard
    BY <1>2, <1>3 DEF EndIsHeard, Overdue
  <1> QED
    BY <1>1, <1>4, <1>5, <1>6, <1>7, <1>8, <1>9 DEF ScreenInv

-----------------------------------------------------------------------------
(* Calling: what a page may do.                                              *)

\* p has to do with call i, or there is no other page yet that has.
Mine(p, i) ==
    \/ row[i].status # "none" \/ screen[p].call = i
    \/ \E t \in tasks : t.page = p /\ t.call = i
    \/ Screen!Fresh(i)

\* A handler that begins, or goes on, when the page comes to show x.
NewTask(p, x, t) ==
    /\ t \in TaskRecords /\ t.page = p /\ Mine(p, t.call) /\ TaskOK(t)
    /\ t.step = "media" => Screen!Fresh(t.call)
    /\ (x.call # None /\ row[x.call].caller \in {None, UserOf[p]}) => t.call = x.call

NewRequest(p, x, r) ==
    /\ r \in Events /\ r.page = p /\ Mine(p, r.call) /\ Invited(p, r.call)'
    /\ (r.op = "offer" /\ row[r.call].caller \in {None, UserOf[p]}) => AcceptTold(r.call)
    /\ r.op \in EndOps => x.call # r.call
    /\ r.op = "invite" => \A t \in tasks' : ~(t.step = "media" /\ t.call = r.call)

\* The page shows another call: it is its own and new, or the next event invites it.
NewCall(p, x) ==
    x.call \notin {None, screen[p].call} =>
      /\ Screen!Connected(p) \/ inbox[p] # <<>>
      /\ Invited(p, x.call)'
      /\ row[x.call].status # "none" \/ Screen!Fresh(x.call)
      /\ \A r \in requests : r.page = p => r.call # x.call
      /\ row[x.call].caller \in {None, UserOf[p]} => \A t \in tasks : t.page # p
      /\ \/ x.state = "idle"
         \/ /\ x.state = "incoming" /\ row[x.call].device # p
            /\ inbox[p] # <<>> /\ IsInvite(Head(inbox[p]), x.call)

\* The page goes on with its call.
Moves(p, x) ==
    (x.call = screen[p].call /\ x.call # None) =>
      LET s == screen[p]
          c == row[x.call]
      IN
      /\ x.state = "incoming" => s.state = "incoming"
      /\ p \notin strayed' =>
           /\ x.state = "outgoing" => s.state = "outgoing" \/ c.status = "none"
           /\ x.state \in {"connecting", "active"} =>
                \/ s.state \in {"connecting", "active"}
                \/ s.state = "outgoing" /\ c.status # "none"
                \/ /\ s.state \in {"incoming", "outgoing"} /\ c.status # "none"
                   /\ c.device = p \/ socket[p] # "open"
           /\ x.state = "active" =>
                \/ s.state = "active" \/ c.caller # UserOf[p]
                \/ c.status \in {"active"} \cup Screen!Terminal

\* It reads no event, or the next one and heeds that its call has ended or was taken.
Reads(p, x) ==
    \/ inbox' = inbox
    \/ /\ inbox[p] # <<>> /\ inbox' = [inbox EXCEPT ![p] = Tail(@)]
       /\ x.call # None => ~Ends(Head(inbox[p]), x.call)
       /\ ~(/\ x.state = "incoming" /\ x.call # None
            /\ IsAccept(Head(inbox[p]), x.call) /\ row[x.call].caller # UserOf[p])

PageStep(p, x) ==
    /\ UNCHANGED <<scenario, row, relays, socket>>
    /\ x \in Screens /\ screen' = [screen EXCEPT ![p] = x]
    /\ leaked' \subseteq Devices \X (Calls \cup {None})
    /\ failures' \in 0 .. scenario.faults /\ failures <= failures'
    /\ strayed \subseteq strayed' /\ strayed' \subseteq Devices
    /\ \A t \in tasks' : t \in tasks \/ NewTask(p, x, t)
    /\ \A r \in requests' : r \in requests \/ NewRequest(p, x, r)
    /\ NewCall(p, x) /\ Moves(p, x) /\ Reads(p, x)

\* After reading, the inbox is what it was without its first d events.
Rest(p, d) ==
    /\ inbox' \in [Devices -> Seq(Events)]
    /\ \A q \in Devices : q # p => inbox'[q] = inbox[q]
    /\ Len(inbox[p]) \in Nat /\ Len(inbox'[p]) \in Nat /\ Len(inbox[p]) = Len(inbox'[p]) + d
    /\ \A k \in 1 .. Len(inbox'[p]) : k + d \in 1 .. Len(inbox[p]) /\ inbox'[p][k] = inbox[p][k + d]

LEMMA ReadsRest ==
    ASSUME ScreenInv, NEW p \in Devices, NEW x, Reads(p, x)
    PROVE  \E d \in {0, 1} :
             /\ Rest(p, d)
             /\ d = 0 => inbox' = inbox
             /\ d = 1 => /\ inbox[p] # <<>> /\ Head(inbox[p]) = inbox[p][1]
                         /\ x.call # None => ~Ends(inbox[p][1], x.call)
                         /\ ~(/\ x.state = "incoming" /\ x.call # None
                              /\ IsAccept(inbox[p][1], x.call) /\ row[x.call].caller # UserOf[p])
  <1>1. inbox \in [Devices -> Seq(Events)] /\ inbox[p] \in Seq(Events) /\ Len(inbox[p]) \in Nat
    BY ScreenTyped DEF ScreenInv
  <1>2. CASE inbox' = inbox
    <2>1. \A k \in 1 .. Len(inbox[p]) : k + 0 = k
      OBVIOUS
    <2>2. Rest(p, 0)
      BY <1>1, <1>2, <2>1 DEF Rest
    <2> QED
      BY <1>2, <2>2
  <1>3. CASE inbox' # inbox
    <2>1. /\ inbox[p] # <<>> /\ inbox' = [inbox EXCEPT ![p] = Tail(@)]
          /\ x.call # None => ~Ends(Head(inbox[p]), x.call)
          /\ ~(/\ x.state = "incoming" /\ x.call # None
               /\ IsAccept(Head(inbox[p]), x.call) /\ row[x.call].caller # UserOf[p])
      BY <1>3 DEF Reads
    <2> DEFINE q == inbox[p]
    <2>2. /\ Len(q) \in Nat \ {0} /\ Head(q) = q[1] /\ Tail(q) \in Seq(Events)
          /\ Len(q) = Len(Tail(q)) + 1
          /\ \A k \in 1 .. Len(Tail(q)) : k + 1 \in 1 .. Len(q) /\ Tail(q)[k] = q[k + 1]
      BY <1>1, <2>1, TailOfEvents
    <2>3. inbox'[p] = Tail(q) /\ \A o \in Devices : o # p => inbox'[o] = inbox[o]
      BY <1>1, <2>1
    <2>4. inbox' \in [Devices -> Seq(Events)]
      BY <1>1, <2>1, <2>2
    <2>5. Rest(p, 1)
      BY <2>2, <2>3, <2>4 DEF Rest
    <2> QED
      BY <2>1, <2>2, <2>5
  <1> QED
    BY <1>2, <1>3

LEMMA PageTypes ==
    ASSUME ScreenInv, NEW p \in Devices, NEW x, PageStep(p, x)
    PROVE  /\ ScreenTypes' /\ screen'[p] = x
           /\ \A q \in Devices : q # p => screen'[q] = screen[q]
  <1>1. PICK d \in {0, 1} : Rest(p, d)
    BY ReadsRest DEF PageStep
  <1>2. tasks' \subseteq TaskRecords /\ requests' \subseteq Events
    BY ScreenTyped DEF ScreenInv, PageStep, NewTask, NewRequest
  <1>3. screen' \in [Devices -> Screens]
    BY ScreenTyped DEF ScreenInv, PageStep
  <1>4. inbox' \in [Devices -> Seq(Events)]
    BY <1>1 DEF Rest
  <1>5. /\ scenario' \in Scenarios /\ failures' \in 0 .. scenario'.faults
        /\ row' \in [Calls -> CallRows] /\ relays' \subseteq Events
        /\ strayed' \subseteq Devices /\ leaked' \subseteq Devices \X (Calls \cup {None})
        /\ socket' \in [Devices -> {"open", "broken", "reopened"}]
    BY ScreenTyped DEF ScreenInv, PageStep
  <1>6. ScreenTypes'
    BY <1>2, <1>3, <1>4, <1>5 DEF ScreenTypes, Screen!TypeOK, CallRows, Screens
  <1>7. screen \in [Devices -> Screens] /\ screen' = [screen EXCEPT ![p] = x]
    BY ScreenTyped DEF ScreenInv, PageStep
  <1> QED
    BY <1>6, <1>7

\* Events that were not read are in order still.
LEMMA PageEvents ==
    ASSUME ScreenInv, NEW p \in Devices, NEW x, PageStep(p, x)
    PROVE  /\ RowsOK' /\ EventsOK' /\ InvitedOnce'
           /\ \A q \in Devices, i \in Calls : NoInvite(q, i) => NoInvite(q, i)'
           /\ \A q \in Devices, i \in Calls : Invited(q, i) => Invited(q, i)'
  <1>1. PICK d \in {0, 1} : Rest(p, d)
    BY ReadsRest DEF PageStep
  <1>2. UNCHANGED <<row, relays>>
    BY DEF PageStep
  <1>3. RowsOK'
    BY <1>2 DEF ScreenInv, RowsOK, RowOK
  <1>5. EventsOK'
    <2>1. \A e \in relays' : EventOK(e)'
      BY <1>2 DEF ScreenInv, EventsOK, EventOK, AcceptTold
    <2>2. ASSUME NEW q \in Devices, NEW k \in 1 .. Len(inbox'[q])
          PROVE  ArrivalOK(q, inbox'[q][k])
      <3>1. CASE q = p
        <4>1. k + d \in 1 .. Len(inbox[p]) /\ inbox'[p][k] = inbox[p][k + d]
          BY <1>1, <3>1, <2>2 DEF Rest
        <4> QED
          BY <3>1, <4>1 DEF ScreenInv, EventsOK
      <3>2. CASE q # p
        BY <1>1, <2>2, <3>2 DEF Rest, ScreenInv, EventsOK
      <3> QED
        BY <3>1, <3>2
    <2>3. \A q \in Devices : \A k \in 1 .. Len(inbox'[q]) : ArrivalOK(q, inbox[q][k])'
      BY <1>2, <2>2 DEF ArrivalOK, EventOK, InviteTold, AcceptTold
    <2> QED
      BY <2>1, <2>3 DEF EventsOK
  <1>6. InvitedOnce'
    <2>1. \A e, f \in relays' : (e.op = "invite" /\ IsInvite(f, e.call)) => e = f
      BY <1>2 DEF ScreenInv, InvitedOnce
    <2>2. ASSUME NEW q \in Devices, NEW j \in 1 .. Len(inbox'[q]), NEW k \in 1 .. Len(inbox'[q]),
                 inbox'[q][j].op = "invite", IsInvite(inbox'[q][k], inbox'[q][j].call)
          PROVE  j = k
      <3>1. CASE q = p
        <4>1. /\ j + d \in 1 .. Len(inbox[p]) /\ inbox'[p][j] = inbox[p][j + d]
              /\ k + d \in 1 .. Len(inbox[p]) /\ inbox'[p][k] = inbox[p][k + d]
          BY <1>1, <3>1 DEF Rest
        <4>2. j + d = k + d
          BY <2>2, <3>1, <4>1 DEF ScreenInv, InvitedOnce
        <4>3. Len(inbox'[p]) \in Nat
          BY <1>1 DEF Rest
        <4> QED
          BY <3>1, <4>2, <4>3
      <3>2. CASE q # p
        BY <1>1, <2>2, <3>2 DEF Rest, ScreenInv, InvitedOnce
      <3> QED
        BY <3>1, <3>2
    <2> QED
      BY <2>1, <2>2 DEF InvitedOnce
  <1>7. ASSUME NEW q \in Devices, NEW i \in Calls, NoInvite(q, i) PROVE NoInvite(q, i)'
    <2>1. CASE q = p
      BY <1>1, <1>7, <2>1 DEF Rest, NoInvite
    <2>2. CASE q # p
      BY <1>1, <1>7, <2>2 DEF Rest, NoInvite
    <2> QED
      BY <2>1, <2>2
  <1>8. \A q \in Devices, i \in Calls : Invited(q, i) => Invited(q, i)'
    BY <1>2, <1>7 DEF Invited, InviteTold
  <1> QED
    BY <1>3, <1>5, <1>6, <1>7, <1>8

LEMMA PageInvited ==
    ASSUME ScreenInv, NEW p \in Devices, NEW x, PageStep(p, x)
    PROVE  InvitedOK'
  <1>1. /\ screen'[p] = x /\ \A q \in Devices : q # p => screen'[q] = screen[q]
        /\ screen \in [Devices -> Screens] /\ requests \subseteq Events
    BY PageTypes, ScreenTyped DEF ScreenInv
  <1>2. \A q \in Devices, i \in Calls :
          (NoInvite(q, i) => NoInvite(q, i)') /\ (Invited(q, i) => Invited(q, i)')
    BY PageEvents
  <1>3. ASSUME NEW q \in Devices, NEW i \in Calls, screen'[q].call = i PROVE Invited(q, i)'
    <2>1. CASE screen[q].call = i
      <3>1. Invited(q, i)
        BY <2>1, ScreenNames DEF ScreenInv, InvitedOK
      <3> QED
        BY <1>2, <3>1
    <2>2. CASE screen[q].call # i
      <3>1. q = p /\ x.call = i /\ x.call \notin {None, screen[p].call}
        BY <1>1, <1>3, <2>2, ScreenNames
      <3> QED
        BY <3>1 DEF PageStep, NewCall
    <2> QED
      BY <2>1, <2>2
  <1>6. ASSUME NEW q \in Devices, screen'[q].call # None PROVE Invited(q, screen[q].call)'
    <2>1. screen'[q].call \in Calls
      BY <1>1, <1>6 DEF Screens, PageStep
    <2> QED
      BY <1>3, <2>1 DEF Invited, InviteTold, NoInvite
  <1>4. ASSUME NEW r \in requests' PROVE Invited(r.page, r.call)'
    <2>1. CASE r \in requests
      BY <1>1, <1>2, <2>1 DEF ScreenInv, InvitedOK, Events
    <2>2. CASE r \notin requests
      <3>1. NewRequest(p, x, r)
        BY <2>2 DEF PageStep
      <3> QED
        BY <3>1 DEF NewRequest
    <2> QED
      BY <2>1, <2>2
  <1>5. ASSUME NEW i \in Calls, NEW d \in Devices, row'[i].device = d
        PROVE  row'[i].caller # UserOf[d] /\ InviteTold(i)' /\ NoInvite(d, i)'
    <2>1. UNCHANGED <<row, relays>>
      BY DEF PageStep
    <2>2. row[i].caller # UserOf[d] /\ InviteTold(i) /\ NoInvite(d, i)
      BY <1>5, <2>1 DEF ScreenInv, InvitedOK
    <2> QED
      BY <1>2, <2>1, <2>2 DEF InviteTold
  <1> QED
    BY <1>6, <1>4, <1>5 DEF InvitedOK

LEMMA MineOwns ==
    ASSUME ScreenInv, NEW p \in Devices, NEW i \in Calls, Mine(p, i), row[i].status = "none"
    PROVE  OwnedBy(p, i)
  <1>1. PICK o : OwnedBy(o, i)
    BY DEF ScreenInv, Owned
  <1>2. CASE Screen!Fresh(i)
    BY <1>2 DEF Screen!Fresh, OwnedBy
  <1>3. CASE screen[p].call = i
    BY <1>1, <1>3 DEF OwnedBy
  <1>4. CASE \E t \in tasks : t.page = p /\ t.call = i
    BY <1>1, <1>4 DEF OwnedBy
  <1> QED
    BY <1>2, <1>3, <1>4 DEF Mine

LEMMA PageOwned ==
    ASSUME ScreenInv, NEW p \in Devices, NEW x, PageStep(p, x)
    PROVE  Owned'
  <1>1. /\ screen'[p] = x /\ \A q \in Devices : q # p => screen'[q] = screen[q]
        /\ screen \in [Devices -> Screens]
    BY PageTypes, ScreenTyped DEF ScreenInv
  <1> SUFFICES ASSUME NEW i \in Calls, row'[i].status = "none"
               PROVE  \E o \in Devices \cup {None} : OwnedBy(o, i)'
    BY DEF Owned
  <1>2. row[i].status = "none" /\ row' = row
    BY DEF PageStep
  <1>3. PICK o \in Devices \cup {None} : OwnedBy(o, i)
    BY <1>2 DEF ScreenInv, Owned
  <1>4. CASE Mine(p, i)
    <2>1. OwnedBy(p, i)
      BY <1>2, <1>4, MineOwns
    <2>2. \A t \in tasks' : t \in tasks \/ t.page = p
      BY DEF PageStep, NewTask
    <2>3. \A r \in requests' : r \in requests \/ r.page = p
      BY DEF PageStep, NewRequest
    <2>4. OwnedBy(p, i)'
      BY <1>1, <2>1, <2>2, <2>3 DEF OwnedBy
    <2> QED
      BY <2>4
  <1>5. CASE ~Mine(p, i)
    <2>1. \A t \in tasks' : t.call = i => t \in tasks
      BY <1>5 DEF PageStep, NewTask
    <2>2. \A r \in requests' : r.call = i => r \in requests
      BY <1>5 DEF PageStep, NewRequest
    <2>3. x.call # i
      <3>1. i # None /\ screen[p].call # i
        BY <1>5, ScreenNames DEF Mine
      <3> QED
        BY <1>2, <1>5, <3>1 DEF PageStep, NewCall, Mine
    <2>4. OwnedBy(o, i)'
      BY <1>1, <1>3, <2>1, <2>2, <2>3 DEF OwnedBy
    <2> QED
      BY <2>4
  <1> QED
    BY <1>4, <1>5

LEMMA PageStarted ==
    ASSUME ScreenInv, NEW p \in Devices, NEW x, PageStep(p, x)
    PROVE  StartedOK'
  <1>1. /\ screen'[p] = x /\ \A q \in Devices : q # p => screen'[q] = screen[q]
        /\ row' = row
    BY PageTypes DEF PageStep
  <1> SUFFICES ASSUME NEW q \in Devices, Begun(q)', NEW t \in tasks', t.page = q
               PROVE  t.call = screen'[q].call
    BY DEF StartedOK
  <1>2. CASE q # p
    <2>1. t \in tasks /\ Begun(q)
      BY <1>1, <1>2 DEF PageStep, NewTask, Begun
    <2> QED
      BY <1>1, <1>2, <2>1 DEF ScreenInv, StartedOK
  <1>3. CASE q = p
    <2>1. x.call # None /\ row[x.call].caller \in {None, UserOf[p]}
      BY <1>1, <1>3 DEF Begun
    <2>2. CASE t \notin tasks
      BY <1>1, <1>3, <2>1, <2>2 DEF PageStep, NewTask
    <2>3. CASE t \in tasks /\ x.call = screen[p].call
      BY <1>1, <1>3, <2>1, <2>3 DEF ScreenInv, StartedOK, Begun
    <2>4. CASE t \in tasks /\ x.call # screen[p].call
      BY <1>3, <2>1, <2>4 DEF PageStep, NewCall
    <2> QED
      BY <2>2, <2>3, <2>4
  <1> QED
    BY <1>2, <1>3

LEMMA PageWork ==
    ASSUME ScreenInv, NEW p \in Devices, NEW x, PageStep(p, x)
    PROVE  WorkOK'
  <1>1. /\ screen'[p] = x /\ \A q \in Devices : q # p => screen'[q] = screen[q]
        /\ UNCHANGED <<row, relays>>
        /\ requests \subseteq Events /\ screen \in [Devices -> Screens]
    BY PageTypes, ScreenTyped DEF PageStep, ScreenInv
  <1>2. ASSUME NEW t \in tasks' PROVE TaskOK(t)'
    <2>1. TaskOK(t)
      BY DEF PageStep, NewTask, ScreenInv, WorkOK
    <2> QED
      BY <1>1, <2>1 DEF TaskOK, AcceptTold
  <1>3. ASSUME NEW r \in requests' PROVE RequestOK(r)'
    <2>1. CASE r \notin requests
      <3>1. NewRequest(p, x, r)
        BY <2>1 DEF PageStep
      <3> QED
        BY <1>1, <3>1 DEF NewRequest, RequestOK, AcceptTold
    <2>2. CASE r \in requests
      <3>1. RequestOK(r) /\ r.page \in Devices /\ r.call \in Calls
        BY <1>1, <2>2 DEF ScreenInv, WorkOK, Events
      <3>2. r.op \in EndOps => screen'[r.page].call # r.call
        <4>1. CASE r.page # p
          BY <1>1, <3>1, <4>1 DEF RequestOK
        <4>2. CASE r.page = p
          <5>1. r.call # None
            BY <3>1, ScreenNames
          <5> QED
            BY <1>1, <2>2, <3>1, <4>2, <5>1 DEF RequestOK, PageStep, NewCall
        <4> QED
          BY <4>1, <4>2
      <3>3. ASSUME r.op = "invite", NEW t \in tasks', t.step = "media", t.call = r.call PROVE FALSE
        <4>1. CASE t \in tasks
          BY <3>1, <3>3, <4>1 DEF RequestOK
        <4>2. CASE t \notin tasks
          BY <2>2, <3>3, <4>2 DEF PageStep, NewTask, Screen!Fresh
        <4> QED
          BY <4>1, <4>2
      <3> QED
        BY <1>1, <3>1, <3>2, <3>3 DEF RequestOK, AcceptTold
    <2> QED
      BY <2>1, <2>2
  <1> QED
    BY <1>2, <1>3 DEF WorkOK

LEMMA PageHeard ==
    ASSUME ScreenInv, NEW p \in Devices, NEW x, PageStep(p, x)
    PROVE  TakenIsHeard'
  <1>1. /\ screen'[p] = x /\ \A q \in Devices : q # p => screen'[q] = screen[q]
        /\ UNCHANGED <<row, relays, socket>>
    BY PageTypes DEF PageStep
  <1>2. PICK d \in {0, 1} :
          /\ Rest(p, d)
          /\ d = 0 => inbox' = inbox
          /\ d = 1 => /\ inbox[p] # <<>> /\ Head(inbox[p]) = inbox[p][1]
                      /\ ~(/\ x.state = "incoming" /\ x.call # None
                           /\ IsAccept(inbox[p][1], x.call) /\ row[x.call].caller # UserOf[p])
    BY ReadsRest DEF PageStep
  <1> SUFFICES ASSUME NEW q \in Devices, NEW i \in Calls, TakenElse(q, i)'
               PROVE  Past(q, i)' \/ AcceptAhead(q, i)'
    BY DEF TakenIsHeard
  <1>3. TakenElse(q, i) /\ (Past(q, i) \/ AcceptAhead(q, i))
    <2>1. TakenElse(q, i)
      BY <1>1 DEF TakenElse, AcceptTold
    <2> QED
      BY <2>1 DEF ScreenInv, TakenIsHeard
  <1>4. CASE q # p
    <2>1. screen'[q] = screen[q] /\ inbox'[q] = inbox[q]
      BY <1>1, <1>2, <1>4 DEF Rest
    <2> QED
      BY <1>3, <2>1 DEF Past, AcceptAhead, NoInvite, Waits
  <1>5. CASE q = p /\ Past(p, i)
    <2>1. NoInvite(p, i)'
      BY <1>5, PageEvents DEF Past
    <2>2. ASSUME x.state = "incoming", x.call = i PROVE FALSE
      <3>1. i # None
        BY ScreenNames
      <3>2. CASE screen[p].call = i
        BY <1>5, <2>2, <3>1, <3>2 DEF PageStep, Moves, Past, Waits
      <3>3. CASE screen[p].call # i
        <4>1. inbox[p] # <<>> /\ IsInvite(Head(inbox[p]), i)
          BY <2>2, <3>1, <3>3 DEF PageStep, NewCall
        <4>2. inbox[p] \in Seq(Events)
          BY ScreenTyped DEF ScreenInv
        <4>3. 1 \in 1 .. Len(inbox[p]) /\ Head(inbox[p]) = inbox[p][1]
          BY <4>1, <4>2, TailOfEvents
        <4> QED
          BY <1>5, <4>1, <4>3 DEF Past, NoInvite
      <3> QED
        BY <3>2, <3>3
    <2> QED
      BY <1>1, <1>5, <2>1, <2>2 DEF Past, Waits
  <1>6. CASE q = p /\ d = 0 /\ AcceptAhead(p, i)
    BY <1>2, <1>6 DEF AcceptAhead
  <1>7. CASE q = p /\ d = 1 /\ AcceptAhead(p, i)
    <2>1. /\ Len(inbox[p]) \in Nat /\ Len(inbox'[p]) \in Nat /\ Len(inbox[p]) = Len(inbox'[p]) + 1
          /\ \A k \in 1 .. Len(inbox'[p]) : k + 1 \in 1 .. Len(inbox[p]) /\ inbox'[p][k] = inbox[p][k + 1]
      BY <1>2, <1>7 DEF Rest
    <2>2. PICK k \in 1 .. Len(inbox[p]) :
            /\ IsAccept(inbox[p][k], i)
            /\ \A j \in 1 .. Len(inbox[p]) :
                 /\ j < k => ~IsOffer(inbox[p][j], i)
                 /\ j > k => ~IsInvite(inbox[p][j], i)
      BY <1>7 DEF AcceptAhead
    <2>3. CASE k = 1
      <3>1. ~(x.state = "incoming" /\ x.call = i)
        BY <1>2, <1>3, <1>7, <2>2, <2>3, ScreenNames DEF TakenElse
      <3>2. \A j \in 1 .. Len(inbox'[p]) : ~IsInvite(inbox'[p][j], i)
        <4> TAKE j \in 1 .. Len(inbox'[p])
        <4>1. j + 1 > k
          BY <2>1, <2>3
        <4> QED
          BY <2>1, <2>2, <4>1
      <3> QED
        BY <1>1, <1>7, <3>1, <3>2 DEF Past, NoInvite, Waits
    <2>4. CASE k # 1
      <3>1. PICK n \in 1 .. Len(inbox'[p]) : n + 1 = k
        <4>1. k - 1 \in 1 .. Len(inbox'[p]) /\ (k - 1) + 1 = k
          BY <2>1, <2>4
        <4> QED
          BY <4>1
      <3>2. IsAccept(inbox'[p][n], i)
        BY <2>1, <2>2, <3>1
      <3>3. ASSUME NEW j \in 1 .. Len(inbox'[p])
            PROVE  /\ j < n => ~IsOffer(inbox'[p][j], i)
                   /\ j > n => ~IsInvite(inbox'[p][j], i)
        <4>1. (j < n => j + 1 < k) /\ (j > n => j + 1 > k)
          BY <2>1, <3>1
        <4> QED
          BY <2>1, <2>2, <4>1
      <3> QED
        BY <1>7, <3>2, <3>3 DEF AcceptAhead
    <2> QED
      BY <2>3, <2>4
  <1> QED
    BY <1>3, <1>4, <1>5, <1>6, <1>7

\* The state that a page shows after its step, where nothing strayed.
LEMMA Moved ==
    ASSUME ScreenInv, NEW p \in Devices, NEW x, PageStep(p, x),
           p \notin strayed', x.call # None, x.state # "idle"
    PROVE  /\ p \notin strayed /\ x.call \in Calls
           /\ x.state \in {"outgoing", "connecting", "active"} => x.call = screen[p].call
           /\ x.call = screen[p].call =>
                /\ x.state = "incoming" => screen[p].state = "incoming"
                /\ x.state = "outgoing" =>
                     screen[p].state = "outgoing" \/ row[x.call].status = "none"
                /\ x.state \in {"connecting", "active"} =>
                     \/ screen[p].state \in {"connecting", "active"}
                     \/ screen[p].state = "outgoing" /\ row[x.call].status # "none"
                     \/ /\ screen[p].state \in {"incoming", "outgoing"}
                        /\ row[x.call].status # "none"
                        /\ row[x.call].device = p \/ socket[p] # "open"
                /\ x.state = "active" =>
                     \/ screen[p].state = "active" \/ row[x.call].caller # UserOf[p]
                     \/ row[x.call].status \in {"active"} \cup Screen!Terminal
           /\ x.call # screen[p].call => x.state = "incoming" /\ row[x.call].device # p
  <1>1. p \notin strayed /\ x.call \in Calls
    BY DEF PageStep, Screens
  <1>2. ASSUME x.call # screen[p].call PROVE x.state = "incoming" /\ row[x.call].device # p
    BY <1>2 DEF PageStep, NewCall
  <1>3. CASE x.call = screen[p].call
    <2>1. Moves(p, x)
      BY DEF PageStep
    <2> QED
      BY <1>1, <1>2, <1>3, <2>1 DEF Moves
  <1> QED
    BY <1>1, <1>2, <1>3

LEMMA PageCalls ==
    ASSUME ScreenInv, NEW p \in Devices, NEW x, PageStep(p, x)
    PROVE  CallersCall' /\ Screen!ConnectsIfTaken' /\ Screen!CallerWasAnswered'
  <1>1. /\ screen'[p] = x /\ \A q \in Devices : q # p => screen'[q] = screen[q]
        /\ UNCHANGED <<row, socket>> /\ strayed \subseteq strayed'
    BY PageTypes DEF PageStep
  <1> USE DEF Screen!Shows, Screen!IsCallersPage
  <1>2. ASSUME p \notin strayed', x.call # None, x.state = "outgoing"
        PROVE  row[x.call].caller \in {None, UserOf[p]}
    <2>1. x.call \in Calls /\ x.call = screen[p].call
          /\ (screen[p].state = "outgoing" \/ row[x.call].status = "none") /\ p \notin strayed
      BY <1>2, Moved
    <2> QED
      BY <1>2, <2>1 DEF ScreenInv, CallersCall, RowsOK, RowOK
  <1>3. ASSUME p \notin strayed', x.call # None, x.state \in {"connecting", "active"}
        PROVE  /\ row[x.call].status # "none"
               /\ row[x.call].caller # UserOf[p] /\ socket[p] = "open" => row[x.call].device = p
    <2>1. /\ x.call \in Calls /\ x.call = screen[p].call /\ p \notin strayed
          /\ \/ screen[p].state \in {"connecting", "active"}
             \/ screen[p].state = "outgoing" /\ row[x.call].status # "none"
             \/ row[x.call].status # "none" /\ (row[x.call].device = p \/ socket[p] # "open")
      BY <1>3, Moved
    <2>2. CASE screen[p].state \in {"connecting", "active"}
      BY <1>3, <2>1, <2>2 DEF ScreenInv, CallersCall, Screen!ConnectsIfTaken
    <2>3. CASE screen[p].state = "outgoing" /\ row[x.call].status # "none"
      <3>1. row[x.call].caller \in {None, UserOf[p]}
        BY <1>3, <2>1, <2>3 DEF ScreenInv, CallersCall
      <3> QED
        BY <2>1, <2>3, <3>1 DEF ScreenInv, RowsOK, RowOK
    <2> QED
      BY <2>1, <2>2, <2>3
  <1>4. ASSUME p \notin strayed', x.call # None, x.state = "active", row[x.call].caller = UserOf[p]
        PROVE  row[x.call].status \in {"active"} \cup Screen!Terminal
    <2>1. /\ x.call \in Calls /\ x.call = screen[p].call /\ p \notin strayed
          /\ screen[p].state = "active" \/ row[x.call].status \in {"active"} \cup Screen!Terminal
      BY <1>4, Moved
    <2> QED
      BY <1>4, <2>1 DEF ScreenInv, Screen!CallerWasAnswered
  <1>5. CallersCall'
    BY <1>1, <1>2, <1>3 DEF ScreenInv, CallersCall
  <1>6. Screen!ConnectsIfTaken'
    BY <1>1, <1>3 DEF ScreenInv, Screen!ConnectsIfTaken
  <1>7. Screen!CallerWasAnswered'
    BY <1>1, <1>4 DEF ScreenInv, Screen!CallerWasAnswered
  <1> QED
    BY <1>5, <1>6, <1>7

LEMMA PageEnds ==
    ASSUME ScreenInv, NEW p \in Devices, NEW x, PageStep(p, x)
    PROVE  EndIsHeard'
  <1>1. /\ screen'[p] = x /\ \A q \in Devices : q # p => screen'[q] = screen[q]
        /\ UNCHANGED <<scenario, row, relays, socket>> /\ strayed \subseteq strayed'
    BY PageTypes DEF PageStep
  <1>2. PICK d \in {0, 1} :
          /\ Rest(p, d)
          /\ d = 0 => inbox' = inbox
          /\ d = 1 => /\ inbox[p] # <<>>
                      /\ x.call # None => ~Ends(inbox[p][1], x.call)
    BY ReadsRest DEF PageStep
  <1> SUFFICES ASSUME failures' = 0 PROVE EndIsHeard'
    BY DEF EndIsHeard
  <1>3. failures = 0
    BY ScreenTyped DEF ScreenInv, PageStep
  <1>4. ASSUME NEW q \in Devices
        PROVE  IF q \in scenario'.open THEN socket'[q] = "open"
               ELSE socket'[q] = "broken" /\ inbox'[q] = <<>> /\ screen'[q].call = None
    <2>1. IF q \in scenario.open THEN socket[q] = "open"
          ELSE socket[q] = "broken" /\ inbox[q] = <<>> /\ screen[q].call = None
      BY <1>3 DEF ScreenInv, EndIsHeard
    <2>2. CASE q # p
      BY <1>1, <1>2, <2>1, <2>2 DEF Rest
    <2>3. CASE q = p /\ p \in scenario.open
      BY <1>1, <2>1, <2>3
    <2>4. CASE q = p /\ p \notin scenario.open
      <3>1. inbox' = inbox
        BY <1>2, <2>1, <2>4
      <3>2. x.call = None
        BY <2>1, <2>4 DEF PageStep, NewCall, Screen!Connected
      <3> QED
        BY <1>1, <2>1, <2>4, <3>1, <3>2
    <2> QED
      BY <2>2, <2>3, <2>4
  <1>5. ASSUME NEW q \in Devices \ strayed', Overdue(q)'
        PROVE  EndingComes(q, screen[q].call)'
    <2>1. CASE q # p
      <3>1. Overdue(q) /\ q \notin strayed
        BY <1>1, <1>5, <2>1 DEF Overdue
      <3>2. EndingComes(q, screen[q].call)
        BY <1>3, <3>1 DEF ScreenInv, EndIsHeard
      <3>3. screen'[q] = screen[q] /\ inbox'[q] = inbox[q]
        BY <1>1, <1>2, <2>1 DEF Rest
      <3> QED
        BY <1>1, <3>2, <3>3 DEF EndingComes
    <2>2. CASE q = p
      <3>1. /\ x.call # None /\ x.state # "idle" /\ row[x.call].status \in Screen!Terminal
            /\ x.state = "incoming" => row[x.call].device = p
            /\ p \notin strayed'
        BY <1>1, <1>5, <2>2 DEF Overdue
      <3>2. row[x.call].status # "none"
        BY <3>1 DEF Screen!Terminal
      <3>3. x.call = screen[p].call /\ p \notin strayed
        BY <3>1, Moved
      <3>4. x.state \in {"incoming", "outgoing", "connecting", "active"}
        BY <3>1 DEF PageStep, Screens
      <3>5. socket[p] = "open"
        BY <1>3, <3>1, <3>3 DEF ScreenInv, EndIsHeard
      <3>6. screen[p].state # "idle" /\ (screen[p].state = "incoming" => row[x.call].device = p)
        BY <3>1, <3>2, <3>3, <3>4, <3>5, Moved
      <3>7. EndingComes(p, x.call)
        BY <1>3, <3>1, <3>3, <3>6 DEF ScreenInv, EndIsHeard, Overdue
      <3>8. CASE \E e \in relays : Ends(e, x.call) /\ e.page # p
        BY <1>1, <2>2, <3>8 DEF EndingComes
      <3>9. CASE \E k \in 1 .. Len(inbox[p]) : Ends(inbox[p][k], x.call)
        <4>1. PICK k \in 1 .. Len(inbox[p]) : Ends(inbox[p][k], x.call)
          BY <3>9
        <4>2. CASE d = 0
          BY <1>1, <1>2, <2>2, <4>1, <4>2 DEF EndingComes
        <4>3. CASE d = 1
          <5>1. /\ Len(inbox[p]) \in Nat /\ Len(inbox'[p]) \in Nat
                /\ Len(inbox[p]) = Len(inbox'[p]) + 1 /\ k # 1
                /\ \A n \in 1 .. Len(inbox'[p]) : inbox'[p][n] = inbox[p][n + 1]
            BY <1>2, <3>1, <4>1, <4>3 DEF Rest
          <5>2. PICK n \in 1 .. Len(inbox'[p]) : n + 1 = k
            <6>1. k - 1 \in 1 .. Len(inbox'[p]) /\ (k - 1) + 1 = k
              BY <5>1
            <6> QED
              BY <6>1
          <5>3. Ends(inbox'[p][n], x.call)
            BY <4>1, <5>1, <5>2
          <5> QED
            BY <1>1, <2>2, <5>3 DEF EndingComes
        <4> QED
          BY <4>2, <4>3
      <3> QED
        BY <3>7, <3>8, <3>9 DEF EndingComes
    <2> QED
      BY <2>1, <2>2
  <1> QED
    BY <1>4, <1>5 DEF EndIsHeard

\* Whatever a page does keeps the invariant.
LEMMA PageKeeps ==
    ASSUME ScreenInv, NEW p \in Devices, NEW x, PageStep(p, x)
    PROVE  ScreenInv'
  BY PageTypes, PageEvents, PageInvited, PageOwned, PageStarted, PageWork, PageHeard, PageCalls,
     PageEnds DEF ScreenInv

-----------------------------------------------------------------------------
(* Calling: the steps of pages.                                              *)

LEMMA BlankScreen ==
    Screen!Blank \in Screens /\ Screen!Blank.call = None /\ Screen!Blank.state = "idle"
  BY ScreenNames DEF Screen!Blank, Screens

\* A page and its call.
LEMMA ThePageShows ==
    ASSUME ScreenInv, NEW p \in Devices
    PROVE  /\ screen[p] \in Screens /\ screen \in [Devices -> Screens]
           /\ screen[p].call # None => screen[p].call \in Calls
           /\ inbox \in [Devices -> Seq(Events)]
           /\ strayed \subseteq Devices /\ leaked \subseteq Devices \X (Calls \cup {None})
           /\ failures \in 0 .. scenario.faults /\ scenario.faults \in Nat
           /\ \A t \in tasks : t \in TaskRecords /\ TaskOK(t)
           /\ \A r \in requests : r \in Events /\ RequestOK(r)
  BY ScreenTyped DEF ScreenInv, Screens, WorkOK

LEMMA ScreenFault ==
    ASSUME ScreenInv, Screen!Fault
    PROVE  failures' \in 0 .. scenario.faults /\ failures < failures'
  BY ScreenTyped DEF ScreenInv, Screen!Fault

LEMMA TaskFields ==
    ASSUME NEW p \in Devices, NEW i \in Calls,
           NEW step \in {"media", "invite", "accept", "prepare", "offering", "offered", "answering"}
    PROVE  LET t == Screen!Task(p, i, step) IN
           t \in TaskRecords /\ t.page = p /\ t.call = i /\ t.step = step /\ t.reply = "none"
  BY DEF Screen!Task, TaskRecords

\* A handler goes on.
LEMMA NextHandler ==
    ASSUME ScreenInv, NEW p \in Devices, NEW x, x.call \in {None, screen[p].call},
           NEW t \in tasks, t.page = p,
           NEW u \in TaskRecords, u.page = p, u.call = t.call, u.step # "media", TaskOK(u)
    PROVE  NewTask(p, x, u)
  BY DEF NewTask, Mine, ScreenInv, StartedOK, Begun

\* A handler of the call that the page shows begins.
LEMMA FirstHandler ==
    ASSUME ScreenInv, NEW p \in Devices, NEW x, x.call \in {None, screen[p].call},
           NEW u \in TaskRecords, u.page = p, u.call = screen[p].call, u.step # "media", TaskOK(u)
    PROVE  NewTask(p, x, u)
  BY DEF NewTask, Mine

\* A request about the call that the page shows.
LEMMA CurrentRequests ==
    ASSUME ScreenInv, NEW p \in Devices, NEW x, UNCHANGED <<row, relays, inbox>>,
           NEW op \in Ops \ {"invite"}, op \in EndOps => x.call = None,
           op = "offer" => \A i \in Calls :
             (screen[p].call = i /\ row[i].caller \in {None, UserOf[p]}) => AcceptTold(i),
           NEW r \in Screen!Current(op, p)
    PROVE  NewRequest(p, x, r)
  <1>1. /\ r = Screen!Event(op, p, screen[p].call) /\ screen[p].call # None
        /\ screen[p].call \in Calls
    BY ThePageShows DEF Screen!Current
  <1>2. r \in Events /\ r.page = p /\ r.call = screen[p].call /\ r.op = op /\ r.call # None
    BY <1>1 DEF Screen!Event, Events
  <1>3. Mine(p, r.call)
    BY <1>2 DEF Mine
  <1>4. Invited(p, r.call)'
    <2>1. Invited(p, r.call)
      BY <1>1, <1>2 DEF ScreenInv, InvitedOK
    <2> QED
      BY <2>1 DEF Invited, InviteTold, NoInvite
  <1>5. (r.op = "offer" /\ row[r.call].caller \in {None, UserOf[p]}) => AcceptTold(r.call)
    BY <1>1, <1>2
  <1>6. r.op \in EndOps => x.call # r.call
    BY <1>2
  <1>7. r.op # "invite"
    BY <1>2
  <1> QED
    BY <1>2, <1>3, <1>4, <1>5, <1>6, <1>7 DEF NewRequest

\* A page that shows its call on, or none, and reads nothing.
LEMMA OneScreen ==
    ASSUME ScreenInv, NEW p \in Devices, NEW x \in Screens, screen' = [screen EXCEPT ![p] = x],
           UNCHANGED <<scenario, row, relays, socket, inbox>>,
           x.call \in {None, screen[p].call}, Moves(p, x),
           leaked' \subseteq Devices \X (Calls \cup {None}),
           failures' = failures \/ Screen!Fault,
           strayed' = strayed \/ strayed' = strayed \cup {p},
           \A t \in tasks' : t \in tasks \/ NewTask(p, x, t),
           \A r \in requests' : r \in requests \/ NewRequest(p, x, r)
    PROVE  PageStep(p, x)
  <1>1. failures' \in 0 .. scenario.faults /\ failures <= failures'
    BY ThePageShows, ScreenFault
  <1>2. strayed \subseteq strayed' /\ strayed' \subseteq Devices
    BY ThePageShows
  <1> QED
    BY <1>1, <1>2 DEF PageStep, NewCall, Reads

\* A page that shows no call any more and reads nothing.
LEMMA CleanPage ==
    ASSUME ScreenInv, NEW p \in Devices, Screen!Clean(p),
           UNCHANGED <<scenario, row, relays, socket, inbox>>,
           leaked' \subseteq Devices \X (Calls \cup {None}),
           failures' = failures \/ Screen!Fault,
           strayed' = strayed \/ strayed' = strayed \cup {p},
           tasks' \subseteq tasks,
           \/ requests' = requests
           \/ \E op \in Ops \ {"invite", "offer"} : requests' = requests \cup Screen!Current(op, p)
    PROVE  \E x : PageStep(p, x)
  <1>1. PICK x : x = Screen!Blank
    OBVIOUS
  <1>2. x \in Screens /\ screen' = [screen EXCEPT ![p] = x] /\ x.call = None
    BY <1>1, BlankScreen DEF Screen!Clean
  <1>3. Moves(p, x)
    BY <1>2 DEF Moves
  <1>4. \A r \in requests' : r \in requests \/ NewRequest(p, x, r)
    BY <1>2, CurrentRequests
  <1>5. PageStep(p, x)
    BY <1>2, <1>3, <1>4, OneScreen
  <1> QED
    BY <1>5

LEMMA StartPage ==
    ASSUME ScreenInv, NEW p \in Devices, NEW i \in Calls, Screen!Start(p, i)
    PROVE  \E x : PageStep(p, x)
  <1>1. PICK x : x = [screen[p] EXCEPT !.call = i]
    OBVIOUS
  <1>2. /\ tasks = {} /\ requests = {} /\ Screen!Fresh(i) /\ screen[p].state = "idle"
        /\ Screen!Connected(p) /\ tasks' = {Screen!Task(p, i, "media")}
        /\ screen' = [screen EXCEPT ![p].call = i] /\ requests' = {}
        /\ UNCHANGED <<scenario, row, relays, socket, inbox, leaked, failures, strayed>>
    BY DEF Screen!Start, Screen!Settled, Screen!server
  <1>3. /\ x \in Screens /\ x.call = i /\ x.state = "idle" /\ screen' = [screen EXCEPT ![p] = x]
    BY <1>1, <1>2, ThePageShows DEF Screens
  <1>4. screen[p].call # i /\ row[i].status = "none"
    BY <1>2 DEF Screen!Fresh
  <1>5. \A t \in tasks' : NewTask(p, x, t)
    <2>1. PICK t : t = Screen!Task(p, i, "media")
      OBVIOUS
    <2>2. t \in TaskRecords /\ t.page = p /\ t.call = i /\ t.step = "media" /\ t.reply = "none"
      BY <2>1, TaskFields
    <2>3. NewTask(p, x, t)
      BY <1>2, <1>3, <1>4, <2>2 DEF NewTask, Mine, TaskOK
    <2> QED
      BY <1>2, <2>1, <2>3
  <1>6. NewCall(p, x)
    BY <1>2, <1>3, <1>4 DEF NewCall, Invited
  <1>7. Moves(p, x) /\ Reads(p, x)
    BY <1>2, <1>3, <1>4 DEF Moves, Reads
  <1>8. failures' \in 0 .. scenario.faults /\ failures <= failures'
    BY <1>2, ThePageShows
  <1>9. strayed \subseteq strayed' /\ strayed' \subseteq Devices
        /\ leaked' \subseteq Devices \X (Calls \cup {None})
    BY <1>2, ThePageShows
  <1>10. PageStep(p, x)
    BY <1>2, <1>3, <1>5, <1>6, <1>7, <1>8, <1>9 DEF PageStep
  <1> QED
    BY <1>10

LEMMA AcceptPage ==
    ASSUME ScreenInv, NEW p \in Devices, Screen!Accept(p)
    PROVE  \E x : PageStep(p, x)
  <1>1. screen[p].call # None /\ screen[p].call \in Calls
    <2>1. Screen!Task(p, screen[p].call, "accept").call = screen[p].call
      BY DEF Screen!Task
    <2> QED
      BY <2>1, ThePageShows DEF Screen!Accept
  <1>2. UNCHANGED <<scenario, row, relays, socket, inbox, leaked, failures, strayed>>
    BY DEF Screen!Accept, Screen!server
  <1>3. CASE /\ requests' = requests \cup Screen!Current("accept", p)
             /\ tasks' = tasks \cup {Screen!Task(p, screen[p].call, "accept")}
             /\ UNCHANGED screen
    <2>1. PICK x : x = screen[p]
      OBVIOUS
    <2>2. x \in Screens /\ screen' = [screen EXCEPT ![p] = x] /\ Moves(p, x)
      BY <1>3, <2>1, ThePageShows DEF Moves, Screens
    <2>3. PICK t : t = Screen!Task(p, screen[p].call, "accept")
      OBVIOUS
    <2>4. /\ t \in TaskRecords /\ t.page = p /\ t.call = screen[p].call
          /\ t.step = "accept" /\ t.reply = "none"
      BY <1>1, <2>3, TaskFields
    <2>5. NewTask(p, x, t)
      BY <2>1, <2>4, FirstHandler DEF TaskOK
    <2>6. \A r \in requests' : r \in requests \/ NewRequest(p, x, r)
      BY <1>2, <1>3, CurrentRequests DEF Ops, EndOps
    <2>7. PageStep(p, x)
      BY <1>2, <1>3, <2>1, <2>2, <2>3, <2>5, <2>6, OneScreen, ThePageShows
    <2> QED
      BY <2>7
  <1>4. CASE Screen!Clean(p) /\ UNCHANGED <<requests, tasks>>
    BY <1>2, <1>4, CleanPage, ThePageShows
  <1> QED
    BY <1>3, <1>4 DEF Screen!Accept, Screen!Post

LEMMA RejectPage ==
    ASSUME ScreenInv, NEW p \in Devices, Screen!Reject(p)
    PROVE  \E x : PageStep(p, x)
  BY CleanPage, ThePageShows DEF Screen!Reject, Screen!Post, Screen!server, Ops

LEMMA HangUpPage ==
    ASSUME ScreenInv, NEW p \in Devices, Screen!HangUp(p)
    PROVE  \E x : PageStep(p, x)
  BY CleanPage, ThePageShows DEF Screen!HangUp, Screen!Post, Screen!server, Ops

LEMMA ReconcilePage ==
    ASSUME ScreenInv, NEW p \in Devices, Screen!Reconcile(p)
    PROVE  \E x : PageStep(p, x)
  <1>1. UNCHANGED <<scenario, row, relays, socket, inbox, tasks, requests, leaked, failures, strayed>>
    BY DEF Screen!Reconcile, Screen!server
  <1>2. CASE Screen!Clean(p)
    BY <1>1, <1>2, CleanPage, ThePageShows
  <1>3. CASE \E b \in BOOLEAN : screen' = [screen EXCEPT ![p].over = b]
    <2>1. PICK b \in BOOLEAN : screen' = [screen EXCEPT ![p].over = b]
      BY <1>3
    <2>2. PICK x : x = [screen[p] EXCEPT !.over = b]
      OBVIOUS
    <2>3. /\ x \in Screens /\ screen' = [screen EXCEPT ![p] = x]
          /\ x.call = screen[p].call /\ x.state = screen[p].state
      BY <2>1, <2>2, ThePageShows DEF Screens
    <2>4. Moves(p, x)
      BY <2>3 DEF Moves
    <2>5. PageStep(p, x)
      BY <1>1, <2>3, <2>4, OneScreen, ThePageShows
    <2> QED
      BY <2>5
  <1>4. (row[screen[p].call].status \in Screen!Terminal) \in BOOLEAN
    OBVIOUS
  <1> QED
    BY <1>2, <1>3, <1>4 DEF Screen!Reconcile

LEMMA FirePage ==
    ASSUME ScreenInv, NEW p \in Devices, Screen!Fire(p)
    PROVE  \E x : PageStep(p, x)
  <1>1. /\ UNCHANGED <<scenario, row, relays, socket, inbox, tasks, leaked, failures, strayed>>
        /\ requests' = requests \/ requests' = requests \cup Screen!Current("cancel", p)
    BY DEF Screen!Fire, Screen!server, Screen!Post
  <1>2. CASE Screen!Clean(p)
    BY <1>1, <1>2, CleanPage, ThePageShows DEF Ops
  <1>3. CASE /\ screen[p].state \notin {"incoming", "outgoing", "connecting"}
             /\ screen' = [screen EXCEPT ![p].timer = FALSE]
    <2>1. requests' = requests
      BY <1>3 DEF Screen!Fire, Screen!Post
    <2>2. PICK x : x = [screen[p] EXCEPT !.timer = FALSE]
      OBVIOUS
    <2>3. /\ x \in Screens /\ screen' = [screen EXCEPT ![p] = x]
          /\ x.call = screen[p].call /\ x.state = screen[p].state
      BY <1>3, <2>2, ThePageShows DEF Screens
    <2>4. Moves(p, x)
      BY <2>3 DEF Moves
    <2>5. PageStep(p, x)
      BY <1>1, <2>1, <2>3, <2>4, OneScreen, ThePageShows
    <2> QED
      BY <2>5
  <1> QED
    BY <1>2, <1>3 DEF Screen!Fire

LEMMA PeerFailsPage ==
    ASSUME ScreenInv, NEW p \in Devices, Screen!PeerFails(p)
    PROVE  \E x : PageStep(p, x)
  BY CleanPage, ThePageShows DEF Screen!PeerFails, Screen!server

LEMMA Straying ==
    ASSUME ScreenInv, NEW t \in tasks, NEW harmless, Screen!Stray(t, harmless)
    PROVE  /\ strayed' = strayed \/ strayed' = strayed \cup {t.page}
           /\ t.page \notin strayed' => screen[t.page].call \in {t.call} \cup harmless
  BY DEF Screen!Stray

\* A handler in hand.
LEMMA TheTask ==
    ASSUME ScreenInv, NEW t \in tasks
    PROVE  /\ t \in TaskRecords /\ TaskOK(t) /\ t.page \in Devices /\ t.call \in Calls
           /\ screen[t.page] \in Screens
  BY ThePageShows DEF TaskRecords, ScreenInv, ScreenTypes

\* The next step of a handler.
LEMMA NextStep ==
    ASSUME ScreenInv, NEW t \in tasks, NEW x, x.call \in {None, screen[t.page].call},
           NEW step \in {"invite", "prepare", "answering"}
    PROVE  NewTask(t.page, x, Screen!Task(t.page, t.call, step))
  <1>1. PICK u : u = Screen!Task(t.page, t.call, step)
    OBVIOUS
  <1>2. t.page \in Devices /\ t.call \in Calls
    BY TheTask
  <1>3. u \in TaskRecords /\ u.page = t.page /\ u.call = t.call /\ u.step = step
    BY <1>1, <1>2, TaskFields
  <1>4. TaskOK(u)
    BY <1>3 DEF TaskOK
  <1> QED
    BY <1>1, <1>2, <1>3, <1>4, NextHandler

\* The other side is told that microphone or connection cannot be had.
LEMMA AbandonPage ==
    ASSUME ScreenInv, NEW t \in tasks, Screen!Abandon(t),
           UNCHANGED <<scenario, row, relays, socket, inbox, leaked>>,
           strayed' = strayed \/ strayed' = strayed \cup {t.page}
    PROVE  \E p \in Devices : \E x : PageStep(p, x)
  <1>1. t.page \in Devices
    BY TheTask
  <1>2. /\ Screen!Clean(t.page) /\ Screen!Fault /\ tasks' \subseteq tasks
        /\ requests' = requests \cup Screen!Current("end", t.page)
    BY DEF Screen!Abandon, Screen!Leave, Screen!Post
  <1>3. leaked' \subseteq Devices \X (Calls \cup {None})
    BY ThePageShows, <1>1
  <1> QED
    BY <1>1, <1>2, <1>3, CleanPage DEF Ops

LEMMA GotMediaPage ==
    ASSUME ScreenInv, NEW t \in tasks, Screen!GotMedia(t)
    PROVE  \E p \in Devices : \E x : PageStep(p, x)
  <1> DEFINE p == t.page
  <1>1. t \in TaskRecords /\ p \in Devices /\ t.call \in Calls /\ TaskOK(t) /\ t.step = "media"
    BY TheTask DEF Screen!GotMedia
  <1>2. t.reply = "none" /\ row[t.call].status = "none"
    BY <1>1 DEF TaskOK
  <1>3. /\ UNCHANGED <<scenario, row, relays, socket, inbox, leaked>>
        /\ strayed' = strayed \/ strayed' = strayed \cup {p}
        /\ p \notin strayed' => screen[p].call = t.call
    BY Straying DEF Screen!GotMedia, Screen!server
  <1>4. ASSUME screen' = [screen EXCEPT ![p].state = "outgoing"],
               requests' = requests \cup {Screen!Event("invite", p, t.call)},
               tasks' = (tasks \ {t}) \cup {Screen!Task(t.page, t.call, "invite")},
               UNCHANGED failures
        PROVE  \E x : PageStep(p, x)
    <2>1. PICK x : x = [screen[p] EXCEPT !.state = "outgoing"]
      OBVIOUS
    <2>2. /\ x \in Screens /\ screen' = [screen EXCEPT ![p] = x]
          /\ x.call = screen[p].call /\ x.state = "outgoing"
      BY <1>1, <1>4, <2>1, ThePageShows DEF Screens
    <2>3. Moves(p, x)
      BY <1>2, <1>3, <2>2 DEF Moves
    <2>4. \A u \in tasks' : u \in tasks \/ NewTask(p, x, u)
      BY <1>4, <2>2, NextStep
    <2>5. PICK r : r = Screen!Event("invite", p, t.call)
      OBVIOUS
    <2>6. r \in Events /\ r.page = p /\ r.call = t.call /\ r.op = "invite"
      BY <1>1, <2>5 DEF Screen!Event, Events, Ops
    <2>7. ASSUME NEW u \in tasks', u.step = "media", u.call = t.call PROVE FALSE
      <3>1. Screen!Task(t.page, t.call, "invite").step = "invite"
        BY DEF Screen!Task
      <3>2. u \in tasks /\ u # t
        BY <1>4, <2>7, <3>1
      <3>3. u \in TaskRecords /\ u.reply = "none"
        BY <2>7, <3>2, TheTask DEF TaskOK
      <3>4. u.page = t.page
        BY <1>1, <1>2, <2>7, <3>2 DEF ScreenInv, Owned, OwnedBy
      <3> QED
        BY <1>1, <1>2, <2>7, <3>2, <3>3, <3>4 DEF TaskRecords
    <2>8. NewRequest(p, x, r)
      <3>1. Mine(p, r.call) /\ Invited(p, r.call)'
        BY <1>2, <1>3, <2>6 DEF Mine, Invited
      <3>2. r.op \notin EndOps /\ r.op # "offer"
        BY <2>6 DEF EndOps
      <3>3. \A u \in tasks' : ~(u.step = "media" /\ u.call = r.call)
        BY <2>6, <2>7
      <3> QED
        BY <2>6, <3>1, <3>2, <3>3 DEF NewRequest
    <2>9. leaked' \subseteq Devices \X (Calls \cup {None})
      BY <1>1, <1>3, ThePageShows
    <2>10. \A q \in requests' : q \in requests \/ NewRequest(p, x, q)
      BY <1>4, <2>5, <2>8
    <2>11. PageStep(p, x)
      BY <1>1, <1>3, <1>4, <2>2, <2>3, <2>4, <2>9, <2>10, OneScreen
    <2> QED
      BY <2>11
  <1>5. CASE Screen!Clean(p) /\ tasks' = tasks \ {t} /\ UNCHANGED requests
             /\ (Screen!Fault \/ UNCHANGED failures)
    <2>1. leaked' \subseteq Devices \X (Calls \cup {None})
      BY <1>1, <1>3, ThePageShows
    <2> QED
      BY <1>1, <1>3, <1>5, <2>1, CleanPage
  <1> QED
    BY <1>1, <1>4, <1>5 DEF Screen!GotMedia, Screen!Post, Screen!GoOn, Screen!Leave

LEMMA InvitedPage ==
    ASSUME ScreenInv, NEW t \in tasks, Screen!Invited(t)
    PROVE  \E p \in Devices : \E x : PageStep(p, x)
  <1> DEFINE p == t.page
  <1>1. p \in Devices
    BY TheTask
  <1>2. /\ UNCHANGED <<scenario, row, relays, socket, inbox, requests, leaked, failures>>
        /\ strayed' = strayed \/ strayed' = strayed \cup {p}
        /\ tasks' \subseteq tasks
    BY Straying DEF Screen!Invited, Screen!server, Screen!Leave
  <1>3. leaked' \subseteq Devices \X (Calls \cup {None})
    BY <1>1, <1>2, ThePageShows
  <1>4. ASSUME screen' = [screen EXCEPT ![p].timer = TRUE] PROVE \E x : PageStep(p, x)
    <2>1. PICK x : x = [screen[p] EXCEPT !.timer = TRUE]
      OBVIOUS
    <2>2. /\ x \in Screens /\ screen' = [screen EXCEPT ![p] = x]
          /\ x.call = screen[p].call /\ x.state = screen[p].state
      BY <1>1, <1>4, <2>1, ThePageShows DEF Screens
    <2>3. Moves(p, x)
      BY <2>2 DEF Moves
    <2>4. PageStep(p, x)
      BY <1>1, <1>2, <1>3, <2>2, <2>3, OneScreen
    <2> QED
      BY <2>4
  <1>5. CASE Screen!Clean(p)
    BY <1>1, <1>2, <1>3, <1>5, CleanPage
  <1> QED
    BY <1>1, <1>4, <1>5 DEF Screen!Invited

LEMMA AcceptedPage ==
    ASSUME ScreenInv, NEW t \in tasks, Screen!Accepted(t)
    PROVE  \E p \in Devices : \E x : PageStep(p, x)
  <1> DEFINE p == t.page
  <1>1. p \in Devices /\ t.call \in Calls /\ TaskOK(t) /\ t.step = "accept"
    BY TheTask DEF Screen!Accepted
  <1>2. /\ UNCHANGED <<scenario, row, relays, socket, inbox, requests, leaked, failures>>
        /\ strayed' = strayed \/ strayed' = strayed \cup {p}
        /\ p \notin strayed' => screen[p].call \in {t.call, None}
    BY Straying DEF Screen!Accepted, Screen!server
  <1>3. leaked' \subseteq Devices \X (Calls \cup {None})
    BY <1>1, <1>2, ThePageShows
  <1>4. ASSUME t.reply = "ok", Screen!CanBecome(p, "connecting"),
               screen' = [screen EXCEPT ![p].state = "connecting"],
               tasks' = (tasks \ {t}) \cup {Screen!Task(t.page, t.call, "prepare")}
        PROVE  \E x : PageStep(p, x)
    <2>1. PICK x : x = [screen[p] EXCEPT !.state = "connecting"]
      OBVIOUS
    <2>2. /\ x \in Screens /\ screen' = [screen EXCEPT ![p] = x]
          /\ x.call = screen[p].call /\ x.state = "connecting"
      BY <1>1, <1>4, <2>1, ThePageShows DEF Screens
    <2>3. row[t.call].device = p /\ row[t.call].status # "none"
      <3>1. row[t.call].device = p
        BY <1>1, <1>4 DEF TaskOK
      <3> QED
        BY <1>1, <3>1, ScreenNames DEF ScreenInv, RowsOK, RowOK
    <2>4. screen[p].state \in {"incoming", "outgoing", "connecting"}
      BY <1>4 DEF Screen!CanBecome
    <2>5. Moves(p, x)
      BY <1>2, <2>2, <2>3, <2>4 DEF Moves
    <2>6. \A u \in tasks' : u \in tasks \/ NewTask(p, x, u)
      BY <1>4, <2>2, NextStep
    <2>7. PageStep(p, x)
      BY <1>1, <1>2, <1>3, <2>2, <2>5, <2>6, OneScreen
    <2> QED
      BY <2>7
  <1>5. ASSUME tasks' = tasks \ {t}, UNCHANGED screen PROVE \E x : PageStep(p, x)
    <2>1. PICK x : x = screen[p]
      OBVIOUS
    <2>2. x \in Screens /\ screen' = [screen EXCEPT ![p] = x] /\ Moves(p, x)
      BY <1>1, <1>5, <2>1, ThePageShows DEF Moves, Screens
    <2>3. PageStep(p, x)
      BY <1>1, <1>2, <1>3, <1>5, <2>1, <2>2, OneScreen
    <2> QED
      BY <2>3
  <1>6. CASE Screen!Clean(p) /\ tasks' = tasks \ {t}
    BY <1>1, <1>2, <1>3, <1>6, CleanPage
  <1> QED
    BY <1>1, <1>4, <1>5, <1>6 DEF Screen!Accepted, Screen!GoOn, Screen!Leave

LEMMA PreparedPage ==
    ASSUME ScreenInv, NEW t \in tasks, Screen!Prepared(t)
    PROVE  \E p \in Devices : \E x : PageStep(p, x)
  <1> DEFINE p == t.page
  <1>1. p \in Devices
    BY TheTask
  <1>2. /\ UNCHANGED <<scenario, row, relays, socket, inbox>>
        /\ strayed' = strayed \/ strayed' = strayed \cup {p}
    BY Straying DEF Screen!Prepared, Screen!server
  <1>3. ASSUME screen' = [screen EXCEPT ![p].pc = Screen!Connection(@), ![p].timer = TRUE],
               leaked' \subseteq leaked \cup {<<p, screen[p].call>>},
               tasks' = tasks \ {t}, UNCHANGED <<requests, failures>>
        PROVE  \E x : PageStep(p, x)
    <2>1. PICK x : x = [screen[p] EXCEPT !.pc = Screen!Connection(@), !.timer = TRUE]
      OBVIOUS
    <2>2. Screen!Connection(screen[p].pc) \in {"none", "local", "remote"}
      BY <1>1, ThePageShows DEF Screen!Connection, Screens
    <2>3. /\ x \in Screens /\ screen' = [screen EXCEPT ![p] = x]
          /\ x.call = screen[p].call /\ x.state = screen[p].state
      BY <1>1, <1>3, <2>1, <2>2, ThePageShows DEF Screens
    <2>4. Moves(p, x)
      BY <2>3 DEF Moves
    <2>5. leaked' \subseteq Devices \X (Calls \cup {None})
      BY <1>1, <1>3, ThePageShows DEF Screens
    <2>6. PageStep(p, x)
      BY <1>1, <1>2, <1>3, <2>3, <2>4, <2>5, OneScreen
    <2> QED
      BY <2>6
  <1>4. CASE Screen!Abandon(t) /\ UNCHANGED leaked
    BY <1>2, <1>4, AbandonPage
  <1> QED
    BY <1>1, <1>3, <1>4 DEF Screen!Prepared, Screen!Leave

LEMMA OfferedPage ==
    ASSUME ScreenInv, NEW t \in tasks, Screen!Offered(t)
    PROVE  \E p \in Devices : \E x : PageStep(p, x)
  <1> DEFINE p == t.page
  <1>1. p \in Devices /\ t.call \in Calls /\ TaskOK(t) /\ t.step = "offering"
    BY TheTask DEF Screen!Offered
  <1>2. /\ UNCHANGED <<scenario, row, relays, socket, inbox, leaked>>
        /\ strayed' = strayed \/ strayed' = strayed \cup {p}
        /\ leaked' \subseteq Devices \X (Calls \cup {None})
    BY <1>1, Straying, ThePageShows DEF Screen!Offered, Screen!server
  <1>3. ASSUME screen' = [screen EXCEPT ![p].pc = Screen!Connection(@), ![p].timer = TRUE],
               requests' = requests \cup Screen!OverSocket("offer", p),
               tasks' = tasks \ {t}, UNCHANGED failures
        PROVE  \E x : PageStep(p, x)
    <2>1. PICK x : x = [screen[p] EXCEPT !.pc = Screen!Connection(@), !.timer = TRUE]
      OBVIOUS
    <2>2. Screen!Connection(screen[p].pc) \in {"none", "local", "remote"}
      BY <1>1, ThePageShows DEF Screen!Connection, Screens
    <2>3. /\ x \in Screens /\ screen' = [screen EXCEPT ![p] = x]
          /\ x.call = screen[p].call /\ x.state = screen[p].state
      BY <1>1, <1>3, <2>1, <2>2, ThePageShows DEF Screens
    <2>4. Moves(p, x)
      BY <2>3 DEF Moves
    <2>5. \A i \in Calls :
            (screen[p].call = i /\ row[i].caller \in {None, UserOf[p]}) => AcceptTold(i)
      <3>1. AcceptTold(t.call)
        BY <1>1 DEF TaskOK
      <3> QED
        BY <1>1, <3>1, ScreenNames DEF ScreenInv, StartedOK, Begun
    <2>6. \A r \in requests' : r \in requests \/ NewRequest(p, x, r)
      <3>1. Screen!OverSocket("offer", p) \subseteq Screen!Current("offer", p)
        BY DEF Screen!OverSocket
      <3>2. "offer" \in Ops \ {"invite"} /\ "offer" \notin EndOps
        BY DEF Ops, EndOps
      <3> QED
        BY <1>1, <1>2, <1>3, <2>5, <3>1, <3>2, CurrentRequests
    <2>7. PageStep(p, x)
      BY <1>1, <1>2, <1>3, <2>3, <2>4, <2>6, OneScreen
    <2> QED
      BY <2>7
  <1>4. CASE Screen!Abandon(t)
    BY <1>2, <1>4, AbandonPage
  <1> QED
    BY <1>1, <1>3, <1>4 DEF Screen!Offered, Screen!Leave, Screen!Post

\* activateCall: the page becomes active if it was connecting.
LEMMA Activating ==
    ASSUME ScreenInv, NEW p \in Devices
    PROVE  LET x == [Screen!Activated(p) EXCEPT !.pc = "remote"] IN
           /\ x \in Screens /\ x.call = screen[p].call
           /\ \/ x.state = screen[p].state
              \/ x.state = "active" /\ screen[p].state = "connecting"
  BY ThePageShows DEF Screen!Activated, Screen!CanBecome, Screens

LEMMA TookOfferPage ==
    ASSUME ScreenInv, NEW t \in tasks, Screen!TookOffer(t)
    PROVE  \E p \in Devices : \E x : PageStep(p, x)
  <1> DEFINE p == t.page
  <1>1. p \in Devices /\ t.call \in Calls /\ TaskOK(t) /\ t.step = "offered"
    BY TheTask DEF Screen!TookOffer
  <1>2. /\ UNCHANGED <<scenario, row, relays, socket, inbox, leaked>>
        /\ strayed' = strayed \/ strayed' = strayed \cup {p}
        /\ p \notin strayed' => screen[p].call = t.call
        /\ leaked' \subseteq Devices \X (Calls \cup {None})
    BY <1>1, Straying, ThePageShows DEF Screen!TookOffer, Screen!server
  <1>3. ASSUME screen' = [screen EXCEPT ![p] = [Screen!Activated(p) EXCEPT !.pc = "remote"]],
               NEW s, \A u \in s : u \in tasks /\ u.page = p /\ u.step = "prepare",
               tasks' = ((tasks \ {t}) \ s) \cup {[u EXCEPT !.reply = "blind"] : u \in s}
                          \cup {Screen!Task(p, t.call, "answering")},
               UNCHANGED <<requests, failures>>
        PROVE  \E x : PageStep(p, x)
    <2>1. PICK x : x = [Screen!Activated(p) EXCEPT !.pc = "remote"]
      OBVIOUS
    <2>2. /\ x \in Screens /\ screen' = [screen EXCEPT ![p] = x] /\ x.call = screen[p].call
          /\ \/ x.state = screen[p].state
             \/ x.state = "active" /\ screen[p].state = "connecting"
      BY <1>1, <1>3, <2>1, Activating
    <2>3. row[t.call].caller # UserOf[p]
      BY <1>1 DEF TaskOK
    <2>4. Moves(p, x)
      BY <1>2, <2>2, <2>3 DEF Moves
    <2>5. ASSUME NEW u \in s PROVE NewTask(p, x, [u EXCEPT !.reply = "blind"])
      <3>1. u \in tasks /\ u \in TaskRecords /\ u.page = p /\ u.step = "prepare"
        BY <1>3, <2>5, TheTask
      <3>2. PICK v : v = [u EXCEPT !.reply = "blind"]
        OBVIOUS
      <3>3. v \in TaskRecords /\ v.page = p /\ v.call = u.call /\ v.step = "prepare"
        BY <3>1, <3>2 DEF TaskRecords
      <3>4. TaskOK(v)
        BY <3>3 DEF TaskOK
      <3>5. NewTask(p, x, v)
        BY <1>1, <2>2, <3>1, <3>3, <3>4, NextHandler
      <3> QED
        BY <3>2, <3>5
    <2>6. NewTask(p, x, Screen!Task(p, t.call, "answering"))
      BY <2>2, NextStep
    <2>7. \A u \in tasks' : u \in tasks \/ NewTask(p, x, u)
      BY <1>3, <2>5, <2>6
    <2>8. PageStep(p, x)
      BY <1>1, <1>2, <1>3, <2>2, <2>4, <2>7, OneScreen
    <2> QED
      BY <2>8
  <1>4. CASE Screen!Abandon(t)
    BY <1>2, <1>4, AbandonPage
  <1>5. ASSUME ~Screen!Abandon(t) PROVE \E x : PageStep(p, x)
    <2> DEFINE looking == {u \in tasks : u.page = p /\ u.step = "prepare" /\ screen[p].pc = "none"}
    <2>1. PICK s \in {{}, looking} :
            tasks' = ((tasks \ {t}) \ s) \cup {[u EXCEPT !.reply = "blind"] : u \in s}
                       \cup {Screen!Task(p, t.call, "answering")}
      BY <1>5 DEF Screen!TookOffer
    <2>2. /\ screen' = [screen EXCEPT ![p] = [Screen!Activated(p) EXCEPT !.pc = "remote"]]
          /\ UNCHANGED <<requests, failures>>
      BY <1>5 DEF Screen!TookOffer
    <2>3. \A u \in s : u \in tasks /\ u.page = p /\ u.step = "prepare"
      BY <2>1
    <2> HIDE DEF looking
    <2> QED
      BY <1>3, <2>1, <2>2, <2>3
  <1> QED
    BY <1>1, <1>4, <1>5

LEMMA AnsweredPage ==
    ASSUME ScreenInv, NEW t \in tasks, Screen!Answered(t)
    PROVE  \E p \in Devices : \E x : PageStep(p, x)
  <1> DEFINE p == t.page
  <1>1. p \in Devices
    BY TheTask
  <1>2. /\ UNCHANGED <<scenario, row, relays, socket, inbox, leaked>>
        /\ strayed' = strayed \/ strayed' = strayed \cup {p}
        /\ leaked' \subseteq Devices \X (Calls \cup {None})
    BY <1>1, Straying, ThePageShows DEF Screen!Answered, Screen!server
  <1>3. ASSUME requests' = requests \cup Screen!OverSocket("answer", p),
               tasks' = tasks \ {t}, UNCHANGED <<screen, failures>>
        PROVE  \E x : PageStep(p, x)
    <2>1. PICK x : x = screen[p]
      OBVIOUS
    <2>2. x \in Screens /\ screen' = [screen EXCEPT ![p] = x] /\ Moves(p, x)
      BY <1>1, <1>3, <2>1, ThePageShows DEF Moves, Screens
    <2>3. \A r \in requests' : r \in requests \/ NewRequest(p, x, r)
      <3>1. Screen!OverSocket("answer", p) \subseteq Screen!Current("answer", p)
        BY DEF Screen!OverSocket
      <3>2. "answer" \in Ops \ {"invite"} /\ "answer" \notin EndOps
        BY DEF Ops, EndOps
      <3> QED
        BY <1>1, <1>2, <1>3, <3>1, <3>2, CurrentRequests
    <2>4. PageStep(p, x)
      BY <1>1, <1>2, <1>3, <2>1, <2>2, <2>3, OneScreen
    <2> QED
      BY <2>4
  <1>4. CASE Screen!Abandon(t)
    BY <1>2, <1>4, AbandonPage
  <1> QED
    BY <1>1, <1>3, <1>4 DEF Screen!Answered, Screen!Leave, Screen!Post

\* The event that a page reads.
LEMMA TheEvent ==
    ASSUME ScreenInv, NEW p \in Devices, inbox[p] # <<>>
    PROVE  LET h == Head(inbox[p]) IN
           /\ h \in Events /\ ArrivalOK(p, h) /\ h.call \in Calls /\ h.page \in Devices
           /\ h = inbox[p][1] /\ 1 \in 1 .. Len(inbox[p])
  <1>1. inbox[p] \in Seq(Events)
    BY ThePageShows
  <1>2. /\ Head(inbox[p]) \in Events /\ Head(inbox[p]) = inbox[p][1]
        /\ 1 \in 1 .. Len(inbox[p])
    BY <1>1, TailOfEvents
  <1> QED
    BY <1>2 DEF ScreenInv, EventsOK, Events

\* Somebody is invited once: a page that reads an invitation has not had one before.
LEMMA InviteRead ==
    ASSUME ScreenInv, NEW p \in Devices, NEW i \in Calls,
           inbox[p] # <<>>, IsInvite(Head(inbox[p]), i),
           inbox' = [inbox EXCEPT ![p] = Tail(@)], UNCHANGED <<row, relays>>
    PROVE  /\ Invited(p, i)' /\ ~Invited(p, i)
           /\ row[i].status # "none" /\ row[i].caller \notin {None, UserOf[p]} /\ row[i].device # p
           /\ screen[p].call # i /\ \A r \in requests : r.page = p => r.call # i
  <1> DEFINE q == inbox[p]
  <1>1. /\ q \in Seq(Events) /\ inbox'[p] = Tail(q)
        /\ Len(q) \in Nat /\ Len(Tail(q)) \in Nat
        /\ \A k \in 1 .. Len(Tail(q)) : k + 1 \in 1 .. Len(q) /\ Tail(q)[k] = q[k + 1]
    <2>1. inbox \in [Devices -> Seq(Events)]
      BY ThePageShows
    <2> QED
      BY <2>1, TailOfEvents
  <1>2. ArrivalOK(p, Head(q)) /\ Head(q) = q[1] /\ 1 \in 1 .. Len(q)
    BY TheEvent
  <1>3. IsInvite(q[1], i)
    BY <1>2
  <1>4. row[i].status # "none" /\ row[i].caller \notin {None, UserOf[p]} /\ InviteTold(i)
    <2>1. row[i].status # "none" /\ row[i].caller # UserOf[p] /\ InviteTold(i)
      BY <1>2 DEF ArrivalOK, EventOK, IsInvite
    <2> QED
      BY <2>1 DEF ScreenInv, RowsOK, RowOK
  <1>5. ~NoInvite(p, i) /\ ~Invited(p, i)
    BY <1>2, <1>3, <1>4 DEF NoInvite, Invited
  <1>6. \A k \in 1 .. Len(Tail(q)) : ~IsInvite(Tail(q)[k], i)
    <2> SUFFICES ASSUME NEW k \in 1 .. Len(Tail(q)), IsInvite(Tail(q)[k], i) PROVE FALSE
      OBVIOUS
    <2>1. k + 1 \in 1 .. Len(q) /\ IsInvite(q[k + 1], i)
      BY <1>1
    <2>2. 1 = k + 1
      BY <1>2, <1>3, <2>1 DEF ScreenInv, InvitedOnce, IsInvite
    <2> QED
      BY <1>1, <2>2
  <1>7. Invited(p, i)'
    BY <1>1, <1>4, <1>6 DEF Invited, InviteTold, NoInvite
  <1>8. row[i].device # p
    BY <1>5 DEF ScreenInv, InvitedOK
  <1>9. screen[p].call # i /\ \A r \in requests : r.page = p => r.call # i
    BY <1>5, ScreenNames DEF ScreenInv, InvitedOK
  <1> QED
    BY <1>4, <1>5, <1>7, <1>8, <1>9

\* A page that goes on with its call when it has read an event.
LEMMA ReadPage ==
    ASSUME ScreenInv, NEW p \in Devices, NEW ops, Screen!Arrives(p, ops),
           NEW x \in Screens, screen' = [screen EXCEPT ![p] = x],
           x.call \in {None, screen[p].call}, Moves(p, x), Reads(p, x),
           failures' = failures \/ Screen!Fault, UNCHANGED requests,
           \A t \in tasks' : t \in tasks \/ NewTask(p, x, t)
    PROVE  PageStep(p, x)
  <1>1. failures' \in 0 .. scenario.faults /\ failures <= failures'
    BY ThePageShows, ScreenFault
  <1>2. /\ UNCHANGED <<scenario, row, relays, socket, leaked, strayed>>
        /\ strayed \subseteq strayed' /\ strayed' \subseteq Devices
        /\ leaked' \subseteq Devices \X (Calls \cup {None})
    BY ThePageShows DEF Screen!Arrives, Screen!server
  <1> QED
    BY <1>1, <1>2 DEF PageStep, NewCall

LEMMA ReadClean ==
    ASSUME ScreenInv, NEW p \in Devices, NEW ops, Screen!Arrives(p, ops), Screen!Clean(p),
           failures' = failures \/ Screen!Fault, UNCHANGED <<requests, tasks>>
    PROVE  \E x : PageStep(p, x)
  <1>1. PICK x : x = Screen!Blank
    OBVIOUS
  <1>2. x \in Screens /\ screen' = [screen EXCEPT ![p] = x] /\ x.call = None
    BY <1>1, BlankScreen DEF Screen!Clean
  <1>3. Moves(p, x) /\ Reads(p, x)
    BY <1>2 DEF Moves, Reads, Screen!Arrives
  <1>4. PageStep(p, x)
    BY <1>2, <1>3, ReadPage
  <1> QED
    BY <1>4

LEMMA ReadOnly ==
    ASSUME ScreenInv, NEW p \in Devices, NEW ops, Screen!Arrives(p, ops),
           UNCHANGED <<screen, failures, requests, tasks>>,
           screen[p].call # None => ~Ends(Head(inbox[p]), screen[p].call),
           ~(/\ screen[p].state = "incoming" /\ screen[p].call # None
             /\ IsAccept(Head(inbox[p]), screen[p].call)
             /\ row[screen[p].call].caller # UserOf[p])
    PROVE  \E x : PageStep(p, x)
  <1>1. PICK x : x = screen[p]
    OBVIOUS
  <1>2. x \in Screens /\ screen' = [screen EXCEPT ![p] = x] /\ Moves(p, x)
    BY <1>1, ThePageShows DEF Moves, Screens
  <1>3. Reads(p, x)
    BY <1>1 DEF Reads, Screen!Arrives
  <1>4. PageStep(p, x)
    BY <1>1, <1>2, <1>3, ReadPage
  <1> QED
    BY <1>4

LEMMA SeeInvitePage ==
    ASSUME ScreenInv, NEW p \in Devices, Screen!SeeInvite(p)
    PROVE  \E x : PageStep(p, x)
  <1>1. /\ inbox[p] # <<>> /\ Head(inbox[p]).op = "invite"
        /\ inbox' = [inbox EXCEPT ![p] = Tail(@)]
        /\ UNCHANGED <<scenario, row, relays, socket, leaked, strayed, tasks, failures>>
    BY DEF Screen!SeeInvite, Screen!Arrives, Screen!server
  <1>2. PICK i \in Calls : i = Head(inbox[p]).call
    BY <1>1, TheEvent
  <1>3. /\ Invited(p, i)' /\ row[i].status # "none" /\ row[i].caller \notin {None, UserOf[p]}
        /\ row[i].device # p /\ screen[p].call # i
        /\ \A r \in requests : r.page = p => r.call # i
        /\ IsInvite(Head(inbox[p]), i)
    <2>1. IsInvite(Head(inbox[p]), i)
      BY <1>1, <1>2 DEF IsInvite
    <2> QED
      BY <1>1, <2>1, InviteRead
  <1>4. i # None
    BY ScreenNames
  <1>5. /\ failures' \in 0 .. scenario.faults /\ failures <= failures'
        /\ strayed \subseteq strayed' /\ strayed' \subseteq Devices
        /\ leaked' \subseteq Devices \X (Calls \cup {None})
    BY <1>1, ThePageShows
  <1>6. Head(inbox[p]).op \notin EndOps /\ Head(inbox[p]).op # "accept"
    BY <1>1 DEF EndOps
  <1>7. ASSUME UNCHANGED requests,
               screen' = [screen EXCEPT ![p].call = i, ![p].state = "incoming", ![p].timer = TRUE]
        PROVE  \E x : PageStep(p, x)
    <2>1. PICK x : x = [screen[p] EXCEPT !.call = i, !.state = "incoming", !.timer = TRUE]
      OBVIOUS
    <2>2. /\ x \in Screens /\ screen' = [screen EXCEPT ![p] = x]
          /\ x.call = i /\ x.state = "incoming"
      BY <1>7, <2>1, ThePageShows DEF Screens
    <2>3. NewCall(p, x)
      BY <1>1, <1>3, <2>2 DEF NewCall
    <2>4. Moves(p, x) /\ Reads(p, x)
      BY <1>1, <1>3, <1>6, <2>2 DEF Moves, Reads, Ends, IsAccept
    <2>5. PageStep(p, x)
      BY <1>1, <1>5, <1>7, <2>2, <2>3, <2>4 DEF PageStep
    <2> QED
      BY <2>5
  <1>8. ASSUME requests' = requests \cup {Screen!Event("busy", p, i)}, UNCHANGED screen
        PROVE  \E x : PageStep(p, x)
    <2>1. PICK x : x = screen[p]
      OBVIOUS
    <2>2. x \in Screens /\ screen' = [screen EXCEPT ![p] = x] /\ Moves(p, x)
      BY <1>8, <2>1, ThePageShows DEF Moves, Screens
    <2>3. NewCall(p, x) /\ Reads(p, x)
      BY <1>1, <1>6, <2>1 DEF NewCall, Reads, Ends, IsAccept
    <2>4. PICK r : r = Screen!Event("busy", p, i)
      OBVIOUS
    <2>5. r \in Events /\ r.page = p /\ r.call = i /\ r.op = "busy"
      BY <2>4 DEF Screen!Event, Events, Ops
    <2>6. NewRequest(p, x, r)
      <3>1. Mine(p, r.call) /\ Invited(p, r.call)' /\ x.call # r.call
        BY <1>3, <2>1, <2>5 DEF Mine
      <3> QED
        BY <2>5, <3>1 DEF NewRequest
    <2>7. \A q \in requests' : q \in requests \/ NewRequest(p, x, q)
      BY <1>8, <2>4, <2>6
    <2>8. PageStep(p, x)
      BY <1>1, <1>5, <2>2, <2>3, <2>7 DEF PageStep
    <2> QED
      BY <2>8
  <1> QED
    BY <1>2, <1>7, <1>8 DEF Screen!SeeInvite, Screen!Post

LEMMA SeeAcceptPage ==
    ASSUME ScreenInv, NEW p \in Devices, Screen!SeeAccept(p)
    PROVE  \E x : PageStep(p, x)
  <1> DEFINE h == Head(inbox[p])
  <1>1. /\ Screen!Arrives(p, {"accept"}) /\ UNCHANGED <<requests, failures>>
        /\ inbox[p] # <<>> /\ h.op = "accept" /\ inbox' = [inbox EXCEPT ![p] = Tail(@)]
    BY DEF Screen!SeeAccept, Screen!Arrives
  <1>2. /\ h \in Events /\ ArrivalOK(p, h) /\ h.call \in Calls /\ h.page \in Devices
    BY <1>1, TheEvent
  <1>3. h.op \notin EndOps
    BY <1>1 DEF EndOps
  <1>4. /\ AcceptTold(h.call) /\ row[h.call].status # "none" /\ row[h.call].device = h.page
        /\ row[h.call].caller # UserOf[h.page]
    BY <1>1, <1>2 DEF ArrivalOK, EventOK, ScreenInv, InvitedOK
  <1>5. CASE Screen!Clean(p) /\ UNCHANGED tasks
    BY <1>1, <1>5, ReadClean
  <1>6. ASSUME Screen!Ours(p), screen[p].state = "outgoing",
               screen' = [screen EXCEPT ![p].state = "connecting"],
               tasks' = tasks \cup {Screen!Task(p, h.call, "offering")}
        PROVE  \E x : PageStep(p, x)
    <2>1. PICK x : x = [screen[p] EXCEPT !.state = "connecting"]
      OBVIOUS
    <2>2. /\ x \in Screens /\ screen' = [screen EXCEPT ![p] = x]
          /\ x.call = screen[p].call /\ x.state = "connecting" /\ x.call = h.call
      BY <1>6, <2>1, ThePageShows DEF Screens, Screen!Ours
    <2>3. Moves(p, x)
      BY <1>4, <1>6, <2>2 DEF Moves
    <2>4. Reads(p, x)
      BY <1>1, <1>3, <2>2 DEF Reads, Ends
    <2>5. PICK u : u = Screen!Task(p, h.call, "offering")
      OBVIOUS
    <2>6. u \in TaskRecords /\ u.page = p /\ u.call = h.call /\ u.step = "offering"
      BY <1>2, <2>5, TaskFields
    <2>7. NewTask(p, x, u)
      <3>1. TaskOK(u)
        BY <1>4, <2>6 DEF TaskOK
      <3>2. x.call \in {None, screen[p].call} /\ u.call = screen[p].call
        BY <2>2, <2>6
      <3> QED
        BY <2>6, <3>1, <3>2, FirstHandler
    <2>8. \A t \in tasks' : t \in tasks \/ NewTask(p, x, t)
      BY <1>6, <2>5, <2>7
    <2>9. PageStep(p, x)
      BY <1>1, <2>2, <2>3, <2>4, <2>8, ReadPage
    <2> QED
      BY <2>9
  <1>7. ASSUME ~Screen!TakenElsewhere(p), UNCHANGED <<screen, tasks>>
        PROVE  \E x : PageStep(p, x)
    <2>1. ASSUME screen[p].state = "incoming", screen[p].call = h.call,
                 row[h.call].caller # UserOf[p]
          PROVE  FALSE
      <3>1. UserOf[h.page] # UserOf[p]
        BY <1>7, <2>1 DEF Screen!TakenElsewhere, Screen!Ours
      <3>2. row[h.call].caller \in Screen!Users
        <4>1. row[h.call].caller # None /\ row[h.call] \in CallRows
          BY <1>2, <1>4, ScreenTyped DEF ScreenInv, RowsOK, RowOK
        <4> QED
          BY <4>1 DEF CallRows
      <3>3. PICK q \in Devices : row[h.call].caller = UserOf[q]
        BY <3>2 DEF Screen!Users
      <3> QED
        BY <1>2, <1>4, <2>1, <3>1, <3>3, ScreenNames
    <2>2. screen[p].call # None => ~Ends(h, screen[p].call)
      BY <1>3 DEF Ends
    <2>3. ~(/\ screen[p].state = "incoming" /\ screen[p].call # None
            /\ IsAccept(h, screen[p].call) /\ row[screen[p].call].caller # UserOf[p])
      BY <2>1 DEF IsAccept
    <2> QED
      BY <1>1, <1>7, <2>2, <2>3, ReadOnly
  <1> QED
    BY <1>5, <1>6, <1>7 DEF Screen!SeeAccept

LEMMA SeeEndPage ==
    ASSUME ScreenInv, NEW p \in Devices, Screen!SeeEnd(p)
    PROVE  \E x : PageStep(p, x)
  <1>1. /\ Screen!Arrives(p, {"reject", "busy", "cancel", "end"})
        /\ UNCHANGED <<requests, failures, tasks>>
        /\ Head(inbox[p]).op \in EndOps
    BY DEF Screen!SeeEnd, Screen!Arrives, EndOps
  <1>2. CASE Screen!Clean(p)
    BY <1>1, <1>2, ReadClean
  <1>3. CASE ~Screen!Ours(p) /\ UNCHANGED screen
    <2>1. ~Ends(Head(inbox[p]), screen[p].call) /\ ~IsAccept(Head(inbox[p]), screen[p].call)
      BY <1>1, <1>3 DEF Ends, IsAccept, EndOps, Screen!Ours
    <2> QED
      BY <1>1, <1>3, <2>1, ReadOnly
  <1> QED
    BY <1>2, <1>3 DEF Screen!SeeEnd

\* An offer comes to a page that waits only if its device took the call, or its
\* socket was broken.
LEMMA OfferIsForTaker ==
    ASSUME ScreenInv, NEW p \in Devices, inbox[p] # <<>>, Head(inbox[p]).op = "offer",
           screen[p].call = Head(inbox[p]).call, screen[p].state = "incoming"
    PROVE  row[screen[p].call].device = p \/ socket[p] # "open"
  <1> DEFINE h == Head(inbox[p])
             i == screen[p].call
  <1>1. h = inbox[p][1] /\ 1 \in 1 .. Len(inbox[p]) /\ ArrivalOK(p, h) /\ i \in Calls
    BY TheEvent
  <1>2. AcceptTold(i) /\ row[i].caller # UserOf[p]
    BY <1>1 DEF ArrivalOK, EventOK
  <1> SUFFICES ASSUME row[i].device # p, socket[p] = "open" PROVE FALSE
    OBVIOUS
  <1>3. AcceptAhead(p, i)
    BY <1>1, <1>2 DEF ScreenInv, TakenIsHeard, TakenElse, Past, Waits
  <1>4. PICK k \in 1 .. Len(inbox[p]) :
          IsAccept(inbox[p][k], i) /\ \A j \in 1 .. Len(inbox[p]) : j < k => ~IsOffer(inbox[p][j], i)
    BY <1>3 DEF AcceptAhead
  <1>5. k # 1
    BY <1>1, <1>4 DEF IsAccept
  <1>6. 1 < k
    <2>1. Len(inbox[p]) \in Nat
      BY ThePageShows
    <2> QED
      BY <1>5, <2>1
  <1> QED
    BY <1>1, <1>4, <1>6 DEF IsOffer

LEMMA SeeOfferPage ==
    ASSUME ScreenInv, NEW p \in Devices, Screen!SeeOffer(p)
    PROVE  \E x : PageStep(p, x)
  <1> DEFINE h == Head(inbox[p])
  <1>1. /\ Screen!Arrives(p, {"offer"}) /\ UNCHANGED <<requests, failures>>
        /\ inbox[p] # <<>> /\ h.op = "offer" /\ inbox' = [inbox EXCEPT ![p] = Tail(@)]
    BY DEF Screen!SeeOffer, Screen!Arrives
  <1>2. h \in Events /\ ArrivalOK(p, h) /\ h.call \in Calls
    BY <1>1, TheEvent
  <1>3. h.op \notin EndOps /\ h.op # "accept"
    BY <1>1 DEF EndOps
  <1>4. CASE ~Screen!Ours(p) /\ UNCHANGED <<screen, tasks>>
    BY <1>1, <1>3, <1>4, ReadOnly DEF Ends, IsAccept
  <1>5. ASSUME Screen!Ours(p),
               screen' = [screen EXCEPT ![p].state = IF @ = "incoming" THEN "connecting" ELSE @],
               tasks' = tasks \cup {Screen!Task(p, h.call, "offered")}
        PROVE  \E x : PageStep(p, x)
    <2>1. PICK x : x = [screen[p] EXCEPT !.state = IF @ = "incoming" THEN "connecting" ELSE @]
      OBVIOUS
    <2>2. /\ x \in Screens /\ screen' = [screen EXCEPT ![p] = x] /\ x.call = screen[p].call
          /\ x.state = IF screen[p].state = "incoming" THEN "connecting" ELSE screen[p].state
      BY <1>5, <2>1, ThePageShows DEF Screens
    <2>3. screen[p].call = h.call
      BY <1>5 DEF Screen!Ours
    <2>4. row[h.call].status # "none" /\ row[h.call].caller # UserOf[p]
      BY <1>1, <1>2 DEF ArrivalOK, EventOK
    <2>5. screen[p].state = "incoming" => row[screen[p].call].device = p \/ socket[p] # "open"
      BY <1>1, <2>3, OfferIsForTaker
    <2>6. Moves(p, x)
      BY <2>2, <2>3, <2>4, <2>5 DEF Moves
    <2>7. Reads(p, x)
      BY <1>1, <1>3 DEF Reads, Ends, IsAccept
    <2>8. PICK u : u = Screen!Task(p, h.call, "offered")
      OBVIOUS
    <2>9. u \in TaskRecords /\ u.page = p /\ u.call = h.call /\ u.step = "offered"
      BY <1>2, <2>8, TaskFields
    <2>10. NewTask(p, x, u)
      BY <2>2, <2>3, <2>4, <2>9, FirstHandler DEF TaskOK
    <2>11. \A t \in tasks' : t \in tasks \/ NewTask(p, x, t)
      BY <1>5, <2>8, <2>10
    <2>12. PageStep(p, x)
      BY <1>1, <2>2, <2>6, <2>7, <2>11, ReadPage
    <2> QED
      BY <2>12
  <1> QED
    BY <1>4, <1>5 DEF Screen!SeeOffer

LEMMA SeeAnswerPage ==
    ASSUME ScreenInv, NEW p \in Devices, Screen!SeeAnswer(p)
    PROVE  \E x : PageStep(p, x)
  <1> DEFINE h == Head(inbox[p])
  <1>1. /\ Screen!Arrives(p, {"answer"}) /\ UNCHANGED <<requests, tasks>>
        /\ inbox[p] # <<>> /\ h.op = "answer" /\ inbox' = [inbox EXCEPT ![p] = Tail(@)]
    BY DEF Screen!SeeAnswer, Screen!Arrives
  <1>2. h \in Events /\ ArrivalOK(p, h) /\ h.call \in Calls
    BY <1>1, TheEvent
  <1>3. h.op \notin EndOps /\ h.op # "accept"
    BY <1>1 DEF EndOps
  <1>4. CASE UNCHANGED <<screen, failures>>
    BY <1>1, <1>3, <1>4, ReadOnly DEF Ends, IsAccept
  <1>5. CASE Screen!Fault /\ Screen!Clean(p)
    BY <1>1, <1>5, ReadClean
  <1>6. ASSUME Screen!Ours(p), UNCHANGED failures,
               screen' = [screen EXCEPT ![p] = [Screen!Activated(p) EXCEPT !.pc = "remote"]]
        PROVE  \E x : PageStep(p, x)
    <2>1. PICK x : x = [Screen!Activated(p) EXCEPT !.pc = "remote"]
      OBVIOUS
    <2>2. /\ x \in Screens /\ screen' = [screen EXCEPT ![p] = x] /\ x.call = screen[p].call
          /\ \/ x.state = screen[p].state
             \/ x.state = "active" /\ screen[p].state = "connecting"
      BY <1>6, <2>1, Activating
    <2>3. screen[p].call = h.call
      BY <1>6 DEF Screen!Ours
    <2>4. row[h.call].status \in {"active"} \cup Screen!Terminal
      BY <1>1, <1>2 DEF ArrivalOK, EventOK
    <2>5. Moves(p, x)
      BY <2>2, <2>3, <2>4 DEF Moves
    <2>6. Reads(p, x)
      BY <1>1, <1>3 DEF Reads, Ends, IsAccept
    <2>7. PageStep(p, x)
      BY <1>1, <1>6, <2>2, <2>5, <2>6, ReadPage
    <2> QED
      BY <2>7
  <1> QED
    BY <1>4, <1>5, <1>6 DEF Screen!SeeAnswer

-----------------------------------------------------------------------------
(* Calling: the steps of the server and of the sockets.                      *)

\* A row knows more and more.
RowsGoOn ==
    \A i \in Calls :
      /\ row[i].status # "none" => row'[i].status # "none" /\ row'[i].caller = row[i].caller
      /\ row[i].device # None => row'[i].device = row[i].device
      /\ row[i].status \in {"active"} \cup Screen!Terminal =>
           row'[i].status \in {"active"} \cup Screen!Terminal
      /\ InviteTold(i) => InviteTold(i)'
      /\ AcceptTold(i) => AcceptTold(i)'

\* Handlers stay, and some that waited have an answer.
Replies(r, verdict) ==
    \A u \in tasks' : \E t \in tasks :
      /\ u \in TaskRecords /\ u.page = t.page /\ u.call = t.call /\ u.step = t.step
      /\ \/ u = t
         \/ u.step = r.op /\ u.page = r.page /\ u.call = r.call /\ u.reply = verdict

LEMMA ReplyReplies ==
    ASSUME ScreenInv, NEW r \in Events, NEW verdict \in {"ok", "no"}, Screen!Reply(r, verdict)
    PROVE  Replies(r, verdict)
  <1> SUFFICES ASSUME NEW u \in tasks'
               PROVE  \E t \in tasks :
                 /\ u \in TaskRecords /\ u.page = t.page /\ u.call = t.call /\ u.step = t.step
                 /\ \/ u = t
                    \/ u.step = r.op /\ u.page = r.page /\ u.call = r.call /\ u.reply = verdict
    BY DEF Replies
  <1>1. PICK t \in tasks :
          u = IF [t EXCEPT !.reply = "none"] = Screen!Task(r.page, r.call, r.op) /\ t.reply = "none"
              THEN [t EXCEPT !.reply = verdict] ELSE t
    BY DEF Screen!Reply
  <1>2. t \in TaskRecords
    BY TheTask
  <1>3. CASE u = t
    BY <1>2, <1>3
  <1>4. CASE /\ [t EXCEPT !.reply = "none"] = Screen!Task(r.page, r.call, r.op)
             /\ u = [t EXCEPT !.reply = verdict]
    <2>1. u \in TaskRecords /\ u.page = t.page /\ u.call = t.call /\ u.step = t.step
          /\ u.reply = verdict
      BY <1>2, <1>4 DEF TaskRecords
    <2>2. t.page = r.page /\ t.call = r.call /\ t.step = r.op
      <3>1. PICK v : v = [t EXCEPT !.reply = "none"]
        OBVIOUS
      <3>2. v.page = t.page /\ v.call = t.call /\ v.step = t.step
        BY <1>2, <3>1 DEF TaskRecords
      <3>3. v = [page |-> r.page, call |-> r.call, step |-> r.op, reply |-> "none"]
        BY <1>4, <3>1 DEF Screen!Task
      <3> QED
        BY <3>2, <3>3
    <2> QED
      BY <2>1, <2>2
  <1> QED
    BY <1>1, <1>3, <1>4

\* A handler that was answered, if at all, by something that is so.
Answers ==
    \A u \in tasks' : \E t \in tasks :
      /\ u \in TaskRecords /\ u.page = t.page /\ u.call = t.call /\ u.step = t.step
      /\ \/ u = t
         \/ /\ u.step \in Ops
            /\ (u.step = "accept" /\ u.reply = "ok") => row[u.call].device = u.page

\* A call begins by the page that shows it, which has its microphone.
Births ==
    \A i \in Calls : row[i].status = "none" =>
      /\ \A p \in Devices : screen[p].call = i => row'[i].caller \in {None, UserOf[p]}
      /\ \A r \in requests' : r.call = i => row'[i].caller \in {None, UserOf[r.page]}
      /\ row'[i].status = "none" \/ \A t \in tasks : ~(t.step = "media" /\ t.call = i)

\* A device that takes a call was invited to it.
Takers ==
    \A i \in Calls, d \in Devices : row'[i].device = d /\ row[i].device # d =>
      row[i].status # "none" /\ row[i].caller # UserOf[d] /\ Invited(d, i)

\* What the server does leaves what pages show, and takes requests from them.
ServerStep ==
    /\ UNCHANGED <<scenario, screen, leaked, strayed>>
    /\ requests' \subseteq requests
    /\ failures' \in 0 .. scenario.faults /\ failures <= failures'
    /\ row' \in [Calls -> CallRows] /\ relays' \subseteq Events
    /\ inbox' \in [Devices -> Seq(Events)]
    /\ socket' \in [Devices -> {"open", "broken", "reopened"}]
    /\ \A p \in Devices : socket'[p] = "open" => socket[p] = "open"
    /\ \A p \in Devices, i \in Calls : InviteTold(i) /\ NoInvite(p, i) => NoInvite(p, i)'
    /\ RowsOK' /\ RowsGoOn /\ Answers /\ Births /\ Takers

LEMMA ServerTypes ==
    ASSUME ScreenInv, ServerStep
    PROVE  ScreenTypes'
  <1>1. tasks' \subseteq TaskRecords /\ requests' \subseteq Events
    BY ScreenTyped DEF ScreenInv, ServerStep, Answers
  <1>2. /\ scenario' \in Scenarios /\ failures' \in 0 .. scenario'.faults
        /\ strayed' \subseteq Devices /\ leaked' \subseteq Devices \X (Calls \cup {None})
        /\ screen' \in [Devices -> Screens] /\ row' \in [Calls -> CallRows]
        /\ relays' \subseteq Events /\ inbox' \in [Devices -> Seq(Events)]
        /\ socket' \in [Devices -> {"open", "broken", "reopened"}]
    BY ScreenTyped DEF ScreenInv, ServerStep
  <1> QED
    BY <1>1, <1>2 DEF ScreenTypes, Screen!TypeOK, CallRows, Screens

\* What was so of a row is so still.
LEMMA RowFacts ==
    ASSUME ScreenInv, ServerStep, NEW i \in Calls
    PROVE  /\ row'[i].status = "none" => row[i].status = "none"
           /\ row[i].status # "none" => row'[i].status # "none" /\ row'[i].caller = row[i].caller
           /\ row[i].status = "none" => row[i].caller = None
           /\ row'[i].status # "none" => row'[i].caller # None
           /\ row[i].device # None => row'[i].device = row[i].device /\ row[i].status # "none"
           /\ row[i].status \in {"active"} \cup Screen!Terminal =>
                row'[i].status \in {"active"} \cup Screen!Terminal
           /\ InviteTold(i) => InviteTold(i)'
           /\ AcceptTold(i) => AcceptTold(i)'
           /\ \A p \in Devices :
                row'[i].caller \in {None, UserOf[p]} => row[i].caller \in {None, UserOf[p]}
  <1>1. RowOK(row[i]) /\ RowOK(row'[i])
    BY DEF ScreenInv, ServerStep, RowsOK, RowOK
  <1>2. /\ row[i].status # "none" => row'[i].status # "none" /\ row'[i].caller = row[i].caller
        /\ row[i].device # None => row'[i].device = row[i].device
        /\ row[i].status \in {"active"} \cup Screen!Terminal =>
             row'[i].status \in {"active"} \cup Screen!Terminal
        /\ InviteTold(i) => InviteTold(i)'
        /\ AcceptTold(i) => AcceptTold(i)'
    BY DEF ServerStep, RowsGoOn
  <1> QED
    BY <1>1, <1>2 DEF RowOK

LEMMA ServerWork ==
    ASSUME ScreenInv, ServerStep
    PROVE  Owned' /\ StartedOK' /\ WorkOK'
  <1>1. /\ screen' = screen /\ requests' \subseteq requests /\ requests \subseteq Events
        /\ \A u \in tasks' : \E t \in tasks :
             u \in TaskRecords /\ u.page = t.page /\ u.call = t.call /\ u.step = t.step
        /\ screen \in [Devices -> Screens]
    BY ThePageShows, ScreenTyped DEF ServerStep, Answers, ScreenInv
  <1>2. Owned'
    <2> SUFFICES ASSUME NEW i \in Calls, row'[i].status = "none"
                 PROVE  \E o \in Devices \cup {None} : OwnedBy(o, i)'
      BY DEF Owned
    <2>1. PICK o \in Devices \cup {None} : OwnedBy(o, i)
      BY RowFacts DEF ScreenInv, Owned
    <2>2. OwnedBy(o, i)'
      BY <1>1, <2>1 DEF OwnedBy
    <2> QED
      BY <2>2
  <1>3. StartedOK'
    <2> SUFFICES ASSUME NEW p \in Devices, Begun(p)', NEW u \in tasks', u.page = p
                 PROVE  u.call = screen'[p].call
      BY DEF StartedOK
    <2>1. screen[p].call \in Calls /\ screen[p].call # None
      BY <1>1 DEF Begun, Screens
    <2>2. Begun(p)
      BY <1>1, <2>1, RowFacts DEF Begun
    <2> QED
      BY <1>1, <2>2 DEF ScreenInv, StartedOK
  <1>4. ASSUME NEW u \in tasks' PROVE TaskOK(u)'
    <2>1. PICK t \in tasks :
            /\ u \in TaskRecords /\ u.page = t.page /\ u.call = t.call /\ u.step = t.step
            /\ \/ u = t
               \/ /\ u.step \in Ops
                  /\ (u.step = "accept" /\ u.reply = "ok") => row[u.call].device = u.page
      BY DEF ServerStep, Answers
    <2>2. TaskOK(t) /\ t.page \in Devices /\ t.call \in Calls /\ t.page # None
      BY TheTask, ScreenNames
    <2>3. u.step = "media" => u.reply = "none" /\ row'[u.call].status = "none"
      <3>1. u.step = "media" => u = t /\ u.reply = "none" /\ row[u.call].status = "none"
        BY <2>1, <2>2 DEF TaskOK, Ops
      <3> QED
        BY <2>1, <2>2, <3>1 DEF ServerStep, Births
    <2>4. (u.step = "accept" /\ u.reply = "ok") => row'[u.call].device = u.page
      <3>1. (u.step = "accept" /\ u.reply = "ok") => row[u.call].device = u.page
        BY <2>1, <2>2 DEF TaskOK
      <3> QED
        BY <2>1, <2>2, <3>1, RowFacts
    <2>5. u.step = "offering" => AcceptTold(u.call)'
      BY <2>1, <2>2, RowFacts DEF TaskOK
    <2>6. u.step = "offered" => row'[u.call].status # "none" /\ row'[u.call].caller # UserOf[u.page]
      BY <2>1, <2>2, RowFacts DEF TaskOK
    <2> QED
      BY <2>3, <2>4, <2>5, <2>6 DEF TaskOK
  <1>5. ASSUME NEW r \in requests' PROVE RequestOK(r)'
    <2>1. RequestOK(r) /\ r.page \in Devices /\ r.call \in Calls
      BY <1>1 DEF ScreenInv, WorkOK, Events
    <2>2. (r.op = "offer" /\ row'[r.call].caller \in {None, UserOf[r.page]}) => AcceptTold(r.call)'
      BY <2>1, RowFacts DEF RequestOK
    <2>3. r.op \in EndOps => screen'[r.page].call # r.call
      BY <1>1, <2>1 DEF RequestOK
    <2>4. r.op = "invite" => \A u \in tasks' : ~(u.step = "media" /\ u.call = r.call)
      BY <1>1, <2>1 DEF RequestOK
    <2> QED
      BY <2>2, <2>3, <2>4 DEF RequestOK
  <1> QED
    BY <1>2, <1>3, <1>4, <1>5 DEF WorkOK

LEMMA ServerInvited ==
    ASSUME ScreenInv, ServerStep
    PROVE  InvitedOK'
  <1>1. /\ screen' = screen /\ requests' \subseteq requests /\ requests \subseteq Events
        /\ screen \in [Devices -> Screens]
    BY ThePageShows, ScreenTyped DEF ServerStep, ScreenInv
  <1>2. ASSUME NEW p \in Devices, NEW i \in Calls, Invited(p, i),
               row[i].status = "none" => row'[i].caller \in {None, UserOf[p]}
        PROVE  Invited(p, i)'
    <2>1. CASE row[i].status = "none"
      BY <1>2, <2>1, RowFacts DEF Invited
    <2>2. CASE row[i].status # "none" /\ row[i].caller = UserOf[p]
      BY <2>2, RowFacts DEF Invited
    <2>3. CASE InviteTold(i) /\ NoInvite(p, i)
      BY <2>3, RowFacts DEF Invited, ServerStep
    <2> QED
      BY <1>2, <2>1, <2>2, <2>3 DEF Invited
  <1>3. ASSUME NEW p \in Devices, screen'[p].call # None PROVE Invited(p, screen[p].call)'
    <2>1. PICK i \in Calls : i = screen[p].call
      BY <1>1, <1>3 DEF Screens
    <2>2. Invited(p, i)
      BY <1>1, <1>3, <2>1 DEF ScreenInv, InvitedOK
    <2>3. Invited(p, i)'
      BY <1>2, <2>1, <2>2 DEF ServerStep, Births
    <2> QED
      BY <1>1, <2>1, <2>3 DEF Invited, InviteTold, NoInvite
  <1>4. ASSUME NEW r \in requests' PROVE Invited(r.page, r.call)'
    <2>1. r.page \in Devices /\ r.call \in Calls /\ Invited(r.page, r.call)
      BY <1>1 DEF ScreenInv, InvitedOK, Events
    <2> QED
      BY <1>2, <2>1 DEF ServerStep, Births
  <1>5. ASSUME NEW i \in Calls, NEW d \in Devices, row'[i].device = d
        PROVE  row'[i].caller # UserOf[d] /\ InviteTold(i)' /\ NoInvite(d, i)'
    <2>1. row[i].caller # UserOf[d] /\ row[i].status # "none" /\ InviteTold(i) /\ NoInvite(d, i)
      <3>1. CASE row[i].device = d
        BY <3>1, RowFacts, ScreenNames DEF ScreenInv, InvitedOK
      <3>2. CASE row[i].device # d
        BY <1>5, <3>2 DEF ServerStep, Takers, Invited
      <3> QED
        BY <3>1, <3>2
    <2> QED
      BY <2>1, RowFacts DEF ServerStep
  <1> QED
    BY <1>3, <1>4, <1>5 DEF InvitedOK

LEMMA ServerCalls ==
    ASSUME ScreenInv, ServerStep
    PROVE  CallersCall' /\ Screen!ConnectsIfTaken' /\ Screen!CallerWasAnswered'
  <1> USE DEF Screen!Shows, Screen!IsCallersPage
  <1>1. /\ UNCHANGED <<screen, strayed>> /\ screen \in [Devices -> Screens]
        /\ \A p \in Devices : socket'[p] = "open" => socket[p] = "open"
    BY ThePageShows, ScreenTyped DEF ServerStep, ScreenInv
  <1> SUFFICES ASSUME NEW p \in Devices \ strayed, screen[p].call # None
               PROVE  /\ screen[p].state = "outgoing" =>
                           row'[screen[p].call].caller \in {None, UserOf[p]}
                      /\ screen[p].state \in {"connecting", "active"} =>
                           row'[screen[p].call].status # "none"
                      /\ (screen[p].state \in {"connecting", "active"} /\ socket'[p] = "open"
                            /\ row'[screen[p].call].caller # UserOf[p]) =>
                           row'[screen[p].call].device = p
                      /\ (screen[p].state = "active" /\ row'[screen[p].call].caller = UserOf[p]) =>
                           row'[screen[p].call].status \in {"active"} \cup Screen!Terminal
    BY <1>1 DEF CallersCall, Screen!ConnectsIfTaken, Screen!CallerWasAnswered
  <1>2. PICK i \in Calls : i = screen[p].call
    BY <1>1 DEF Screens
  <1>3. screen[p].state = "outgoing" => row'[i].caller \in {None, UserOf[p]}
    <2>1. screen[p].state = "outgoing" => row[i].caller \in {None, UserOf[p]}
      BY <1>2 DEF ScreenInv, CallersCall
    <2>2. row[i].status = "none" => row'[i].caller \in {None, UserOf[p]}
      BY <1>2 DEF ServerStep, Births
    <2> QED
      BY <2>1, <2>2, RowFacts
  <1>4. screen[p].state \in {"connecting", "active"} => row[i].status # "none"
    BY <1>2 DEF ScreenInv, CallersCall
  <1>5. (screen[p].state \in {"connecting", "active"} /\ socket'[p] = "open"
           /\ row'[i].caller # UserOf[p]) => row'[i].device = p
    <2>1. (screen[p].state \in {"connecting", "active"} /\ socket[p] = "open"
             /\ row[i].caller # UserOf[p]) => row[i].device = p
      BY <1>2 DEF ScreenInv, Screen!ConnectsIfTaken
    <2> QED
      BY <1>1, <1>4, <2>1, RowFacts, ScreenNames
  <1>6. (screen[p].state = "active" /\ row'[i].caller = UserOf[p]) =>
          row'[i].status \in {"active"} \cup Screen!Terminal
    <2>1. (screen[p].state = "active" /\ row[i].caller = UserOf[p]) =>
            row[i].status \in {"active"} \cup Screen!Terminal
      BY <1>2 DEF ScreenInv, Screen!CallerWasAnswered
    <2> QED
      BY <1>4, <2>1, RowFacts
  <1> QED
    BY <1>2, <1>3, <1>4, <1>5, <1>6, RowFacts

\* What an event said is so still.
LEMMA EventsStay ==
    ASSUME ScreenInv, ServerStep
    PROVE  /\ \A e \in Events : EventOK(e) => EventOK(e)'
           /\ \A e \in Events, p \in Devices : ArrivalOK(p, e) => ArrivalOK(p, e)'
  <1>1. ASSUME NEW e \in Events, EventOK(e) PROVE EventOK(e)'
    <2>1. e.call \in Calls /\ e.page \in Devices /\ e.page # None
      BY ScreenNames DEF Events
    <2> QED
      BY <1>1, <2>1, RowFacts DEF EventOK
  <1>2. ASSUME NEW e \in Events, NEW p \in Devices, ArrivalOK(p, e) PROVE ArrivalOK(p, e)'
    <2>1. e.call \in Calls
      BY DEF Events
    <2>2. EventOK(e) /\ EventOK(e)' /\ row[e.call].status # "none"
      BY <1>1, <1>2 DEF ArrivalOK, EventOK
    <2> QED
      BY <1>2, <2>1, <2>2, RowFacts DEF ArrivalOK
  <1> QED
    BY <1>1, <1>2

\* What a request makes of a row, if anything.
LEMMA AfterKinds ==
    ASSUME ScreenInv, NEW r \in requests, NEW n, n = Screen!After(r), n # row[r.call]
    PROVE  LET c == row[r.call] IN
           /\ n \in CallRows /\ RowOK(n) /\ n.status # "none"
           /\ c.status \notin Screen!Terminal
           /\ r.op = "invite" <=> c.status = "none"
           /\ c.status = "none" => n.caller = UserOf[r.page]
           /\ c.status # "none" => n.caller = c.caller
           /\ r.op = "accept" => c.status = "ringing" /\ c.caller # UserOf[r.page] /\ n.device = r.page
           /\ r.op # "accept" => n.device = c.device
           /\ c.status = "active" => n.status \in {"active"} \cup Screen!Terminal
           /\ n.status \in Screen!Terminal => r.op \in EndOps
           /\ r.op = "offer" => c.caller = UserOf[r.page]
           /\ r.op = "answer" => n.status = "active"
  <1> DEFINE c == row[r.call]
  <1>1. /\ r \in Events /\ r.op \in Ops /\ r.page \in Devices /\ r.call \in Calls
        /\ c \in CallRows /\ RowOK(c)
    BY ScreenTyped, ThePageShows DEF ScreenInv, RowsOK, Events
  <1>2. /\ c.status \in {"none", "ringing", "accepted", "connecting", "active"} \cup Screen!Terminal
        /\ c.caller \in Screen!Users \cup {None} /\ c.device \in Devices \cup {None}
    BY <1>1 DEF CallRows
  <1>3. UserOf[r.page] \in Screen!Users /\ UserOf[r.page] # None /\ r.page # None
    BY <1>1, ScreenNames
  <1> USE DEF Screen!Terminal, Screen!IsCaller, Screen!IsCallee, RowOK, EndOps
  <1>4. CASE r.op = "invite"
    <2>1. c.status = "none" /\ n = [status |-> "ringing", caller |-> UserOf[r.page], device |-> None]
      BY <1>4 DEF Screen!After, Screen!NoRow
    <2>2. c.device = None
      BY <1>1, <2>1
    <2> QED
      BY <1>1, <1>2, <1>3, <1>4, <2>1, <2>2 DEF CallRows
  <1>5. CASE r.op = "accept"
    <2>1. c.status = "ringing" /\ c.caller # UserOf[r.page]
          /\ n = [c EXCEPT !.status = "accepted", !.device = r.page]
      BY <1>5 DEF Screen!After
    <2>2. n.status = "accepted" /\ n.device = r.page /\ n.caller = c.caller /\ n \in CallRows
      BY <1>1, <1>2, <2>1 DEF CallRows
    <2> QED
      BY <1>1, <1>2, <1>5, <2>1, <2>2
  <1>6. CASE r.op \in {"reject", "busy"}
    <2>1. c.status = "ringing" /\ n = [c EXCEPT !.status = r.op]
      BY <1>6 DEF Screen!After
    <2>2. n.status = r.op /\ n.device = c.device /\ n.caller = c.caller /\ n \in CallRows
      BY <1>1, <1>2, <1>6, <2>1 DEF CallRows
    <2> QED
      BY <1>1, <1>2, <1>6, <2>1, <2>2
  <1>7. CASE r.op = "cancel"
    <2>1. c.status \in {"ringing", "accepted", "connecting"} /\ n = [c EXCEPT !.status = "canceled"]
      BY <1>7 DEF Screen!After
    <2>2. n.status = "canceled" /\ n.device = c.device /\ n.caller = c.caller /\ n \in CallRows
      BY <1>1, <1>2, <2>1 DEF CallRows
    <2> QED
      BY <1>1, <1>2, <1>7, <2>1, <2>2
  <1>8. CASE r.op = "end"
    <2>1. /\ c.status \in {"accepted", "connecting", "active"}
          /\ n = [c EXCEPT !.status = IF c.status = "active" THEN "completed" ELSE "failed"]
      BY <1>8 DEF Screen!After
    <2>2. /\ n.status \in {"completed", "failed"} /\ n.device = c.device /\ n.caller = c.caller
          /\ n \in CallRows
      BY <1>1, <1>2, <2>1 DEF CallRows
    <2> QED
      BY <1>1, <1>2, <1>8, <2>1, <2>2
  <1>9. CASE r.op = "offer"
    <2>1. c.status = "accepted" /\ c.caller = UserOf[r.page] /\ n = [c EXCEPT !.status = "connecting"]
      BY <1>9 DEF Screen!After
    <2>2. n.status = "connecting" /\ n.device = c.device /\ n.caller = c.caller /\ n \in CallRows
      BY <1>1, <1>2, <2>1 DEF CallRows
    <2> QED
      BY <1>1, <1>2, <1>9, <2>1, <2>2
  <1>10. CASE r.op = "answer"
    <2>1. c.status = "connecting" /\ n = [c EXCEPT !.status = "active"]
      BY <1>10 DEF Screen!After
    <2>2. n.status = "active" /\ n.device = c.device /\ n.caller = c.caller /\ n \in CallRows
      BY <1>1, <1>2, <2>1 DEF CallRows
    <2> QED
      BY <1>1, <1>2, <1>10, <2>1, <2>2
  <1> QED
    BY <1>1, <1>4, <1>5, <1>6, <1>7, <1>8, <1>9, <1>10 DEF Ops

\* A request that changes its row, and will be relayed.
LEMMA ServeChanges ==
    ASSUME ScreenInv, NEW r \in requests, NEW n, n = Screen!After(r), n # row[r.call],
           row' = [row EXCEPT ![r.call] = n], relays' = relays \cup {r},
           requests' = requests \ {r},
           UNCHANGED <<scenario, screen, tasks, socket, inbox, leaked, failures, strayed>>
    PROVE  ScreenInv'
  <1> DEFINE i == r.call
             c == row[i]
  <1>1. /\ r \in Events /\ r.page \in Devices /\ i \in Calls /\ RequestOK(r) /\ Invited(r.page, i)
        /\ row \in [Calls -> CallRows] /\ RowOK(c) /\ r.page # None
    BY ScreenTyped, ThePageShows, ScreenNames DEF ScreenInv, RowsOK, Events, InvitedOK
  <1>2. row'[i] = n /\ \A j \in Calls : j # i => row'[j] = row[j]
    BY <1>1
  <1>3. /\ n \in CallRows /\ RowOK(n) /\ n.status # "none"
        /\ c.status \notin Screen!Terminal
        /\ r.op = "invite" <=> c.status = "none"
        /\ c.status = "none" => n.caller = UserOf[r.page]
        /\ c.status # "none" => n.caller = c.caller
        /\ r.op = "accept" => c.status = "ringing" /\ c.caller # UserOf[r.page] /\ n.device = r.page
        /\ r.op # "accept" => n.device = c.device
        /\ c.status = "active" => n.status \in {"active"} \cup Screen!Terminal
        /\ n.status \in Screen!Terminal => r.op \in EndOps
        /\ r.op = "offer" => c.caller = UserOf[r.page]
        /\ r.op = "answer" => n.status = "active"
    BY AfterKinds
  <1>4. RowsGoOn
    <2> SUFFICES ASSUME NEW j \in Calls
                 PROVE  /\ row[j].status # "none" =>
                             row'[j].status # "none" /\ row'[j].caller = row[j].caller
                        /\ row[j].device # None => row'[j].device = row[j].device
                        /\ row[j].status \in {"active"} \cup Screen!Terminal =>
                             row'[j].status \in {"active"} \cup Screen!Terminal
                        /\ InviteTold(j) => InviteTold(j)'
                        /\ AcceptTold(j) => AcceptTold(j)'
      BY DEF RowsGoOn
    <2>1. IsInvite(r, j) => ~InviteTold(j)
      BY <1>3 DEF IsInvite, InviteTold
    <2>2. IsAccept(r, j) => ~AcceptTold(j)
      BY <1>1, <1>3 DEF IsAccept, AcceptTold, RowOK
    <2>3. row[j].device # None => row'[j].device = row[j].device
      BY <1>1, <1>2, <1>3 DEF RowOK
    <2> QED
      BY <1>2, <1>3, <2>1, <2>2, <2>3 DEF InviteTold, AcceptTold
  <1>5. RowsOK' /\ row' \in [Calls -> CallRows] /\ relays' \subseteq Events
    <2>1. \A j \in Calls : row'[j] = row[j] \/ row'[j] = n
      BY <1>2
    <2> QED
      BY <1>1, <1>3, <2>1, ScreenTyped DEF ScreenInv, RowsOK, RowOK
  <1>6. Answers
    BY TheTask DEF Answers
  <1>7. Births
    <2> SUFFICES ASSUME NEW j \in Calls, row[j].status = "none"
                 PROVE  /\ \A p \in Devices :
                             screen[p].call = j => row'[j].caller \in {None, UserOf[p]}
                        /\ \A q \in requests' : q.call = j => row'[j].caller \in {None, UserOf[q.page]}
                        /\ row'[j].status = "none" \/ \A t \in tasks : ~(t.step = "media" /\ t.call = j)
      BY DEF Births
    <2>1. CASE j # i
      <3>1. row'[j] = row[j] /\ row[j].caller = None
        BY <1>2, <2>1 DEF ScreenInv, RowsOK, RowOK
      <3> QED
        BY <3>1
    <2>2. CASE j = i
      <3>1. PICK o : OwnedBy(o, i)
        BY <2>2 DEF ScreenInv, Owned
      <3>2. o = r.page
        BY <3>1 DEF OwnedBy
      <3>3. row'[i].caller = UserOf[r.page] /\ r.op = "invite"
        BY <1>2, <1>3, <2>2
      <3> QED
        BY <1>1, <2>2, <3>1, <3>2, <3>3 DEF OwnedBy, RequestOK
    <2> QED
      BY <2>1, <2>2
  <1>8. Takers
    <2> SUFFICES ASSUME NEW j \in Calls, NEW d \in Devices, row'[j].device = d, row[j].device # d
                 PROVE  row[j].status # "none" /\ row[j].caller # UserOf[d] /\ Invited(d, j)
      BY DEF Takers
    <2>1. j = i /\ r.op = "accept" /\ d = r.page
      BY <1>2, <1>3
    <2> QED
      BY <1>1, <1>3, <2>1
  <1>9. ServerStep
    <2>1. /\ requests' \subseteq requests
          /\ failures' \in 0 .. scenario.faults /\ failures <= failures'
          /\ inbox' \in [Devices -> Seq(Events)]
          /\ socket' \in [Devices -> {"open", "broken", "reopened"}]
          /\ \A p \in Devices : socket'[p] = "open" => socket[p] = "open"
          /\ \A p \in Devices, j \in Calls : InviteTold(j) /\ NoInvite(p, j) => NoInvite(p, j)'
      BY ThePageShows, ScreenTyped DEF ScreenInv, NoInvite
    <2> QED
      BY <1>4, <1>5, <1>6, <1>7, <1>8, <2>1 DEF ServerStep
  <1>10. EventsOK'
    <2>1. EventOK(r)'
      <3>1. r.op = "offer" => AcceptTold(i)'
        BY <1>1, <1>3, <1>9, RowFacts DEF RequestOK
      <3> QED
        BY <1>2, <1>3, <3>1 DEF EventOK
    <2>2. \A e \in relays' : EventOK(e)'
      BY <1>9, <2>1, EventsStay, ScreenTyped DEF ScreenInv, EventsOK
    <2>3. ASSUME NEW p \in Devices, NEW k \in 1 .. Len(inbox'[p]) PROVE ArrivalOK(p, inbox[p][k])'
      <3>1. PICK e : e = inbox[p][k]
        OBVIOUS
      <3>2. e \in Events /\ ArrivalOK(p, e)
        <4>1. inbox[p] \in Seq(Events) /\ k \in 1 .. Len(inbox[p])
          BY <2>3, ThePageShows
        <4> QED
          BY <3>1, <4>1 DEF ScreenInv, EventsOK
      <3>3. ArrivalOK(p, e)'
        BY <1>9, <3>2, EventsStay
      <3>4. inbox'[p][k] = e
        BY <3>1
      <3> QED
        BY <3>3, <3>4 DEF ArrivalOK, EventOK, InviteTold, AcceptTold
    <2> QED
      BY <2>2, <2>3 DEF EventsOK
  <1>11. InvitedOnce'
    <2>1. \A e \in relays : e.call = i => r.op # "invite"
      BY <1>3 DEF ScreenInv, EventsOK, EventOK
    <2>2. \A e, f \in relays' : (e.op = "invite" /\ IsInvite(f, e.call)) => e = f
      BY <2>1 DEF ScreenInv, InvitedOnce, IsInvite
    <2> QED
      BY <2>2 DEF ScreenInv, InvitedOnce
  <1>12. TakenIsHeard'
    <2> SUFFICES ASSUME NEW p \in Devices, NEW j \in Calls, TakenElse(p, j)'
                 PROVE  Past(p, j)' \/ AcceptAhead(p, j)'
      BY DEF TakenIsHeard
    <2>1. ~IsAccept(r, j)
      BY DEF TakenElse, AcceptTold
    <2>2. row'[j].device = row[j].device
      BY <1>2, <1>3, <2>1 DEF IsAccept
    <2>3. row[j].device # None
      BY <2>2 DEF TakenElse, AcceptTold
    <2>4. TakenElse(p, j)
      BY <1>9, <2>2, <2>3, RowFacts DEF TakenElse, AcceptTold
    <2> QED
      BY <2>4 DEF ScreenInv, TakenIsHeard, Past, AcceptAhead, NoInvite, Waits
  <1>13. EndIsHeard'
    <2> SUFFICES ASSUME failures' = 0 PROVE EndIsHeard'
      BY DEF EndIsHeard
    <2>1. ASSUME NEW p \in Devices \ strayed', Overdue(p)'
          PROVE  EndingComes(p, screen[p].call)'
      <3>1. p \in Devices \ strayed /\ screen[p].call # None /\ screen[p].call \in Calls
        BY <2>1, ThePageShows DEF Overdue
      <3>2. CASE screen[p].call # i
        <4>1. Overdue(p)
          BY <1>2, <2>1, <3>1, <3>2 DEF Overdue
        <4> QED
          BY <3>1, <4>1 DEF ScreenInv, EndIsHeard, EndingComes
      <3>3. CASE screen[p].call = i
        <4>1. n.status \in Screen!Terminal
          BY <1>2, <2>1, <3>3 DEF Overdue
        <4>2. r.op \in EndOps /\ r.page # p
          BY <1>1, <1>3, <3>3, <4>1 DEF RequestOK
        <4> QED
          BY <3>3, <4>2 DEF EndingComes, Ends
      <3> QED
        BY <3>2, <3>3
    <2> QED
      BY <2>1 DEF ScreenInv, EndIsHeard
  <1> QED
    BY <1>5, <1>9, <1>10, <1>11, <1>12, <1>13, ServerTypes, ServerWork, ServerInvited, ServerCalls
    DEF ScreenInv

\* A step that changes neither rows nor relays nor inboxes is a step of the server.
LEMMA QuietStep ==
    ASSUME ScreenInv, UNCHANGED <<scenario, screen, row, relays, inbox, leaked, strayed>>,
           requests' \subseteq requests, Answers,
           failures' \in 0 .. scenario.faults, failures <= failures',
           socket' \in [Devices -> {"open", "broken", "reopened"}],
           \A p \in Devices : socket'[p] = "open" => socket[p] = "open",
           failures' = 0 => UNCHANGED socket
    PROVE  ScreenInv'
  <1>1. /\ row' \in [Calls -> CallRows] /\ relays' \subseteq Events
        /\ inbox' \in [Devices -> Seq(Events)] /\ row \in [Calls -> CallRows]
    BY ScreenTyped DEF ScreenInv
  <1>2. RowsOK' /\ RowsGoOn /\ Takers
    BY DEF ScreenInv, RowsOK, RowsGoOn, InviteTold, AcceptTold, Takers
  <1>3. Births
    <2>1. \A i \in Calls : row[i].status = "none" => row[i].caller = None
      BY DEF ScreenInv, RowsOK, RowOK
    <2> QED
      BY <2>1 DEF Births
  <1>4. ServerStep
    BY <1>1, <1>2, <1>3 DEF ServerStep, NoInvite
  <1>5. EventsOK' /\ InvitedOnce'
    BY DEF ScreenInv, EventsOK, InvitedOnce, EventOK, ArrivalOK, InviteTold, AcceptTold
  <1>6. TakenIsHeard'
    BY <1>4 DEF ScreenInv, TakenIsHeard, TakenElse, AcceptTold, Past, AcceptAhead, NoInvite, Waits,
                ServerStep
  <1>7. EndIsHeard'
    <2>1. failures' = 0 => failures = 0
      BY ScreenTyped DEF ScreenInv
    <2> QED
      BY <2>1 DEF ScreenInv, EndIsHeard, Overdue, EndingComes
  <1> QED
    BY <1>2, <1>4, <1>5, <1>6, <1>7, ServerTypes, ServerWork, ServerInvited, ServerCalls
    DEF ScreenInv

LEMMA NoAnswers == ASSUME ScreenInv, UNCHANGED tasks PROVE Answers
  BY TheTask DEF Answers

\* A request whose answer says no, or that is lost.
LEMMA NoKeeps ==
    ASSUME ScreenInv, NEW r \in Events, Screen!Reply(r, "no"),
           requests' \subseteq requests,
           UNCHANGED <<scenario, screen, row, relays, inbox, socket, leaked, strayed>>,
           failures' = failures \/ Screen!Fault
    PROVE  ScreenInv'
  <1>1. Replies(r, "no") /\ r.op \in Ops
    BY ReplyReplies DEF Events
  <1>2. Answers
    <2> SUFFICES ASSUME NEW u \in tasks'
                 PROVE  \E t \in tasks :
                   /\ u \in TaskRecords /\ u.page = t.page /\ u.call = t.call /\ u.step = t.step
                   /\ \/ u = t
                      \/ /\ u.step \in Ops
                         /\ (u.step = "accept" /\ u.reply = "ok") => row[u.call].device = u.page
      BY DEF Answers
    <2>1. PICK t \in tasks :
            /\ u \in TaskRecords /\ u.page = t.page /\ u.call = t.call /\ u.step = t.step
            /\ \/ u = t
               \/ u.step = r.op /\ u.page = r.page /\ u.call = r.call /\ u.reply = "no"
      BY <1>1 DEF Replies
    <2> QED
      BY <1>1, <2>1
  <1>3. failures' \in 0 .. scenario.faults /\ failures <= failures'
    <2>1. failures \in 0 .. scenario.faults /\ scenario.faults \in Nat
      BY ScreenTyped DEF ScreenInv
    <2>2. CASE failures' = failures
      BY <2>1, <2>2
    <2>3. CASE Screen!Fault
      BY <2>1, <2>3, ScreenFault
    <2> QED
      BY <2>2, <2>3
  <1>4. socket' \in [Devices -> {"open", "broken", "reopened"}]
    BY ScreenTyped DEF ScreenInv
  <1> QED
    BY <1>2, <1>3, <1>4, QuietStep

LEMMA ServeKeeps ==
    ASSUME ScreenInv, NEW r \in requests, Screen!Serve(r)
    PROVE  ScreenInv'
  <1>1. PICK n : n = Screen!After(r)
    OBVIOUS
  <1>2. /\ requests' = requests \ {r} /\ row' = [row EXCEPT ![r.call] = n]
        /\ UNCHANGED <<scenario, screen, socket, inbox, leaked, failures, strayed>>
    BY <1>1 DEF Screen!Serve
  <1>3. r \in Events /\ r.call \in Calls /\ row \in [Calls -> CallRows]
    BY ThePageShows, ScreenTyped DEF Events, ScreenInv
  <1>4. CASE n = row[r.call]
    <2>1. row' = row
      BY <1>2, <1>3, <1>4
    <2>2. Screen!Reply(r, "no") /\ UNCHANGED relays
      BY <2>1 DEF Screen!Serve
    <2> QED
      BY <1>2, <1>3, <2>1, <2>2, NoKeeps
  <1>5. CASE n # row[r.call]
    <2>1. row' # row
      BY <1>2, <1>3, <1>5
    <2>2. relays' = relays \cup {r} /\ UNCHANGED tasks
      BY <2>1 DEF Screen!Serve
    <2> QED
      BY <1>1, <1>2, <1>5, <2>2, ServeChanges
  <1> QED
    BY <1>4, <1>5

LEMMA DropKeeps ==
    ASSUME ScreenInv, NEW r \in requests \cup relays, Screen!Drop(r)
    PROVE  ScreenInv'
  <1>1. r \in Events
    BY ScreenTyped DEF ScreenInv
  <1> QED
    BY <1>1, NoKeeps DEF Screen!Drop, Screen!server

LEMMA ReconnectKeeps ==
    ASSUME ScreenInv, NEW p \in Devices, Screen!Reconnect(p)
    PROVE  ScreenInv'
  <1>1. /\ socket' = [socket EXCEPT ![p] = "reopened"]
        /\ p \in scenario.open /\ socket[p] = "broken"
        /\ UNCHANGED <<scenario, screen, row, relays, inbox, leaked, strayed, tasks, requests, failures>>
    BY DEF Screen!Reconnect, Screen!server, Screen!client, Screen!Connected
  <1>2. /\ socket' \in [Devices -> {"open", "broken", "reopened"}]
        /\ \A q \in Devices : socket'[q] = "open" => socket[q] = "open"
    BY <1>1, ScreenTyped DEF ScreenInv
  <1>3. failures' # 0
    BY <1>1 DEF ScreenInv, EndIsHeard
  <1>4. failures' \in 0 .. scenario.faults /\ failures <= failures'
    BY <1>1, ThePageShows
  <1> QED
    BY <1>1, <1>2, <1>3, <1>4, NoAnswers, QuietStep

LEMMA ExpireKeeps ==
    ASSUME ScreenInv, NEW i \in Calls, Screen!Expire(i)
    PROVE  ScreenInv'
  <1> DEFINE c == row[i]
             n == [c EXCEPT !.status = IF c.status = "ringing" THEN "missed" ELSE "failed"]
  <1>1. /\ row' = [row EXCEPT ![i] = n] /\ c.status \in {"ringing", "accepted", "connecting"}
        /\ UNCHANGED <<scenario, screen, tasks, requests, leaked, strayed, relays, socket, inbox>>
        /\ failures' \in 0 .. scenario.faults /\ failures < failures'
    BY ScreenFault, ScreenTyped DEF Screen!Expire, Screen!client, ScreenInv
  <1>2. row \in [Calls -> CallRows] /\ c \in CallRows /\ RowOK(c)
    BY ScreenTyped DEF ScreenInv, RowsOK
  <1>3. /\ n \in CallRows /\ n.status \in Screen!Terminal /\ n.status \notin {"none", "ringing"}
        /\ n.caller = c.caller /\ n.device = c.device
    BY <1>1, <1>2 DEF CallRows, Screen!Terminal
  <1> HIDE DEF n
  <1>4. /\ row'[i] = n /\ \A j \in Calls : j # i => row'[j] = row[j]
        /\ row' \in [Calls -> CallRows]
    BY <1>1, <1>2, <1>3
  <1>5. RowOK(n)
    BY <1>1, <1>2, <1>3 DEF RowOK
  <1>6. RowsOK'
    <2>1. \A j \in Calls : row'[j] = row[j] \/ row'[j] = n
      BY <1>4
    <2> QED
      BY <1>5, <2>1 DEF ScreenInv, RowsOK, RowOK
  <1>7. \A j \in Calls : /\ row'[j].caller = row[j].caller /\ row'[j].device = row[j].device
                         /\ row'[j].status = "none" <=> row[j].status = "none"
                         /\ row[j].status \in Screen!Terminal \cup {"active"} => row'[j] = row[j]
    BY <1>1, <1>3, <1>4 DEF Screen!Terminal
  <1>8. RowsGoOn /\ Takers
    BY <1>1, <1>7 DEF RowsGoOn, Takers, InviteTold, AcceptTold
  <1>9. Births
    <2>1. \A j \in Calls : row[j].status = "none" => row[j].caller = None
      BY DEF ScreenInv, RowsOK, RowOK
    <2> QED
      BY <1>7, <2>1 DEF Births
  <1>10. ServerStep
    <2>1. /\ requests' \subseteq requests /\ relays' \subseteq Events
          /\ inbox' \in [Devices -> Seq(Events)]
          /\ socket' \in [Devices -> {"open", "broken", "reopened"}]
          /\ \A p \in Devices : socket'[p] = "open" => socket[p] = "open"
          /\ \A p \in Devices, j \in Calls : InviteTold(j) /\ NoInvite(p, j) => NoInvite(p, j)'
          /\ failures <= failures'
      BY <1>1, ThePageShows, ScreenTyped DEF ScreenInv, NoInvite
    <2> QED
      BY <1>1, <1>4, <1>6, <1>8, <1>9, <2>1, NoAnswers DEF ServerStep
  <1>11. EventsOK'
    <2>1. \A e \in relays' : EventOK(e)'
      BY <1>1, <1>10, EventsStay, ScreenTyped DEF ScreenInv, EventsOK
    <2>2. ASSUME NEW p \in Devices, NEW k \in 1 .. Len(inbox'[p]) PROVE ArrivalOK(p, inbox[p][k])'
      <3>1. PICK e : e = inbox[p][k]
        OBVIOUS
      <3>2. inbox[p] \in Seq(Events) /\ k \in 1 .. Len(inbox[p]) /\ inbox'[p][k] = e
        BY <1>1, <2>2, <3>1, ThePageShows
      <3>3. ArrivalOK(p, e)'
        BY <1>10, <3>1, <3>2, EventsStay DEF ScreenInv, EventsOK
      <3> QED
        BY <3>2, <3>3 DEF ArrivalOK, EventOK, InviteTold, AcceptTold
    <2> QED
      BY <2>1, <2>2 DEF EventsOK
  <1>12. InvitedOnce'
    BY <1>1 DEF ScreenInv, InvitedOnce
  <1>13. TakenIsHeard'
    BY <1>1, <1>7 DEF ScreenInv, TakenIsHeard, TakenElse, AcceptTold, Past, AcceptAhead, NoInvite, Waits
  <1>14. EndIsHeard'
    <2>1. failures' # 0
      BY <1>1, ScreenTyped DEF ScreenInv
    <2> QED
      BY <2>1 DEF EndIsHeard
  <1> QED
    BY <1>6, <1>10, <1>11, <1>12, <1>13, <1>14, ServerTypes, ServerWork, ServerInvited, ServerCalls
    DEF ScreenInv

LEMMA BreakKeeps ==
    ASSUME ScreenInv, NEW p \in Devices, Screen!Break(p)
    PROVE  ScreenInv'
  <1>1. /\ socket' = [socket EXCEPT ![p] = "broken"] /\ inbox' = [inbox EXCEPT ![p] = <<>>]
        /\ UNCHANGED <<scenario, screen, row, relays, leaked, strayed, tasks, requests>>
        /\ failures' \in 0 .. scenario.faults /\ failures < failures'
    BY ScreenFault DEF Screen!Break, Screen!server, Screen!client
  <1>2. /\ row \in [Calls -> CallRows] /\ relays \subseteq Events
        /\ inbox \in [Devices -> Seq(Events)]
        /\ socket \in [Devices -> {"open", "broken", "reopened"}]
    BY ScreenTyped DEF ScreenInv
  <1>3. /\ socket'[p] = "broken" /\ inbox'[p] = <<>>
        /\ \A q \in Devices : q # p => socket'[q] = socket[q] /\ inbox'[q] = inbox[q]
        /\ inbox' \in [Devices -> Seq(Events)]
        /\ socket' \in [Devices -> {"open", "broken", "reopened"}]
    <2>1. <<>> \in Seq(Events) /\ "broken" \in {"open", "broken", "reopened"}
      OBVIOUS
    <2> QED
      BY <1>1, <1>2, <2>1
  <1>4. \A k \in 1 .. Len(inbox'[p]) : FALSE
    BY <1>3
  <1>5. RowsOK' /\ RowsGoOn /\ Takers
    BY <1>1 DEF ScreenInv, RowsOK, RowsGoOn, InviteTold, AcceptTold, Takers
  <1>6. Births
    <2>1. \A i \in Calls : row[i].status = "none" => row[i].caller = None
      BY DEF ScreenInv, RowsOK, RowOK
    <2> QED
      BY <1>1, <2>1 DEF Births
  <1>7. ServerStep
    <2>1. \A q \in Devices, i \in Calls : NoInvite(q, i) => NoInvite(q, i)'
      BY <1>3, <1>4 DEF NoInvite
    <2>2. failures <= failures' /\ \A q \in Devices : socket'[q] = "open" => socket[q] = "open"
      BY <1>1, <1>3, ThePageShows
    <2> QED
      BY <1>1, <1>2, <1>3, <1>5, <1>6, <2>1, <2>2, NoAnswers DEF ServerStep
  <1>8. EventsOK'
    <2>1. ASSUME NEW q \in Devices, NEW k \in 1 .. Len(inbox'[q]) PROVE ArrivalOK(q, inbox[q][k])'
      <3>1. q # p /\ inbox'[q] = inbox[q]
        BY <1>3, <1>4, <2>1
      <3> QED
        BY <1>1, <2>1, <3>1 DEF ScreenInv, EventsOK, ArrivalOK, EventOK, InviteTold, AcceptTold
    <2> QED
      BY <1>1, <2>1 DEF ScreenInv, EventsOK, EventOK, AcceptTold
  <1>9. InvitedOnce'
    <2>1. ASSUME NEW q \in Devices, NEW j \in 1 .. Len(inbox'[q]), NEW k \in 1 .. Len(inbox'[q]),
                 inbox'[q][j].op = "invite", IsInvite(inbox'[q][k], inbox'[q][j].call)
          PROVE  j = k
      BY <1>3, <1>4, <2>1 DEF ScreenInv, InvitedOnce
    <2> QED
      BY <1>1, <2>1 DEF ScreenInv, InvitedOnce
  <1>10. TakenIsHeard'
    <2> SUFFICES ASSUME NEW q \in Devices, NEW i \in Calls, TakenElse(q, i)'
                 PROVE  Past(q, i)' \/ AcceptAhead(q, i)'
      BY DEF TakenIsHeard
    <2>1. q # p /\ TakenElse(q, i)
      BY <1>1, <1>3 DEF TakenElse, AcceptTold
    <2>2. Past(q, i) \/ AcceptAhead(q, i)
      BY <2>1 DEF ScreenInv, TakenIsHeard
    <2> QED
      BY <1>1, <1>3, <2>1, <2>2 DEF Past, AcceptAhead, NoInvite, Waits
  <1>11. EndIsHeard'
    <2>1. failures' # 0
      BY <1>1, ThePageShows
    <2> QED
      BY <2>1 DEF EndIsHeard
  <1> QED
    BY <1>5, <1>7, <1>8, <1>9, <1>10, <1>11, ServerTypes, ServerWork, ServerInvited, ServerCalls
    DEF ScreenInv

\* An inbox when e has been broadcast.
Grows(p, e) ==
    LET n == Len(inbox[p]) IN
    /\ inbox'[p] \in Seq(Events) /\ n \in Nat
    /\ \A k \in 1 .. n : k \in 1 .. Len(inbox'[p]) /\ inbox'[p][k] = inbox[p][k]
    /\ \A k \in 1 .. Len(inbox'[p]) :
         \/ k \in 1 .. n
         \/ k = n + 1 /\ inbox'[p][k] = e /\ p \in Screen!Audience(e) /\ Screen!Connected(p)
    /\ p \in Screen!Audience(e) /\ Screen!Connected(p) =>
         n + 1 \in 1 .. Len(inbox'[p]) /\ inbox'[p][n + 1] = e

LEMMA BroadcastGrows ==
    ASSUME ScreenInv, NEW e \in relays, Screen!Broadcast(e), NEW p \in Devices
    PROVE  Grows(p, e)
  <1>1. inbox[p] \in Seq(Events) /\ e \in Events /\ Len(inbox[p]) \in Nat
    BY ScreenTyped DEF ScreenInv
  <1>2. CASE p \in Screen!Audience(e) /\ Screen!Connected(p)
    <2>1. inbox'[p] = Append(inbox[p], e)
      BY <1>2 DEF Screen!Broadcast
    <2>2. /\ Append(inbox[p], e) \in Seq(Events) /\ Len(inbox'[p]) = Len(inbox[p]) + 1
          /\ inbox'[p][Len(inbox[p]) + 1] = e
          /\ \A k \in 1 .. Len(inbox[p]) : inbox'[p][k] = inbox[p][k]
      BY <1>1, <2>1, LongerByOne
    <2>3. \A k \in 1 .. Len(inbox'[p]) : k \in 1 .. Len(inbox[p]) \/ k = Len(inbox[p]) + 1
      BY <1>1, <2>2
    <2>4. /\ Len(inbox[p]) + 1 \in 1 .. Len(inbox'[p])
          /\ \A k \in 1 .. Len(inbox[p]) : k \in 1 .. Len(inbox'[p])
      BY <1>1, <2>2
    <2> QED
      BY <1>1, <1>2, <2>1, <2>2, <2>3, <2>4 DEF Grows
  <1>3. CASE ~(p \in Screen!Audience(e) /\ Screen!Connected(p))
    <2>1. inbox'[p] = inbox[p]
      BY <1>3 DEF Screen!Broadcast
    <2> QED
      BY <1>1, <1>3, <2>1 DEF Grows
  <1> QED
    BY <1>2, <1>3

LEMMA BroadcastSteps ==
    ASSUME ScreenInv, NEW e \in relays, Screen!Broadcast(e)
    PROVE  ServerStep
  <1>1. /\ relays' = relays \ {e} /\ Screen!Reply(e, "ok")
        /\ UNCHANGED <<scenario, row, screen, requests, socket, leaked, failures, strayed>>
        /\ e \in Events /\ EventOK(e) /\ relays \subseteq Events
    BY ScreenTyped DEF Screen!Broadcast, ScreenInv, EventsOK
  <1>2. Answers
    <2>1. Replies(e, "ok") /\ e.op \in Ops
      BY <1>1, ReplyReplies DEF Events
    <2> SUFFICES ASSUME NEW u \in tasks'
                 PROVE  \E t \in tasks :
                   /\ u \in TaskRecords /\ u.page = t.page /\ u.call = t.call /\ u.step = t.step
                   /\ \/ u = t
                      \/ /\ u.step \in Ops
                         /\ (u.step = "accept" /\ u.reply = "ok") => row[u.call].device = u.page
      BY DEF Answers
    <2>2. PICK t \in tasks :
            /\ u \in TaskRecords /\ u.page = t.page /\ u.call = t.call /\ u.step = t.step
            /\ \/ u = t
               \/ u.step = e.op /\ u.page = e.page /\ u.call = e.call /\ u.reply = "ok"
      BY <2>1 DEF Replies
    <2> QED
      BY <1>1, <2>1, <2>2 DEF EventOK
  <1>3. RowsOK' /\ RowsGoOn /\ Takers
    BY <1>1 DEF ScreenInv, RowsOK, RowsGoOn, InviteTold, AcceptTold, Takers
  <1>4. Births
    <2>1. \A i \in Calls : row[i].status = "none" => row[i].caller = None
      BY DEF ScreenInv, RowsOK, RowOK
    <2> QED
      BY <1>1, <2>1 DEF Births
  <1>5. ASSUME NEW p \in Devices, NEW i \in Calls, InviteTold(i), NoInvite(p, i)
        PROVE  NoInvite(p, i)'
    <2>1. Grows(p, e) /\ ~IsInvite(e, i)
      BY <1>5, BroadcastGrows DEF InviteTold
    <2> QED
      BY <1>5, <2>1 DEF Grows, NoInvite
  <1>6. inbox' \in [Devices -> Seq(Events)]
    <2>1. \A p \in Devices : inbox'[p] \in Seq(Events)
      BY BroadcastGrows DEF Grows
    <2> QED
      BY <2>1 DEF Screen!Broadcast
  <1>7. /\ row' \in [Calls -> CallRows] /\ relays' \subseteq Events /\ requests' \subseteq requests
        /\ failures' \in 0 .. scenario.faults /\ failures <= failures'
        /\ socket' \in [Devices -> {"open", "broken", "reopened"}]
        /\ \A p \in Devices : socket'[p] = "open" => socket[p] = "open"
    BY <1>1, ScreenTyped DEF ScreenInv
  <1> QED
    BY <1>1, <1>2, <1>3, <1>4, <1>5, <1>6, <1>7 DEF ServerStep

\* What e says has been told when it arrives.
LEMMA BroadcastTells ==
    ASSUME ScreenInv, NEW e \in relays, Screen!Broadcast(e), NEW p \in Screen!Audience(e)
    PROVE  ArrivalOK(p, e)'
  <1>1. /\ relays' = relays \ {e} /\ UNCHANGED row /\ e \in Events /\ relays \subseteq Events
        /\ EventOK(e) /\ \A f \in relays : EventOK(f)
        /\ e.page \in Devices /\ e.page # None
    BY ScreenTyped, ScreenNames DEF Screen!Broadcast, ScreenInv, EventsOK, Events
  <1>2. EventOK(e)'
    BY <1>1, BroadcastSteps, EventsStay
  <1>3. p # e.page /\ (e.op \in {"invite", "offer", "answer"} => UserOf[p] # UserOf[e.page])
    BY DEF Screen!Audience
  <1>4. e.op = "invite" => InviteTold(e.call)'
    BY <1>1 DEF ScreenInv, InvitedOnce, InviteTold, IsInvite, EventOK
  <1>5. e.op = "accept" => AcceptTold(e.call)'
    <2> SUFFICES ASSUME e.op = "accept", NEW f \in relays, IsAccept(f, e.call) PROVE f = e
      BY <1>1 DEF AcceptTold, EventOK
    <2>1. f.op = e.op /\ f.call = e.call /\ f.page = e.page
      BY <1>1 DEF IsAccept, EventOK
    <2>2. f \in Events /\ e \in Events
      BY <1>1
    <2> QED
      BY <2>1, <2>2 DEF Events
  <1>6. e.op \in {"invite", "offer"} => row'[e.call].caller # UserOf[p]
    BY <1>1, <1>3 DEF EventOK
  <1> QED
    BY <1>2, <1>3, <1>4, <1>5, <1>6 DEF ArrivalOK

LEMMA BroadcastKeeps ==
    ASSUME ScreenInv, NEW e \in relays, Screen!Broadcast(e)
    PROVE  ScreenInv'
  <1>1. /\ relays' = relays \ {e}
        /\ UNCHANGED <<scenario, row, screen, requests, socket, leaked, failures, strayed>>
        /\ e \in Events /\ e.call \in Calls /\ EventOK(e) /\ e.page # None /\ ServerStep
    BY ScreenTyped, ScreenNames, BroadcastSteps DEF Screen!Broadcast, ScreenInv, EventsOK, Events
  <1>2. \A p \in Devices : Grows(p, e)
    BY BroadcastGrows
  <1>3. ASSUME NEW p \in Devices, NEW k \in 1 .. Len(inbox[p])
        PROVE  inbox[p][k] \in Events /\ ArrivalOK(p, inbox[p][k])
    <2>1. inbox[p] \in Seq(Events)
      BY ScreenTyped DEF ScreenInv
    <2> QED
      BY <1>3, <2>1 DEF ScreenInv, EventsOK
  <1>4. EventsOK'
    <2>1. \A f \in relays' : EventOK(f)'
      BY <1>1, EventsStay, ScreenTyped DEF ScreenInv, EventsOK
    <2>2. ASSUME NEW p \in Devices, NEW k \in 1 .. Len(inbox'[p]) PROVE ArrivalOK(p, inbox[p][k])'
      <3>1. PICK f : f = inbox'[p][k]
        OBVIOUS
      <3>2. ArrivalOK(p, f)'
        <4>1. CASE k \in 1 .. Len(inbox[p])
          <5>1. f = inbox[p][k]
            BY <1>2, <3>1, <4>1 DEF Grows
          <5>2. f \in Events /\ ArrivalOK(p, f)
            BY <1>3, <4>1, <5>1
          <5> QED
            BY <1>1, <5>2, EventsStay
        <4>2. CASE k \notin 1 .. Len(inbox[p])
          <5>1. f = e /\ p \in Screen!Audience(e)
            BY <1>2, <2>2, <3>1, <4>2 DEF Grows
          <5>2. ArrivalOK(p, e)'
            BY <5>1, BroadcastTells
          <5> QED
            BY <5>1, <5>2
        <4> QED
          BY <4>1, <4>2
      <3> QED
        BY <3>1, <3>2 DEF ArrivalOK, EventOK, InviteTold, AcceptTold
    <2> QED
      BY <2>1, <2>2 DEF EventsOK
  <1>5. InvitedOnce'
    <2>1. \A f, g \in relays' : (f.op = "invite" /\ IsInvite(g, f.call)) => f = g
      BY <1>1 DEF ScreenInv, InvitedOnce
    <2>2. ASSUME NEW p \in Devices, NEW k \in 1 .. Len(inbox[p]), IsInvite(inbox[p][k], e.call)
          PROVE  e.op # "invite"
      BY <1>3, <2>2 DEF ArrivalOK, InviteTold, IsInvite
    <2>3. ASSUME NEW p \in Devices, NEW j \in 1 .. Len(inbox'[p]), NEW k \in 1 .. Len(inbox'[p]),
                 inbox'[p][j].op = "invite", IsInvite(inbox'[p][k], inbox'[p][j].call)
          PROVE  j = k
      <3>1. Grows(p, e)
        BY <1>2
      <3>2. CASE j \in 1 .. Len(inbox[p]) /\ k \in 1 .. Len(inbox[p])
        <4>1. inbox'[p][j] = inbox[p][j] /\ inbox'[p][k] = inbox[p][k]
          BY <3>1, <3>2 DEF Grows
        <4> QED
          BY <2>3, <3>2, <4>1 DEF ScreenInv, InvitedOnce
      <3>3. CASE j \in 1 .. Len(inbox[p]) /\ k \notin 1 .. Len(inbox[p])
        <4>1. inbox'[p][j] = inbox[p][j] /\ inbox'[p][k] = e
          BY <2>3, <3>1, <3>3 DEF Grows
        <4> QED
          BY <2>2, <2>3, <3>3, <4>1 DEF IsInvite
      <3>4. CASE j \notin 1 .. Len(inbox[p]) /\ k \in 1 .. Len(inbox[p])
        <4>1. inbox'[p][j] = e /\ inbox'[p][k] = inbox[p][k]
          BY <2>3, <3>1, <3>4 DEF Grows
        <4> QED
          BY <2>2, <2>3, <3>4, <4>1 DEF IsInvite
      <3>5. CASE j \notin 1 .. Len(inbox[p]) /\ k \notin 1 .. Len(inbox[p])
        BY <2>3, <3>1, <3>5 DEF Grows
      <3> QED
        BY <3>2, <3>3, <3>4, <3>5
    <2> QED
      BY <2>1, <2>3 DEF InvitedOnce
  <1>6. TakenIsHeard'
    <2> SUFFICES ASSUME NEW p \in Devices, NEW i \in Calls, TakenElse(p, i)'
                 PROVE  Past(p, i)' \/ AcceptAhead(p, i)'
      BY DEF TakenIsHeard
    <2>1. Grows(p, e)
      BY <1>2
    <2>2. /\ row[i].device \in Devices /\ row[i].device # None /\ InviteTold(i)
          /\ row[i].caller # UserOf[p] /\ row[i].device # p /\ socket[p] = "open"
      <3>1. /\ row[i].device # None /\ row[i].device \in Devices \cup {None}
            /\ row[i].caller # UserOf[p] /\ row[i].device # p /\ socket[p] = "open"
        BY <1>1, ScreenTyped DEF TakenElse, AcceptTold, ScreenInv, CallRows
      <3> QED
        BY <3>1 DEF ScreenInv, InvitedOK
    <2>3. ~IsInvite(e, i)
      BY <2>2 DEF InviteTold
    <2>4. CASE IsAccept(e, i)
      <3>1. e.page = row[i].device /\ e.call = i
        BY <1>1, <2>4 DEF EventOK, IsAccept
      <3>2. p \in Screen!Audience(e) /\ Screen!Connected(p)
        BY <2>2, <2>4, <3>1 DEF Screen!Audience, Screen!Connected, IsAccept
      <3>3. Len(inbox[p]) + 1 \in 1 .. Len(inbox'[p]) /\ inbox'[p][Len(inbox[p]) + 1] = e
        BY <2>1, <3>2 DEF Grows
      <3>4. ~AcceptTold(i)
        BY <2>4 DEF AcceptTold
      <3>5. ASSUME NEW j \in 1 .. Len(inbox'[p]), j < Len(inbox[p]) + 1
            PROVE  ~IsOffer(inbox'[p][j], i)
        <4>1. j \in 1 .. Len(inbox[p]) /\ inbox'[p][j] = inbox[p][j]
          BY <2>1, <3>5 DEF Grows
        <4> QED
          BY <1>3, <3>4, <4>1 DEF ArrivalOK, EventOK, IsOffer
      <3>6. \A j \in 1 .. Len(inbox'[p]) : ~(j > Len(inbox[p]) + 1)
        BY <2>1 DEF Grows
      <3> QED
        BY <2>4, <3>3, <3>5, <3>6 DEF AcceptAhead
    <2>5. CASE ~IsAccept(e, i)
      <3>1. TakenElse(p, i)
        BY <1>1, <2>2, <2>5 DEF TakenElse, AcceptTold
      <3>2. CASE Past(p, i)
        BY <1>1, <2>1, <2>3, <3>2 DEF Past, Grows, NoInvite, Waits
      <3>3. CASE AcceptAhead(p, i)
        <4>1. PICK k \in 1 .. Len(inbox[p]) :
                /\ IsAccept(inbox[p][k], i)
                /\ \A j \in 1 .. Len(inbox[p]) :
                     /\ j < k => ~IsOffer(inbox[p][j], i)
                     /\ j > k => ~IsInvite(inbox[p][j], i)
          BY <3>3 DEF AcceptAhead
        <4>2. k \in 1 .. Len(inbox'[p]) /\ IsAccept(inbox'[p][k], i)
          BY <2>1, <4>1 DEF Grows
        <4>3. ASSUME NEW j \in 1 .. Len(inbox'[p])
              PROVE  /\ j < k => ~IsOffer(inbox'[p][j], i)
                     /\ j > k => ~IsInvite(inbox'[p][j], i)
          <5>1. CASE j \in 1 .. Len(inbox[p])
            BY <2>1, <4>1, <5>1 DEF Grows
          <5>2. CASE j \notin 1 .. Len(inbox[p])
            <6>1. j = Len(inbox[p]) + 1 /\ inbox'[p][j] = e /\ Len(inbox[p]) \in Nat
              BY <2>1, <4>3, <5>2 DEF Grows
            <6>2. ~(j < k)
              BY <4>1, <6>1
            <6> QED
              BY <2>3, <6>1, <6>2
          <5> QED
            BY <5>1, <5>2
        <4> QED
          BY <4>2, <4>3 DEF AcceptAhead
      <3> QED
        BY <3>1, <3>2, <3>3 DEF ScreenInv, TakenIsHeard
    <2> QED
      BY <2>4, <2>5
  <1>7. EndIsHeard'
    <2> SUFFICES ASSUME failures' = 0 PROVE EndIsHeard'
      BY DEF EndIsHeard
    <2>1. \A p \in Devices :
            IF p \in scenario.open THEN socket[p] = "open"
            ELSE socket[p] = "broken" /\ inbox[p] = <<>> /\ screen[p].call = None
      BY <1>1 DEF ScreenInv, EndIsHeard
    <2>2. \A p \in Devices : socket[p] = "broken" => inbox'[p] = inbox[p]
      BY DEF Screen!Broadcast, Screen!Connected
    <2>3. ASSUME NEW p \in Devices \ strayed', Overdue(p)'
          PROVE  EndingComes(p, screen[p].call)'
      <3>1. EndingComes(p, screen[p].call) /\ screen[p].call # None /\ p \in Devices
        BY <1>1, <2>3 DEF ScreenInv, EndIsHeard, Overdue
      <3>2. PICK i : i = screen[p].call
        OBVIOUS
      <3>3. CASE \E k \in 1 .. Len(inbox[p]) : Ends(inbox[p][k], i)
        BY <1>1, <1>2, <3>2, <3>3 DEF Grows, EndingComes
      <3>4. CASE \E f \in relays : f # e /\ Ends(f, i) /\ f.page # p
        BY <1>1, <3>2, <3>4 DEF EndingComes
      <3>5. CASE Ends(e, i) /\ e.page # p
        <4>1. Screen!Connected(p)
          BY <2>1, <3>1 DEF Screen!Connected
        <4>2. p \in Screen!Audience(e)
          BY <3>1, <3>5 DEF Screen!Audience, Ends, EndOps
        <4>3. Len(inbox[p]) + 1 \in 1 .. Len(inbox'[p]) /\ inbox'[p][Len(inbox[p]) + 1] = e
          BY <1>2, <3>1, <4>1, <4>2 DEF Grows
        <4> QED
          BY <1>1, <3>2, <3>5, <4>3 DEF EndingComes
      <3> QED
        BY <3>1, <3>2, <3>3, <3>4, <3>5 DEF EndingComes
    <2> QED
      BY <1>1, <2>1, <2>2, <2>3 DEF EndIsHeard
  <1> QED
    BY <1>1, <1>4, <1>5, <1>6, <1>7, ServerTypes, ServerWork, ServerInvited, ServerCalls, ScreenTyped
    DEF ScreenInv, ServerStep

-----------------------------------------------------------------------------
(* Calling: every step.                                                      *)

\* A step of a page, or of the handlers in it.
LEMMA PagesKeep ==
    ASSUME ScreenInv,
           \/ \E p \in Devices : \/ Screen!UserActs(p) \/ Screen!Receive(p)
                                 \/ Screen!Fire(p) \/ Screen!PeerFails(p)
           \/ \E t \in tasks : \/ Screen!GotMedia(t) \/ Screen!Invited(t) \/ Screen!Accepted(t)
                               \/ Screen!Prepared(t) \/ Screen!Offered(t) \/ Screen!TookOffer(t)
                               \/ Screen!Answered(t)
    PROVE  ScreenInv'
  <1>1. ASSUME NEW p \in Devices, Screen!UserActs(p) PROVE \E x : PageStep(p, x)
    BY <1>1, StartPage, AcceptPage, RejectPage, HangUpPage, ReconcilePage DEF Screen!UserActs
  <1>2. ASSUME NEW p \in Devices, Screen!Receive(p) PROVE \E x : PageStep(p, x)
    BY <1>2, SeeInvitePage, SeeAcceptPage, SeeEndPage, SeeOfferPage, SeeAnswerPage
    DEF Screen!Receive
  <1>3. ASSUME NEW p \in Devices, Screen!Fire(p) \/ Screen!PeerFails(p) PROVE \E x : PageStep(p, x)
    BY <1>3, FirePage, PeerFailsPage
  <1>4. ASSUME NEW t \in tasks, \/ Screen!GotMedia(t) \/ Screen!Invited(t) \/ Screen!Accepted(t)
                                \/ Screen!Prepared(t) \/ Screen!Offered(t) \/ Screen!TookOffer(t)
                                \/ Screen!Answered(t)
        PROVE  \E p \in Devices : \E x : PageStep(p, x)
    BY <1>4, GotMediaPage, InvitedPage, AcceptedPage, PreparedPage, OfferedPage, TookOfferPage,
       AnsweredPage
  <1>5. \E p \in Devices : \E x : PageStep(p, x)
    BY <1>1, <1>2, <1>3, <1>4
  <1> QED
    BY <1>5, PageKeeps

LEMMA ScreenRests == ASSUME ScreenInv, UNCHANGED screenVars PROVE ScreenInv'
  <1>1. failures' \in 0 .. scenario.faults /\ failures <= failures'
    BY ScreenTyped DEF ScreenInv, screenVars
  <1>2. socket' \in [Devices -> {"open", "broken", "reopened"}]
    BY ScreenTyped DEF ScreenInv, screenVars
  <1> QED
    BY <1>1, <1>2, NoAnswers, QuietStep DEF screenVars

LEMMA ScreenSteps == ASSUME ScreenInv, [Next]_vars PROVE ScreenInv'
  <1>1. CASE ScreenNext
    <2>1. Screen!Next
      BY <1>1 DEF ScreenNext
    <2> QED
      BY <2>1, PagesKeep, BreakKeeps, ReconnectKeeps, ServeKeeps, DropKeeps, BroadcastKeeps, ExpireKeeps
      DEF Screen!Next
  <1>2. CASE SyncNext \/ OutboxNext \/ UNCHANGED vars
    BY <1>2, ScreenRests DEF SyncNext, OutboxNext, vars
  <1> QED
    BY <1>1, <1>2 DEF Next

LEMMA ScreenInvHolds == Spec => []ScreenInv
  BY ScreenInit, ScreenSteps, PTL DEF Spec

\* What was on its way has arrived: nothing announces the end of a call any more.
LEMMA EndIsShown == ASSUME ScreenInv PROVE Screen!EndedIsOff
  <1> SUFFICES ASSUME Screen!Settled, failures = 0, NEW p \in Devices \ strayed, inbox[p] = <<>>,
                      Screen!Shows(p, {"outgoing", "connecting", "active"}),
                      row[screen[p].call].status \in Screen!Terminal
               PROVE  FALSE
    BY DEF Screen!EndedIsOff
  <1>1. Overdue(p)
    BY DEF Overdue, Screen!Shows
  <1>2. EndingComes(p, screen[p].call)
    BY <1>1 DEF ScreenInv, EndIsHeard
  <1>3. Len(inbox[p]) = 0
    OBVIOUS
  <1> QED
    BY <1>2, <1>3 DEF EndingComes, Screen!Settled

\* The call screen of the web client tells the truth: a page connects only if its
\* device took the call (the accept of another one reaches it before any offer, and
\* callMatchesEvent keeps it from heeding events of other calls), a caller talks
\* only once the callee answered, and a call that ended, as the event of
\* rejectIncomingCall, endOrCancelCall or startCallTimeout told everybody, is not
\* shown as a conversation when all events were handled and nothing failed.
THEOREM ScreensAreRight == Spec => []ScreensHold
  <1>1. ScreenInv => ScreensHold
    BY EndIsShown DEF ScreensHold, ScreenInv
  <1> QED
    BY <1>1, ScreenInvHolds, PTL

-----------------------------------------------------------------------------
(* Calling: what the call service promised.                                  *)

ScreenPhase   == [i \in Calls |-> Screen!Phase(row[i].status)]
ScreenHolder  == [i \in Calls |-> row[i].device]
ScreenOutcome == [i \in Calls |-> IF row[i].status \in Screen!Terminal THEN row[i].status ELSE None]

\* How the row of a call goes on.
RowMoved(c, n) ==
    \/ c.status = "none" /\ n.status = "ringing" /\ n.device = c.device
    \/ c.status = "ringing" /\ n.status = "accepted" /\ n.device \in Devices
    \/ c.status = "accepted" /\ n.status = "connecting" /\ n.device = c.device
    \/ c.status = "connecting" /\ n.status = "active" /\ n.device = c.device
    \/ /\ c.status \in {"ringing", "accepted", "connecting", "active"}
       /\ n.status \in Screen!Terminal /\ n.device = c.device

\* At most one row changes, and goes on.
RowMoves == UNCHANGED row \/ \E i \in Calls : \E n : row' = [row EXCEPT ![i] = n] /\ RowMoved(row[i], n)

LEMMA AfterMoves ==
    ASSUME ScreenInv, NEW r \in requests, NEW n, n = Screen!After(r), n # row[r.call]
    PROVE  RowMoved(row[r.call], n)
  <1> DEFINE c == row[r.call]
  <1>1. /\ r \in Events /\ r.op \in Ops /\ r.page \in Devices /\ r.call \in Calls
        /\ c \in CallRows /\ RowOK(c)
    BY ScreenTyped, ThePageShows DEF ScreenInv, RowsOK, Events
  <1> USE DEF Screen!Terminal, Screen!IsCaller, Screen!IsCallee, RowMoved
  <1>2. CASE r.op = "invite"
    <2>1. c.status = "none" /\ n = [status |-> "ringing", caller |-> UserOf[r.page], device |-> None]
      BY <1>2 DEF Screen!After, Screen!NoRow
    <2>2. c.device = None
      BY <1>1, <2>1, ScreenTyped DEF RowOK, CallRows
    <2> QED
      BY <2>1, <2>2
  <1>3. CASE r.op = "accept"
    <2>1. c.status = "ringing" /\ n = [c EXCEPT !.status = "accepted", !.device = r.page]
      BY <1>3 DEF Screen!After
    <2> QED
      BY <1>1, <2>1 DEF CallRows
  <1>4. CASE r.op \in {"reject", "busy"}
    <2>1. c.status = "ringing" /\ n = [c EXCEPT !.status = r.op]
      BY <1>4 DEF Screen!After
    <2> QED
      BY <1>1, <1>4, <2>1 DEF CallRows
  <1>5. CASE r.op = "cancel"
    <2>1. c.status \in {"ringing", "accepted", "connecting"} /\ n = [c EXCEPT !.status = "canceled"]
      BY <1>5 DEF Screen!After
    <2> QED
      BY <1>1, <2>1 DEF CallRows
  <1>6. CASE r.op = "end"
    <2>1. /\ c.status \in {"accepted", "connecting", "active"}
          /\ n = [c EXCEPT !.status = IF c.status = "active" THEN "completed" ELSE "failed"]
      BY <1>6 DEF Screen!After
    <2> QED
      BY <1>1, <2>1 DEF CallRows
  <1>7. CASE r.op = "offer"
    <2>1. c.status = "accepted" /\ n = [c EXCEPT !.status = "connecting"]
      BY <1>7 DEF Screen!After
    <2> QED
      BY <1>1, <2>1 DEF CallRows
  <1>8. CASE r.op = "answer"
    <2>1. c.status = "connecting" /\ n = [c EXCEPT !.status = "active"]
      BY <1>8 DEF Screen!After
    <2> QED
      BY <1>1, <2>1 DEF CallRows
  <1> QED
    BY <1>1, <1>2, <1>3, <1>4, <1>5, <1>6, <1>7, <1>8 DEF Ops

LEMMA ServeMoves == ASSUME ScreenInv, NEW r \in requests, Screen!Serve(r) PROVE RowMoves
  <1>1. PICK n : n = Screen!After(r)
    OBVIOUS
  <1>2. row' = [row EXCEPT ![r.call] = n] /\ r.call \in Calls /\ row \in [Calls -> CallRows]
    BY <1>1, ThePageShows, ScreenTyped DEF Screen!Serve, Events, ScreenInv
  <1>3. CASE n = row[r.call]
    BY <1>2, <1>3 DEF RowMoves
  <1>4. CASE n # row[r.call]
    BY <1>1, <1>2, <1>4, AfterMoves DEF RowMoves
  <1> QED
    BY <1>3, <1>4

LEMMA ExpireMoves == ASSUME ScreenInv, NEW i \in Calls, Screen!Expire(i) PROVE RowMoves
  <1>1. PICK n : n = [row[i] EXCEPT !.status = IF @ = "ringing" THEN "missed" ELSE "failed"]
    OBVIOUS
  <1>2. /\ row[i].status \in {"ringing", "accepted", "connecting"}
        /\ row' = [row EXCEPT ![i] = n] /\ row[i] \in CallRows
    BY <1>1, ScreenTyped DEF Screen!Expire, ScreenInv
  <1>3. n.status \in {"missed", "failed"} /\ n.device = row[i].device
    BY <1>1, <1>2 DEF CallRows
  <1>4. RowMoved(row[i], n)
    BY <1>2, <1>3 DEF RowMoved, Screen!Terminal
  <1> QED
    BY <1>2, <1>4 DEF RowMoves

LEMMA ScreenMoves == ASSUME ScreenInv, [Next]_vars PROVE RowMoves
  <1>1. CASE ScreenNext
    <2>1. ASSUME NEW p \in Devices, \/ Screen!UserActs(p) \/ Screen!Receive(p)
                                    \/ Screen!Fire(p) \/ Screen!PeerFails(p)
                                    \/ Screen!Break(p) \/ Screen!Reconnect(p)
          PROVE  UNCHANGED row
      BY <2>1
      DEF Screen!UserActs, Screen!Start, Screen!Accept, Screen!Reject, Screen!HangUp,
          Screen!Reconcile, Screen!Receive, Screen!SeeInvite, Screen!SeeAccept, Screen!SeeEnd,
          Screen!SeeOffer, Screen!SeeAnswer, Screen!Arrives, Screen!Fire, Screen!PeerFails,
          Screen!Break, Screen!Reconnect, Screen!server
    <2>2. ASSUME NEW t \in tasks, \/ Screen!GotMedia(t) \/ Screen!Invited(t) \/ Screen!Accepted(t)
                                  \/ Screen!Prepared(t) \/ Screen!Offered(t) \/ Screen!TookOffer(t)
                                  \/ Screen!Answered(t)
          PROVE  UNCHANGED row
      BY <2>2
      DEF Screen!GotMedia, Screen!Invited, Screen!Accepted, Screen!Prepared, Screen!Offered,
          Screen!TookOffer, Screen!Answered, Screen!server
    <2>3. ASSUME NEW r \in requests \cup relays, Screen!Drop(r) PROVE UNCHANGED row
      BY <2>3 DEF Screen!Drop, Screen!server
    <2>4. ASSUME NEW e \in relays, Screen!Broadcast(e) PROVE UNCHANGED row
      BY <2>4 DEF Screen!Broadcast
    <2>5. UNCHANGED row => RowMoves
      BY DEF RowMoves
    <2>6. Screen!Next
      BY <1>1 DEF ScreenNext
    <2> QED
      BY <2>1, <2>2, <2>3, <2>4, <2>5, <2>6, ServeMoves, ExpireMoves DEF Screen!Next
  <1>2. CASE SyncNext \/ OutboxNext \/ UNCHANGED vars
    BY <1>2 DEF SyncNext, OutboxNext, vars, screenVars, RowMoves
  <1> QED
    BY <1>1, <1>2 DEF Next

LEMMA MovesAreLife ==
    ASSUME ScreenInv, RowMoves
    PROVE  Screen!Lifecycle!Next \/ UNCHANGED <<ScreenPhase, ScreenHolder, ScreenOutcome>>
  <1>1. CASE UNCHANGED row
    BY <1>1 DEF ScreenPhase, ScreenHolder, ScreenOutcome
  <1>2. ASSUME NEW i \in Calls, NEW n, row' = [row EXCEPT ![i] = n], RowMoved(row[i], n)
        PROVE  Screen!Lifecycle!Next \/ UNCHANGED <<ScreenPhase, ScreenHolder, ScreenOutcome>>
    <2> DEFINE c == row[i]
    <2>1. row'[i] = n /\ \A j \in Calls : j # i => row'[j] = row[j]
      BY <1>2, ScreenTyped DEF ScreenInv
    <2>2. /\ ScreenPhase' = [ScreenPhase EXCEPT ![i] = Screen!Phase(n.status)]
          /\ ScreenHolder' = [ScreenHolder EXCEPT ![i] = n.device]
          /\ ScreenOutcome' = [ScreenOutcome EXCEPT ![i] =
                                 IF n.status \in Screen!Terminal THEN n.status ELSE None]
      BY <2>1 DEF ScreenPhase, ScreenHolder, ScreenOutcome
    <2>3. /\ ScreenPhase[i] = Screen!Phase(c.status) /\ ScreenHolder[i] = c.device
          /\ ScreenOutcome[i] = IF c.status \in Screen!Terminal THEN c.status ELSE None
      BY DEF ScreenPhase, ScreenHolder, ScreenOutcome
    <2>4. /\ ScreenPhase = [j \in Calls |-> ScreenPhase[j]]
          /\ ScreenHolder = [j \in Calls |-> ScreenHolder[j]]
          /\ ScreenOutcome = [j \in Calls |-> ScreenOutcome[j]]
      BY DEF ScreenPhase, ScreenHolder, ScreenOutcome
    <2>5. \A x \in {"none", "ringing"} : Screen!Phase(x) = x /\ x \notin Screen!Terminal
      BY DEF Screen!Phase, Screen!Terminal
    <2>6. \A x \in {"accepted", "connecting"} : Screen!Phase(x) = "taken" /\ x \notin Screen!Terminal
      BY DEF Screen!Phase, Screen!Terminal
    <2>7. Screen!Phase("active") = "connected" /\ "active" \notin Screen!Terminal
      BY DEF Screen!Phase, Screen!Terminal
    <2>8. \A x \in Screen!Terminal : Screen!Phase(x) = "over"
      BY DEF Screen!Phase, Screen!Terminal
    <2>9. CASE c.status = "none" /\ n.status = "ringing" /\ n.device = c.device
      <3>1. /\ ScreenPhase[i] = "none" /\ ScreenPhase' = [ScreenPhase EXCEPT ![i] = "ringing"]
            /\ UNCHANGED <<ScreenHolder, ScreenOutcome>>
        BY <2>2, <2>3, <2>4, <2>5, <2>9
      <3>2. Screen!Lifecycle!Ring(i)
        BY <3>1 DEF Screen!Lifecycle!Ring, ScreenPhase, ScreenHolder, ScreenOutcome
      <3> QED
        BY <3>2 DEF Screen!Lifecycle!Next
    <2>10. CASE c.status = "ringing" /\ n.status = "accepted" /\ n.device \in Devices
      <3>1. /\ ScreenPhase[i] = "ringing" /\ ScreenPhase' = [ScreenPhase EXCEPT ![i] = "taken"]
            /\ ScreenHolder' = [ScreenHolder EXCEPT ![i] = n.device]
            /\ UNCHANGED ScreenOutcome
        BY <2>2, <2>3, <2>4, <2>5, <2>6, <2>10
      <3>2. Screen!Lifecycle!Take(i, n.device)
        BY <3>1 DEF Screen!Lifecycle!Take, ScreenPhase, ScreenHolder, ScreenOutcome
      <3> QED
        BY <2>10, <3>2 DEF Screen!Lifecycle!Next
    <2>11. CASE c.status = "accepted" /\ n.status = "connecting" /\ n.device = c.device
      BY <2>2, <2>3, <2>4, <2>6, <2>11
    <2>12. CASE c.status = "connecting" /\ n.status = "active" /\ n.device = c.device
      <3>1. /\ ScreenPhase[i] = "taken" /\ ScreenPhase' = [ScreenPhase EXCEPT ![i] = "connected"]
            /\ UNCHANGED <<ScreenHolder, ScreenOutcome>>
        BY <2>2, <2>3, <2>4, <2>6, <2>7, <2>12
      <3>2. Screen!Lifecycle!Connect(i)
        BY <3>1 DEF Screen!Lifecycle!Connect, ScreenPhase, ScreenHolder, ScreenOutcome
      <3> QED
        BY <3>2 DEF Screen!Lifecycle!Next
    <2>13. CASE /\ c.status \in {"ringing", "accepted", "connecting", "active"}
                /\ n.status \in Screen!Terminal /\ n.device = c.device
      <3>1. /\ ScreenPhase[i] \in {"ringing", "taken", "connected"}
            /\ ScreenPhase' = [j \in Calls |-> IF j \in {i} THEN "over" ELSE ScreenPhase[j]]
            /\ ScreenOutcome'[i] \in Screen!Terminal
            /\ ScreenOutcome' = [j \in Calls |-> IF j \in {i} THEN ScreenOutcome'[j]
                                                                ELSE ScreenOutcome[j]]
            /\ UNCHANGED ScreenHolder
        <4>1. ScreenPhase[i] \in {"ringing", "taken", "connected"}
          BY <2>3, <2>5, <2>6, <2>7, <2>13
        <4>2. Screen!Phase(n.status) = "over"
          BY <2>8, <2>13
        <4> QED
          BY <2>2, <2>3, <2>4, <2>13, <4>1, <4>2
      <3>2. Screen!Lifecycle!End({i})
        BY <3>1 DEF Screen!Lifecycle!End, ScreenPhase, ScreenHolder, ScreenOutcome
      <3> QED
        BY <3>2 DEF Screen!Lifecycle!Next
    <2> QED
      BY <1>2, <2>9, <2>10, <2>11, <2>12, <2>13 DEF RowMoved
  <1> QED
    BY <1>1, <1>2 DEF RowMoves

\* Behind the pages the calls go the way that the call service promises: whatever the
\* pages ask for, in whatever order, a call rings once, one device takes it for good,
\* it is connected after that, and it ends once (the conditional updates behind
\* relayCallEvent, and the expiry).
THEOREM PagesKeepLifecycle == Spec => Screen!LifecycleIsKept
  <1>1. Init => Screen!Lifecycle!Init
    <2> SUFFICES ASSUME Screen!Init PROVE Screen!Lifecycle!Init
      BY DEF Init
    <2>1. \A i \in Calls : row[i].status = "none" /\ row[i].device = None
      BY DEF Screen!Init, Screen!NoRow
    <2>2. Screen!Phase("none") = "none" /\ "none" \notin Screen!Terminal
      BY DEF Screen!Phase, Screen!Terminal
    <2>3. /\ ScreenPhase = [i \in Calls |-> "none"] /\ ScreenHolder = [i \in Calls |-> None]
          /\ ScreenOutcome = [i \in Calls |-> None]
      BY <2>1, <2>2 DEF ScreenPhase, ScreenHolder, ScreenOutcome
    <2> QED
      BY <2>3 DEF Screen!Lifecycle!Init, ScreenPhase, ScreenHolder, ScreenOutcome
  <1>2. ScreenInv /\ [Next]_vars
          => [Screen!Lifecycle!Next]_<<[i \in Calls |-> Screen!Phase(row[i].status)],
                                       [i \in Calls |-> row[i].device],
                                       [i \in Calls |-> IF row[i].status \in Screen!Terminal
                                                        THEN row[i].status ELSE None]>>
    BY ScreenMoves, MovesAreLife DEF ScreenPhase, ScreenHolder, ScreenOutcome
  <1> QED
    BY <1>1, <1>2, ScreenInvHolds, PTL DEF Spec, Screen!LifecycleIsKept, Screen!Lifecycle!Spec

-----------------------------------------------------------------------------
(* The parts together.                                                       *)

\* The states of the web client keep their shape: what is sent to a client fits in the
\* hub's queue (deliver), a page's request belongs to an entry that is being sent
\* (deliverPendingMessage), and screens, rows and faults are what they are said to be.
THEOREM TypesAreRight == Spec => []TypeOK
  <1>1. SyncInv => Sync!TypeOK
    BY DEF SyncInv
  <1>2. OutboxInv => Outbox!TypeOK
    <2> SUFFICES ASSUME OutboxInv PROVE Outbox!TypeOK
      OBVIOUS
    <2>1. \A p \in Pages : \A m \in Outbox!Entries(p) :
            sending[p][m] # "no" => pending[p][m].state = "sending"
      BY DEF OutboxInv, PagesOK, PageOK, Outbox!Entries
    <2> QED
      BY <2>1 DEF Outbox!TypeOK, OutboxInv, OutboxTypes, PageStates, EntryMaps, SendingMaps,
                  SendingStates
  <1>3. ScreenInv => Screen!TypeOK
    BY DEF ScreenInv, ScreenTypes
  <1> QED
    BY <1>1, <1>2, <1>3, SyncInvHolds, OutboxInvHolds, ScreenInvHolds, PTL DEF TypeOK
===============================================================================
