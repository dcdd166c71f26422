----------------------------- MODULE ServicesProofs -----------------------------
(***************************************************************************)
(* Proofs about direct conversations, device tokens, attachments and       *)
(* polls, for any users, requests, files, devices and bounds.              *)
(***************************************************************************)
EXTENDS Services, Integers, Sequences, FiniteSets, FiniteSetTheorems, TLAPS

-----------------------------------------------------------------------------
(* Direct conversations.                                                     *)

DirectRequests == [pc : {"create"}, pair : Direct!Pairs]

\* A request that is about to create a conversation found none: there still is none, or
\* another request was about to create it.
CreatesAreRaced ==
    \A q \in Requests : directRequest[q].pc = "create" =>
      /\ \A n \in DOMAIN direct : direct[n] = Direct!Both(directRequest[q].pair)
                                    => direct[n] \in raced
      /\ \A r \in Requests \ {q} :
           /\ directRequest[r].pc = "create"
           /\ Direct!Both(directRequest[r].pair) = Direct!Both(directRequest[q].pair)
           => Direct!Both(directRequest[q].pair) \in raced

\* What a user was given is a direct conversation of the two.
AnswerOK ==
    answer # Direct!NoAnswer =>
      /\ answer.type = "direct" /\ answer.pair \in Direct!Pairs
      /\ answer.members = Direct!Both(answer.pair)

DirectInv ==
    /\ direct \in Seq(SUBSET (Users \cup {Stranger}))
    /\ directRequest \in [Requests -> DirectRequests \cup {Direct!Idle}]
    /\ CreatesAreRaced /\ AnswerOK /\ Direct!OneDirectConversation

LEMMA DirectInit == Direct!Init => DirectInv
  <1> SUFFICES ASSUME Direct!Init PROVE DirectInv
    OBVIOUS
  <1>1. Direct!Idle.pc # "create" /\ direct = <<>>
    BY DEF Direct!Init, Direct!Idle
  <1>2. DOMAIN direct = {}
    BY <1>1
  <1> QED
    BY <1>1, <1>2 DEF Direct!Init, DirectInv, CreatesAreRaced, AnswerOK,
                      Direct!OneDirectConversation

LEMMA TwoInPair ==
    ASSUME NEW p \in Direct!Pairs
    PROVE  /\ Direct!Both(p) \in SUBSET (Users \cup {Stranger})
           /\ p[1] \in Direct!Both(p) /\ p[1] # p[2]
           /\ Direct!Both(p) \ {p[1]} = {p[2]}
  BY DEF Direct!Pairs, Direct!Both

LEMMA DirectInvSays ==
    ASSUME DirectInv
    PROVE  DirectsHold
  <1>1. Direct!AnswerIsOfTheTwo
    <2> SUFFICES ASSUME answer # Direct!NoAnswer
                 PROVE  Direct!DirectCallRecipients(answer.pair[1],
                            [type |-> answer.type, members |-> answer.members]) = {answer.pair[2]}
      BY DEF Direct!AnswerIsOfTheTwo
    <2>1. /\ answer.type = "direct" /\ answer.pair \in Direct!Pairs
          /\ answer.members = Direct!Both(answer.pair)
      BY DEF DirectInv, AnswerOK
    <2> QED
      BY <2>1, TwoInPair DEF Direct!DirectCallRecipients
  <1> QED
    BY <1>1 DEF DirectInv, DirectsHold

\* A request finds a conversation, or is about to create it.
LEMMA SearchDirect ==
    ASSUME DirectInv, NEW q \in Requests, NEW p \in Direct!Pairs, Direct!Search(q, p)
    PROVE  DirectInv'
  <1>1. directRequest[q] = Direct!Idle /\ UNCHANGED direct
    BY DEF Direct!Search
  <1>2. CASE \E c \in Direct!Find(p) : Direct!Answer(p, c) /\ UNCHANGED <<directRequest, raced>>
    <2>1. PICK c \in Direct!Find(p) : Direct!Answer(p, c)
      BY <1>2
    <2>2. c.type = "direct" /\ c.members = Direct!Both(p)
      BY <2>1 DEF Direct!Find
    <2>3. AnswerOK'
      BY <2>1, <2>2 DEF AnswerOK, Direct!Answer
    <2> QED
      BY <1>1, <1>2, <2>3 DEF DirectInv, CreatesAreRaced, Direct!OneDirectConversation
  <1>3. ASSUME Direct!Find(p) = {}, UNCHANGED answer,
               directRequest' = [directRequest EXCEPT ![q] = [pc |-> "create", pair |-> p]],
               raced' = raced \cup {Direct!Both(p) : r \in {r \in Requests :
                          /\ directRequest[r] # Direct!Idle
                          /\ Direct!Both(directRequest[r].pair) = Direct!Both(p)}}
        PROVE  DirectInv'
    <2> DEFINE x == [pc |-> "create", pair |-> p]
    <2>1. x \in DirectRequests /\ x.pc = "create" /\ x.pair = p
      BY DEF DirectRequests
    <2>2. directRequest' = [directRequest EXCEPT ![q] = x]
      BY <1>3
    <2> HIDE DEF x
    <2>3. /\ directRequest' \in [Requests -> DirectRequests \cup {Direct!Idle}]
          /\ directRequest'[q] = x
          /\ \A r \in Requests : r # q => directRequest'[r] = directRequest[r]
      BY <2>1, <2>2 DEF DirectInv
    <2>4. \A n \in DOMAIN direct : direct[n] # Direct!Both(p)
      <3> SUFFICES ASSUME NEW n \in DOMAIN direct, direct[n] = Direct!Both(p) PROVE FALSE
        OBVIOUS
      <3> DEFINE c == [type |-> "direct", members |-> direct[n]]
      <3>1. c \in Direct!Conversations
        BY DEF Direct!Conversations
      <3>2. c \in Direct!Find(p)
        BY <3>1 DEF Direct!Find
      <3> QED
        BY <1>3, <3>2
    <2>5. raced \subseteq raced'
      BY <1>3
    <2>6. ASSUME NEW r \in Requests, r # q, directRequest[r].pc = "create",
                 Direct!Both(directRequest[r].pair) = Direct!Both(p)
          PROVE  Direct!Both(p) \in raced'
      <3>1. directRequest[r] # Direct!Idle
        BY <2>6 DEF Direct!Idle
      <3> QED
        BY <1>3, <2>6, <3>1
    <2>7. CreatesAreRaced'
      <3> SUFFICES ASSUME NEW s \in Requests, directRequest'[s].pc = "create"
                   PROVE  /\ \A n \in DOMAIN direct :
                               direct[n] = Direct!Both(directRequest'[s].pair) => direct[n] \in raced'
                          /\ \A r \in Requests \ {s} :
                               /\ directRequest'[r].pc = "create"
                               /\ Direct!Both(directRequest'[r].pair)
                                    = Direct!Both(directRequest'[s].pair)
                               => Direct!Both(directRequest'[s].pair) \in raced'
        BY <1>1 DEF CreatesAreRaced, Direct!Both
      <3>1. CASE s = q
        BY <2>1, <2>3, <2>4, <2>6, <3>1
      <3>2. CASE s # q
        <4>1. directRequest'[s] = directRequest[s] /\ directRequest[s].pc = "create"
          BY <2>3, <3>2
        <4>2. \A n \in DOMAIN direct : direct[n] = Direct!Both(directRequest[s].pair)
                                         => direct[n] \in raced'
          BY <2>5, <4>1 DEF DirectInv, CreatesAreRaced
        <4>3. ASSUME NEW r \in Requests \ {s}, directRequest'[r].pc = "create",
                     Direct!Both(directRequest'[r].pair) = Direct!Both(directRequest[s].pair)
              PROVE  Direct!Both(directRequest[s].pair) \in raced'
          <5>1. CASE r = q
            BY <2>1, <2>3, <2>6, <3>2, <4>1, <4>3, <5>1
          <5>2. CASE r # q
            BY <2>3, <2>5, <4>1, <4>3, <5>2 DEF DirectInv, CreatesAreRaced
          <5> QED
            BY <5>1, <5>2
        <4> QED
          BY <4>1, <4>2, <4>3
      <3> QED
        BY <3>1, <3>2
    <2>8. Direct!OneDirectConversation'
      BY <1>1, <2>5 DEF DirectInv, Direct!OneDirectConversation
    <2> QED
      BY <1>1, <1>3, <2>3, <2>7, <2>8 DEF DirectInv, AnswerOK
  <1> QED
    BY <1>2, <1>3 DEF Direct!Search

\* The conversation of a pair is created: if there is one already, or another request
\* is about to create it, the pair is in raced.
LEMMA CreateDirect ==
    ASSUME DirectInv, NEW q \in Requests, Direct!Create(q)
    PROVE  DirectInv'
  <1> DEFINE p == directRequest[q].pair
             b == Direct!Both(p)
  <1>1. /\ directRequest[q].pc = "create" /\ direct' = Append(direct, b)
        /\ Direct!Answer(p, [type |-> "direct", members |-> b])
        /\ directRequest' = [directRequest EXCEPT ![q] = Direct!Idle]
        /\ UNCHANGED raced
    BY DEF Direct!Create
  <1>2. p \in Direct!Pairs
    BY <1>1 DEF DirectInv, DirectRequests, Direct!Idle
  <1>3. b \in SUBSET (Users \cup {Stranger})
    BY <1>2, TwoInPair
  <1>4. /\ \A n \in DOMAIN direct : direct[n] = b => b \in raced
        /\ \A r \in Requests \ {q} : directRequest[r].pc = "create"
                                       /\ Direct!Both(directRequest[r].pair) = b => b \in raced
    BY <1>1 DEF DirectInv, CreatesAreRaced
  <1>5. AnswerOK'
    BY <1>1, <1>2 DEF AnswerOK, Direct!Answer
  <1> HIDE DEF b
  <1>6. /\ direct' \in Seq(SUBSET (Users \cup {Stranger}))
        /\ DOMAIN direct' = 1 .. Len(direct) + 1 /\ DOMAIN direct = 1 .. Len(direct)
        /\ Len(direct) \in Nat
        /\ direct'[Len(direct) + 1] = b
        /\ \A n \in DOMAIN direct : direct'[n] = direct[n]
        /\ DOMAIN direct' = DOMAIN direct \cup {Len(direct) + 1}
    BY <1>1, <1>3 DEF DirectInv
  <1>7. /\ directRequest' \in [Requests -> DirectRequests \cup {Direct!Idle}]
        /\ directRequest'[q] = Direct!Idle
        /\ \A r \in Requests : r # q => directRequest'[r] = directRequest[r]
    BY <1>1 DEF DirectInv
  <1>8. Direct!OneDirectConversation'
    <2> SUFFICES ASSUME NEW m \in DOMAIN direct', NEW n \in DOMAIN direct', m # n,
                        direct'[m] = direct'[n]
                 PROVE  direct'[m] \in raced
      BY <1>1 DEF Direct!OneDirectConversation
    <2>1. CASE m \in DOMAIN direct /\ n \in DOMAIN direct
      BY <1>6, <2>1 DEF DirectInv, Direct!OneDirectConversation
    <2>2. CASE m \notin DOMAIN direct \/ n \notin DOMAIN direct
      BY <1>4, <1>6, <2>2
    <2> QED
      BY <2>1, <2>2
  <1>9. CreatesAreRaced'
    <2> SUFFICES ASSUME NEW s \in Requests, directRequest'[s].pc = "create"
                 PROVE  /\ \A n \in DOMAIN direct' :
                             direct'[n] = Direct!Both(directRequest'[s].pair) => direct'[n] \in raced
                        /\ \A r \in Requests \ {s} :
                             /\ directRequest'[r].pc = "create"
                             /\ Direct!Both(directRequest'[r].pair)
                                  = Direct!Both(directRequest'[s].pair)
                             => Direct!Both(directRequest'[s].pair) \in raced
      BY <1>1 DEF CreatesAreRaced, Direct!Both
    <2>1. s # q
      BY <1>7 DEF Direct!Idle
    <2>2. directRequest'[s] = directRequest[s]
      BY <1>7, <2>1
    <2>3. \A n \in DOMAIN direct' :
            direct'[n] = Direct!Both(directRequest[s].pair) => direct'[n] \in raced
      BY <1>4, <1>6, <2>1, <2>2 DEF DirectInv, CreatesAreRaced
    <2>4. \A r \in Requests \ {s} : directRequest'[r].pc = "create" => r # q
      BY <1>7 DEF Direct!Idle
    <2> QED
      BY <1>7, <2>2, <2>3, <2>4 DEF DirectInv, CreatesAreRaced
  <1> QED
    BY <1>5, <1>6, <1>7, <1>8, <1>9 DEF DirectInv

LEMMA RollbackDirect ==
    ASSUME DirectInv, NEW q \in Requests, Direct!Rollback(q)
    PROVE  DirectInv'
  <1>1. /\ directRequest' = [directRequest EXCEPT ![q] = Direct!Idle]
        /\ UNCHANGED <<direct, answer, raced>>
    BY DEF Direct!Rollback
  <1>2. /\ directRequest' \in [Requests -> DirectRequests \cup {Direct!Idle}]
        /\ directRequest'[q].pc # "create"
        /\ \A r \in Requests : r # q => directRequest'[r] = directRequest[r]
    BY <1>1 DEF DirectInv, Direct!Idle
  <1>3. CreatesAreRaced'
    BY <1>1, <1>2 DEF DirectInv, CreatesAreRaced, Direct!Both
  <1> QED
    BY <1>1, <1>2, <1>3 DEF DirectInv, AnswerOK, Direct!OneDirectConversation

LEMMA DirectSteps ==
    ASSUME DirectInv, [Next]_vars
    PROVE  DirectInv'
  <1>1. UNCHANGED directVars => DirectInv'
    BY DEF directVars, DirectInv, CreatesAreRaced, AnswerOK, Direct!OneDirectConversation,
           Direct!Both
  <1>2. CASE DirectNext
    BY <1>2, SearchDirect, CreateDirect, RollbackDirect DEF DirectNext, Direct!Next
  <1> QED
    BY <1>1, <1>2 DEF Next, PollNext, MarkNext, FileNext, DeviceNext, vars

\* Two users have one direct conversation, unless two requests for them found none at
\* the same time; what a user is given is a conversation of the two, in which a call reaches
\* the other one (CreateDirectConversation, DirectCallRecipients).
THEOREM DirectsAreRight == Spec => []DirectsHold
  <1>1. Init => DirectInv
    BY DirectInit DEF Init
  <1>2. DirectInv /\ [Next]_vars => DirectInv'
    BY DirectSteps
  <1>3. DirectInv => DirectsHold
    BY DirectInvSays
  <1> QED
    BY <1>1, <1>2, <1>3, PTL DEF Spec
-----------------------------------------------------------------------------
(* Device tokens.                                                            *)

\* The tokens that installations have been given.
Issued == {t \in Device!Tokens : t[2] <= token[t[1]]}

AskedRows == [token  : Device!Tokens \cup {Device!NoToken},
              user   : Users \cup {Nobody},
              device : Devices \cup {NoDevice}]

TokenRequests == [pc : {"idle", "delete", "insert", "unregister"}, row : AskedRows]

Pushes == [pc      : {"none", "send", "prune"},
           tokens  : SUBSET Device!Tokens,
           changed : SUBSET Device!Tokens,
           origin  : Devices \cup {NoDevice}]

DeviceTypes ==
    /\ Device!TypeOK
    /\ push \in Pushes
    /\ tokenRequest \in [Requests -> TokenRequests]

\* A row of an installation that gives its id has one of its tokens.
IsOwn(r) == /\ r \in Device!Rows
            /\ r.device \in Devices /\ r.token[1] = r.device
            /\ r.token \in Issued

\* What a request is about is the installation's that made it.
IsMade(x) == /\ x.pc \in {"delete", "insert"} => IsOwn(x.row)
             /\ x.pc = "unregister" => x.row.user \in Users /\ x.row.device \in Devices

RequestsAreMade == \A q \in Requests : IsMade(tokenRequest[q])

RegistrationsAreOwn ==
    \A d \in Devices : registered[d] # Device!NoRow
                         => IsOwn(registered[d]) /\ registered[d].device = d

\* The row of an installation is its last registration; a row without a device is
\* from before there was one, when installations had their first token.
RowsAreLast ==
    \A r \in rows :
      /\ r.token \in Issued
      /\ r.device # NoDevice => registered[r.device] = r /\ r.token[1] = r.device
      /\ r.device = NoDevice => r.token[2] = 1

\* While a push is sent: its origin is reached by none of its tokens, and what it
\* reaches is a member's unless the installation registered meanwhile.
SendingIsRight ==
    push.pc = "send" =>
      \A t \in push.tokens :
        /\ t \in Issued
        /\ t[1] = push.origin => t[2] # token[t[1]]
        /\ t \notin push.changed /\ Device!Alive(t)
             => registered[t[1]].user \in Members \cup {Nobody}

NothingStrayed == Device!OriginIsLeftOut /\ Device!PushesReachMembers

DeviceInv ==
    /\ DeviceTypes /\ RequestsAreMade /\ RegistrationsAreOwn /\ RowsAreLast
    /\ Device!RegisteredIsReachable /\ SendingIsRight /\ NothingStrayed

LEMMA DevicesAssumed ==
    /\ Members \subseteq Users /\ Nobody \notin Users
    /\ NoDevice \notin Devices /\ Rotating \subseteq Devices
    /\ MaxTokens \in Nat \ {0}
  BY ServiceAssumption DEF Device!DeviceConstants

LEMMA TokensArePairs ==
    ASSUME NEW t \in Device!Tokens
    PROVE  /\ t = <<t[1], t[2]>> /\ t[1] \in Devices /\ t[2] \in Nat
           /\ t # Device!NoToken
  BY DevicesAssumed DEF Device!Tokens, Device!NoToken

LEMMA DeviceInit == Device!Init => DeviceInv
  <1> SUFFICES ASSUME Device!Init PROVE DeviceInv
    OBVIOUS
  <1>1. PICK d \in Devices, u \in Users :
          rows \in {{}, {[token |-> <<d, 1>>, user |-> u, device |-> NoDevice]}}
    BY DEF Device!Init
  <1>2. token = [e \in Devices |-> 1] /\ 1 \in 1 .. MaxTokens /\ <<d, 1>> \in Device!Tokens
    BY DevicesAssumed DEF Device!Init, Device!Tokens
  <1>3. Device!Idle \in TokenRequests /\ Device!Idle.pc = "idle"
    BY DEF Device!Idle, Device!NoRow, TokenRequests, AskedRows
  <1>4. Device!NoPush \in Pushes /\ Device!NoPush.pc = "none" /\ Device!NoPush.tokens = {}
    BY DEF Device!NoPush, Pushes
  <1>5. Device!TypeOK
    BY <1>1, <1>2, <1>4 DEF Device!Init, Device!TypeOK, Device!Rows
  <1>6. DeviceTypes /\ RequestsAreMade /\ RegistrationsAreOwn
    BY <1>3, <1>4, <1>5 DEF Device!Init, DeviceTypes, RequestsAreMade, IsMade, RegistrationsAreOwn
  <1>7. RowsAreLast
    BY <1>1, <1>2 DEF RowsAreLast, Issued
  <1>8. Device!RegisteredIsReachable
    BY DevicesAssumed DEF Device!Init, Device!RegisteredIsReachable, Device!NoRow, Device!NoToken
  <1> QED
    BY <1>4, <1>6, <1>7, <1>8
       DEF Device!Init, DeviceInv, SendingIsRight, NothingStrayed,
           Device!OriginIsLeftOut, Device!PushesReachMembers

LEMMA DeviceInvSays ==
    ASSUME DeviceInv
    PROVE  TokensHold
  BY DEF DeviceInv, DeviceTypes, RowsAreLast, NothingStrayed, TokensHold,
         Device!OneAccountPerInstallation

\* A request goes on, or an account logs in or out; the table is as before.
LEMMA OneTokenRequest ==
    ASSUME DeviceInv, NEW q \in Requests, NEW x \in TokenRequests, IsMade(x),
           tokenRequest' = [tokenRequest EXCEPT ![q] = x],
           session' \in [Devices -> Users \cup {Nobody}],
           UNCHANGED <<firebase, rows, token, push, registered, strayed>>
    PROVE  DeviceInv'
  <1>1. /\ tokenRequest' \in [Requests -> TokenRequests]
        /\ \A r \in Requests : tokenRequest'[r] = IF r = q THEN x ELSE tokenRequest[r]
    BY DEF DeviceInv, DeviceTypes
  <1>2. RequestsAreMade'
    BY <1>1 DEF DeviceInv, RequestsAreMade, IsMade, IsOwn, Issued
  <1>3. DeviceTypes'
    BY <1>1 DEF DeviceInv, DeviceTypes, Device!TypeOK
  <1> QED
    BY <1>2, <1>3
       DEF DeviceInv, RegistrationsAreOwn, RowsAreLast, Device!RegisteredIsReachable,
           SendingIsRight, NothingStrayed, Device!OriginIsLeftOut,
           Device!PushesReachMembers, IsOwn, Issued, Device!Alive

LEMMA AskRegisterDevice ==
    ASSUME DeviceInv, NEW q \in Requests, NEW d \in Devices, Device!AskRegister(q, d)
    PROVE  DeviceInv'
  <1> DEFINE y == [token |-> <<d, token[d]>>, user |-> session[d], device |-> d]
             x == [pc |-> "delete", row |-> y]
  <1>1. session[d] \in Users /\ token[d] \in 1 .. MaxTokens
    BY DEF Device!AskRegister, DeviceInv, DeviceTypes, Device!TypeOK
  <1>2. <<d, token[d]>> \in Device!Tokens /\ <<d, token[d]>> \in Issued
    BY <1>1, DevicesAssumed DEF Device!Tokens, Issued
  <1>3. IsOwn(y) /\ y \in AskedRows
    BY <1>1, <1>2 DEF IsOwn, Device!Rows, AskedRows
  <1> HIDE DEF y
  <1>4. x \in TokenRequests /\ IsMade(x)
    BY <1>3 DEF TokenRequests, IsMade
  <1>5. tokenRequest' = [tokenRequest EXCEPT ![q] = x]
    BY DEF Device!AskRegister, y
  <1> HIDE DEF x
  <1> QED
    BY <1>4, <1>5, OneTokenRequest DEF Device!AskRegister, DeviceInv, DeviceTypes, Device!TypeOK

LEMMA LogoutDevice ==
    ASSUME DeviceInv, NEW q \in Requests, NEW d \in Devices, NEW named \in BOOLEAN,
           Device!Logout(q, d, named)
    PROVE  DeviceInv'
  <1> DEFINE v == IF named THEN <<d, token[d]>> ELSE Device!NoToken
             y == [token |-> v, user |-> session[d], device |-> d]
             x == [pc |-> "unregister", row |-> y]
  <1>1. session[d] \in Users /\ token[d] \in 1 .. MaxTokens
    BY DEF Device!Logout, DeviceInv, DeviceTypes, Device!TypeOK
  <1>2. v \in Device!Tokens \cup {Device!NoToken}
    BY <1>1 DEF Device!Tokens
  <1>3. tokenRequest' = [tokenRequest EXCEPT ![q] = x]
    BY DEF Device!Logout
  <1> HIDE DEF v
  <1>4. y \in AskedRows /\ y.user \in Users /\ y.device \in Devices
    BY <1>1, <1>2 DEF AskedRows
  <1> HIDE DEF y
  <1>5. x \in TokenRequests /\ IsMade(x)
    BY <1>4 DEF TokenRequests, IsMade
  <1> HIDE DEF x
  <1>6. session' \in [Devices -> Users \cup {Nobody}]
    BY DEF Device!Logout, DeviceInv, DeviceTypes, Device!TypeOK
  <1> QED
    BY <1>3, <1>5, <1>6, OneTokenRequest DEF Device!Logout

LEMMA IdleTokenRequest == Device!Idle \in TokenRequests /\ IsMade(Device!Idle)
  BY DEF Device!Idle, Device!NoRow, TokenRequests, AskedRows, IsMade

LEMMA LoseDevice ==
    ASSUME DeviceInv, NEW q \in Requests, Device!Lose(q)
    PROVE  DeviceInv'
  BY IdleTokenRequest, OneTokenRequest DEF Device!Lose, DeviceInv, DeviceTypes, Device!TypeOK

LEMMA LockTableDevice ==
    ASSUME DeviceInv, NEW q \in Requests, Device!LockTable(q)
    PROVE  DeviceInv'
  <1> DEFINE x == [tokenRequest[q] EXCEPT !.pc = "insert"]
  <1>1. tokenRequest[q] \in TokenRequests /\ IsMade(tokenRequest[q]) /\ tokenRequest[q].pc = "delete"
    BY DEF Device!LockTable, DeviceInv, DeviceTypes, RequestsAreMade
  <1>2. x \in TokenRequests /\ IsMade(x)
    BY <1>1 DEF TokenRequests, IsMade
  <1>3. tokenRequest' = [tokenRequest EXCEPT ![q] = x]
    BY DEF Device!LockTable
  <1> HIDE DEF x
  <1> QED
    BY <1>2, <1>3, OneTokenRequest DEF Device!LockTable, DeviceInv, DeviceTypes, Device!TypeOK

LEMMA LoginDevice ==
    ASSUME DeviceInv, NEW d \in Devices, NEW u \in Users, Device!Login(d, u)
    PROVE  DeviceInv'
  <1>1. session' \in [Devices -> Users \cup {Nobody}]
    BY DEF Device!Login, DeviceInv, DeviceTypes, Device!TypeOK
  <1> QED
    BY <1>1 DEF Device!Login, DeviceInv, DeviceTypes, Device!TypeOK, RequestsAreMade, IsMade,
           RegistrationsAreOwn, RowsAreLast, Device!RegisteredIsReachable,
           SendingIsRight, NothingStrayed, Device!OriginIsLeftOut,
           Device!PushesReachMembers, IsOwn, Issued, Device!Alive

\* A token that was issued is not the one that replaces it.
LEMMA RotateDevice ==
    ASSUME DeviceInv, NEW d \in Devices, Device!Rotate(d)
    PROVE  DeviceInv'
  <1>1. /\ token \in [Devices -> 1 .. MaxTokens] /\ token[d] < MaxTokens
        /\ token' = [token EXCEPT ![d] = token[d] + 1]
        /\ UNCHANGED <<firebase, rows, session, tokenRequest, push, registered, strayed>>
    BY DEF Device!Rotate, DeviceInv, DeviceTypes, Device!TypeOK
  <1>2. token' \in [Devices -> 1 .. MaxTokens]
    BY <1>1, DevicesAssumed
  <1>3. ASSUME NEW t \in Issued
        PROVE  /\ t \in Issued'
               /\ Device!Alive(t)' => Device!Alive(t)
               /\ t[2] # token[t[1]] => t[2] # token'[t[1]]
    <2>1. t \in Device!Tokens /\ t[1] \in Devices /\ t[2] \in Nat /\ t[2] <= token[t[1]]
      BY TokensArePairs DEF Issued
    <2>2. token[t[1]] \in Nat /\ token'[t[1]] = IF t[1] = d THEN token[t[1]] + 1 ELSE token[t[1]]
      BY <1>1, <2>1
    <2> QED
      BY <2>1, <2>2 DEF Issued, Device!Alive, Device!Tokens
  <1>4. DeviceTypes'
    BY <1>1, <1>2 DEF DeviceInv, DeviceTypes, Device!TypeOK, Device!Tokens, Device!Rows
  <1>5. RequestsAreMade' /\ RegistrationsAreOwn'
    BY <1>1, <1>3 DEF DeviceInv, RequestsAreMade, RegistrationsAreOwn, IsMade, IsOwn
  <1>6. RowsAreLast'
    BY <1>1, <1>3 DEF DeviceInv, RowsAreLast
  <1>7. Device!RegisteredIsReachable'
    <2> SUFFICES ASSUME NEW e \in Devices, registered[e].token = <<e, token'[e]>>
                 PROVE  registered[e] \in rows
      BY <1>1 DEF Device!RegisteredIsReachable
    <2>1. registered[e] # Device!NoRow
      BY DevicesAssumed DEF Device!NoRow, Device!NoToken
    <2>2. registered[e].token \in Issued
      BY <2>1 DEF DeviceInv, RegistrationsAreOwn, IsOwn
    <2>3. Device!Alive(registered[e].token)
      BY <1>3, <2>2 DEF Device!Alive
    <2> QED
      BY <2>3 DEF Device!Alive, DeviceInv, Device!RegisteredIsReachable
  <1>8. SendingIsRight'
    <2> SUFFICES ASSUME push.pc = "send", NEW t \in push.tokens
                 PROVE  /\ t \in Issued'
                        /\ t[1] = push.origin => t[2] # token'[t[1]]
                        /\ t \notin push.changed /\ Device!Alive(t)'
                             => registered[t[1]].user \in Members \cup {Nobody}
      BY <1>1 DEF SendingIsRight
    <2>1. t \in Issued
      BY DEF DeviceInv, SendingIsRight
    <2> QED
      BY <1>3, <2>1 DEF DeviceInv, SendingIsRight
  <1> QED
    BY <1>1, <1>4, <1>5, <1>6, <1>7, <1>8
       DEF DeviceInv, NothingStrayed, Device!OriginIsLeftOut, Device!PushesReachMembers

\* The registration replaces every other row of the installation and of the token.
LEMMA RegisterDevice ==
    ASSUME DeviceInv, NEW q \in Requests, Device!Register(q)
    PROVE  DeviceInv'
  <1> DEFINE new == tokenRequest[q].row
             e   == new.device
  <1>1. IsOwn(new)
    BY DEF Device!Register, DeviceInv, RequestsAreMade, IsMade
  <1>2. /\ new \in Device!Rows /\ e \in Devices /\ new.token[1] = e /\ new.token \in Issued
        /\ new.token \in Device!Tokens
    BY <1>1 DEF IsOwn, Device!Rows
  <1>3. /\ rows' = {r \in rows \ Device!Cleared(new) : r.token # new.token} \cup {new}
        /\ registered' = [registered EXCEPT ![e] = new]
        /\ push' = [push EXCEPT !.changed = push.changed \cup {t \in push.tokens : t[1] = e}]
        /\ tokenRequest' = [tokenRequest EXCEPT ![q] = Device!Idle]
        /\ UNCHANGED <<firebase, token, session, strayed>>
    BY DEF Device!Register, Device!Stored
  <1> HIDE DEF new
  <1>4. /\ registered \in [Devices -> Device!Rows \cup {Device!NoRow}] /\ rows \subseteq Device!Rows
        /\ push \in Pushes /\ tokenRequest \in [Requests -> TokenRequests]
        /\ \A r, s \in rows : r.token = s.token => r = s
    BY DEF DeviceInv, DeviceTypes, Device!TypeOK
  <1>5. /\ registered' \in [Devices -> Device!Rows \cup {Device!NoRow}]
        /\ \A d \in Devices : registered'[d] = IF d = e THEN new ELSE registered[d]
    BY <1>2, <1>3, <1>4
  <1>6. ASSUME NEW r \in rows'
        PROVE  r = new \/ (r \in rows /\ r.token # new.token /\ r.device # e)
    BY <1>3, <1>6 DEF Device!Cleared
  <1>7. ASSUME NEW r \in rows, r.device # e, r.token # new.token
        PROVE  r \in rows'
    BY <1>3, <1>7 DEF Device!Cleared
  <1>8. /\ push' \in Pushes /\ push'.pc = push.pc /\ push'.tokens = push.tokens
        /\ push'.origin = push.origin /\ push.changed \subseteq push'.changed
        /\ \A t \in push.tokens : t[1] = e => t \in push'.changed
    BY <1>3, <1>4 DEF Pushes
  <1>9. DeviceTypes'
    <2>1. rows' \subseteq Device!Rows
      BY <1>2, <1>4, <1>6
    <2>2. \A r, s \in rows' : r.token = s.token => r = s
      BY <1>4, <1>6
    <2>3. tokenRequest' \in [Requests -> TokenRequests]
      BY <1>3, <1>4, IdleTokenRequest
    <2> QED
      BY <1>3, <1>5, <1>8, <2>1, <2>2, <2>3
         DEF DeviceInv, DeviceTypes, Device!TypeOK, Pushes
  <1>10. RequestsAreMade'
    <2>1. \A r \in Requests : IsMade(tokenRequest'[r])
      BY <1>3, <1>4, IdleTokenRequest DEF DeviceInv, RequestsAreMade
    <2> QED
      BY <1>3, <2>1 DEF RequestsAreMade, IsMade, IsOwn, Issued
  <1>11. RegistrationsAreOwn'
    <2>1. \A d \in Devices : registered'[d] # Device!NoRow
                               => IsOwn(registered'[d]) /\ registered'[d].device = d
      BY <1>1, <1>5 DEF DeviceInv, RegistrationsAreOwn
    <2> QED
      BY <1>3, <2>1 DEF RegistrationsAreOwn, IsOwn, Issued
  <1>12. RowsAreLast'
    <2> SUFFICES ASSUME NEW r \in rows'
                 PROVE  /\ r.token \in Issued
                        /\ r.device # NoDevice => registered'[r.device] = r /\ r.token[1] = r.device
                        /\ r.device = NoDevice => r.token[2] = 1
      BY <1>3 DEF RowsAreLast, Issued
    <2>1. CASE r = new
      BY <1>2, <1>5, <2>1, DevicesAssumed
    <2>2. CASE r # new
      <3>1. r \in rows /\ r.device # e
        BY <1>6, <2>2
      <3>2. r.device \in Devices \cup {NoDevice}
        BY <1>4, <3>1 DEF Device!Rows
      <3> QED
        BY <1>5, <3>1, <3>2 DEF DeviceInv, RowsAreLast
    <2> QED
      BY <2>1, <2>2
  <1>13. Device!RegisteredIsReachable'
    <2> SUFFICES ASSUME NEW d \in Devices, registered'[d].token = <<d, token[d]>>
                 PROVE  registered'[d] \in rows'
      BY <1>3 DEF Device!RegisteredIsReachable
    <2>1. CASE d = e
      BY <1>3, <1>5, <2>1
    <2>2. CASE d # e
      <3>1. registered'[d] = registered[d] /\ registered[d] \in rows
        BY <1>5, <2>2 DEF DeviceInv, Device!RegisteredIsReachable
      <3>2. registered[d] # Device!NoRow
        BY <3>1, DevicesAssumed DEF Device!NoRow, Device!NoToken
      <3>3. registered[d].device = d
        BY <3>2 DEF DeviceInv, RegistrationsAreOwn
      <3>4. registered[d].token[1] = d
        BY <3>1
      <3> QED
        BY <1>2, <1>7, <2>2, <3>1, <3>3, <3>4
    <2> QED
      BY <2>1, <2>2
  <1>14. SendingIsRight'
    <2> SUFFICES ASSUME push.pc = "send", NEW t \in push.tokens
                 PROVE  /\ t \in Issued
                        /\ t[1] = push.origin => t[2] # token[t[1]]
                        /\ t \notin push'.changed /\ Device!Alive(t)
                             => registered'[t[1]].user \in Members \cup {Nobody}
      BY <1>3, <1>8 DEF SendingIsRight, Issued, Device!Alive
    <2>1. t \in Device!Tokens
      BY <1>4 DEF Pushes
    <2>2. t[1] \in Devices
      BY <2>1, TokensArePairs
    <2> QED
      BY <1>5, <1>8, <2>2 DEF DeviceInv, SendingIsRight
  <1> QED
    BY <1>3, <1>9, <1>10, <1>11, <1>12, <1>13, <1>14
       DEF DeviceInv, NothingStrayed, Device!OriginIsLeftOut, Device!PushesReachMembers

\* A late logout takes its own account's registration, and the row with it.
LEMMA UnregisterDevice ==
    ASSUME DeviceInv, NEW q \in Requests, Device!Unregister(q)
    PROVE  DeviceInv'
  <1> DEFINE old == tokenRequest[q].row
             e   == old.device
             own == registered[e].user = old.user
                      /\ old.token \in {Device!NoToken, registered[e].token}
  <1>1. old.user \in Users /\ e \in Devices
    BY DEF Device!Unregister, DeviceInv, RequestsAreMade, IsMade
  <1>2. /\ rows' = {r \in rows : ~Device!Matches(r, old)}
        /\ registered' = [registered EXCEPT ![e] = IF own THEN Device!NoRow ELSE registered[e]]
        /\ tokenRequest' = [tokenRequest EXCEPT ![q] = Device!Idle]
        /\ UNCHANGED <<firebase, token, session, push, strayed>>
    BY DEF Device!Unregister
  <1> HIDE DEF old
  <1>3. /\ registered \in [Devices -> Device!Rows \cup {Device!NoRow}] /\ rows \subseteq Device!Rows
        /\ push \in Pushes /\ tokenRequest \in [Requests -> TokenRequests]
        /\ \A r, s \in rows : r.token = s.token => r = s
    BY DEF DeviceInv, DeviceTypes, Device!TypeOK
  <1>4. /\ registered' \in [Devices -> Device!Rows \cup {Device!NoRow}]
        /\ \A d \in Devices : registered'[d] = IF d = e /\ own THEN Device!NoRow ELSE registered[d]
    BY <1>1, <1>2, <1>3
  <1>5. DeviceTypes'
    <2>1. rows' \subseteq Device!Rows /\ \A r, s \in rows' : r.token = s.token => r = s
      BY <1>2, <1>3
    <2>2. tokenRequest' \in [Requests -> TokenRequests]
      BY <1>2, <1>3, IdleTokenRequest
    <2> QED
      BY <1>2, <1>4, <2>1, <2>2 DEF DeviceInv, DeviceTypes, Device!TypeOK
  <1>6. RequestsAreMade'
    <2>1. \A r \in Requests : IsMade(tokenRequest'[r])
      BY <1>2, <1>3, IdleTokenRequest DEF DeviceInv, RequestsAreMade
    <2> QED
      BY <1>2, <2>1 DEF RequestsAreMade, IsMade, IsOwn, Issued
  <1>7. RegistrationsAreOwn'
    <2>1. \A d \in Devices : registered'[d] # Device!NoRow
                               => IsOwn(registered'[d]) /\ registered'[d].device = d
      BY <1>4 DEF DeviceInv, RegistrationsAreOwn
    <2> QED
      BY <1>2, <2>1 DEF RegistrationsAreOwn, IsOwn, Issued
  <1>8. RowsAreLast'
    <2> SUFFICES ASSUME NEW r \in rows'
                 PROVE  /\ r.token \in Issued
                        /\ r.device # NoDevice => registered'[r.device] = r /\ r.token[1] = r.device
                        /\ r.device = NoDevice => r.token[2] = 1
      BY <1>2 DEF RowsAreLast, Issued
    <2>1. r \in rows /\ ~Device!Matches(r, old) /\ r.device \in Devices \cup {NoDevice}
      BY <1>2, <1>3 DEF Device!Rows
    <2>2. ASSUME r.device # NoDevice PROVE registered'[r.device] = registered[r.device]
      <3>1. registered[r.device] = r
        BY <2>1, <2>2 DEF DeviceInv, RowsAreLast
      <3> QED
        BY <1>4, <2>1, <2>2, <3>1 DEF Device!Matches
    <2> QED
      BY <2>1, <2>2 DEF DeviceInv, RowsAreLast
  <1>9. Device!RegisteredIsReachable'
    <2> SUFFICES ASSUME NEW d \in Devices, registered'[d].token = <<d, token[d]>>
                 PROVE  registered'[d] \in rows'
      BY <1>2 DEF Device!RegisteredIsReachable
    <2>1. registered'[d] # Device!NoRow
      BY DevicesAssumed DEF Device!NoRow, Device!NoToken
    <2>2. registered'[d] = registered[d] /\ ~(d = e /\ own)
      BY <1>4, <2>1
    <2>3. registered[d] \in rows /\ registered[d].device = d
      BY <2>1, <2>2 DEF DeviceInv, Device!RegisteredIsReachable, RegistrationsAreOwn
    <2>4. ~Device!Matches(registered[d], old)
      BY <2>2, <2>3 DEF Device!Matches
    <2> QED
      BY <1>2, <2>2, <2>3, <2>4
  <1>10. SendingIsRight'
    <2> SUFFICES ASSUME push.pc = "send", NEW t \in push.tokens
                 PROVE  /\ t \in Issued
                        /\ t[1] = push.origin => t[2] # token[t[1]]
                        /\ t \notin push.changed /\ Device!Alive(t)
                             => registered'[t[1]].user \in Members \cup {Nobody}
      BY <1>2 DEF SendingIsRight, Issued, Device!Alive
    <2>1. t \in Device!Tokens
      BY <1>3 DEF Pushes
    <2>2. t[1] \in Devices /\ Device!NoRow.user = Nobody
      BY <2>1, TokensArePairs DEF Device!NoRow
    <2> QED
      BY <1>4, <2>2 DEF DeviceInv, SendingIsRight
  <1> QED
    BY <1>2, <1>5, <1>6, <1>7, <1>8, <1>9, <1>10
       DEF DeviceInv, NothingStrayed, Device!OriginIsLeftOut, Device!PushesReachMembers

\* A push goes on, and rows with dead tokens are deleted.
LEMMA PushGoesOn ==
    ASSUME DeviceInv, push' \in Pushes, SendingIsRight',
           firebase' \in {"unknown", "ready", "missing"},
           NothingStrayed', rows' \subseteq rows,
           \A r \in rows : Device!Alive(r.token) => r \in rows',
           UNCHANGED <<token, session, tokenRequest, registered>>
    PROVE  DeviceInv'
  <1>1. DeviceTypes'
    BY DEF DeviceInv, DeviceTypes, Device!TypeOK, Pushes
  <1>2. RequestsAreMade' /\ RegistrationsAreOwn' /\ RowsAreLast'
    BY DEF DeviceInv, RequestsAreMade, RegistrationsAreOwn, RowsAreLast, IsMade, IsOwn, Issued
  <1>3. Device!RegisteredIsReachable'
    <2> SUFFICES ASSUME NEW d \in Devices, registered[d].token = <<d, token[d]>>
                 PROVE  registered[d] \in rows'
      BY DEF Device!RegisteredIsReachable
    <2>1. registered[d] \in rows
      BY DEF DeviceInv, Device!RegisteredIsReachable
    <2>2. Device!Alive(registered[d].token)
      BY DEF Device!Alive
    <2> QED
      BY <2>1, <2>2
  <1> QED
    BY <1>1, <1>2, <1>3 DEF DeviceInv

LEMMA ConnectDevice ==
    ASSUME DeviceInv, NEW outcome \in {"ready", "missing"}, Device!Connect(outcome)
    PROVE  DeviceInv'
  <1>1. SendingIsRight' /\ NothingStrayed'
    BY DEF Device!Connect, DeviceInv, SendingIsRight, NothingStrayed, Issued, Device!Alive,
           Device!OriginIsLeftOut, Device!PushesReachMembers
  <1>2. push' \in Pushes
    BY DEF Device!Connect, DeviceInv, DeviceTypes
  <1> QED
    BY <1>1, <1>2, PushGoesOn DEF Device!Connect

\* What is selected is the members', and not the origin's if that can be told.
LEMMA SelectDevice ==
    ASSUME DeviceInv, NEW kind \in Device!Kinds, NEW by, NEW origin \in Devices \cup {NoDevice},
           NEW named \in BOOLEAN, NEW muted \in SUBSET Members,
           Device!Select(kind, by, origin, named, muted)
    PROVE  DeviceInv'
  <1> DEFINE call  == kind \in {"invite", "control"}
             left  == IF call THEN Device!OriginExcluded(origin, named) ELSE {}
             asked == {r \in rows \ left : /\ r.user \in Members \ muted
                                           /\ kind \in {"message", "invite"} => r.user # by}
             known == named \/ \A r \in rows : r.token[1] = origin => r.device = origin
             from  == IF call /\ known THEN origin ELSE NoDevice
             ts    == {r.token : r \in asked}
             p     == [pc |-> "send", tokens |-> ts, changed |-> {}, origin |-> from]
  <1>1. push' = p /\ UNCHANGED <<firebase, rows, token, session, tokenRequest, registered, strayed>>
    BY DEF Device!Select
  <1>2. ASSUME NEW t \in ts
        PROVE  \E r \in rows : r.token = t /\ r \notin left /\ r.user \in Members
    BY <1>2
  <1>3. rows \subseteq Device!Rows /\ registered \in [Devices -> Device!Rows \cup {Device!NoRow}]
        /\ \A r, s \in rows : r.token = s.token => r = s
    BY DEF DeviceInv, DeviceTypes, Device!TypeOK
  <1>4. ts \subseteq Device!Tokens
    BY <1>2, <1>3 DEF Device!Rows
  <1>5. from \in Devices \cup {NoDevice}
    OBVIOUS
  <1>6. ASSUME NEW t \in ts
        PROVE  /\ t \in Issued
               /\ t[1] = from => t[2] # token[t[1]]
               /\ Device!Alive(t) => registered[t[1]].user \in Members \cup {Nobody}
    <2>1. PICK r \in rows : r.token = t /\ r \notin left /\ r.user \in Members
      BY <1>2
    <2>2. /\ r \in Device!Rows /\ t \in Device!Tokens /\ t[1] \in Devices /\ t = <<t[1], t[2]>>
          /\ t[2] \in Nat
      BY <1>3, <2>1, TokensArePairs DEF Device!Rows
    <2>3. /\ t \in Issued
          /\ r.device # NoDevice => registered[r.device] = r /\ t[1] = r.device
          /\ r.device = NoDevice => t[2] = 1
      BY <2>1 DEF DeviceInv, RowsAreLast
    <2>4. ASSUME t[1] = from PROVE t[2] # token[t[1]]
      <3>1. from = origin /\ call /\ known /\ origin \in Devices
        BY <2>2, <2>4, DevicesAssumed
      <3>2. r.device # origin /\ ~(named /\ t = <<origin, token[origin]>>)
        BY <2>1, <3>1 DEF Device!OriginExcluded
      <3>3. named
        BY <2>1, <2>4, <3>1, <3>2
      <3> QED
        BY <2>2, <2>4, <3>1, <3>2, <3>3
    <2>5. ASSUME Device!Alive(t) PROVE registered[t[1]].user \in Members \cup {Nobody}
      <3>1. CASE r.device # NoDevice
        BY <2>1, <2>3, <3>1
      <3>2. CASE r.device = NoDevice
        <4>1. CASE registered[t[1]] = Device!NoRow
          BY <4>1 DEF Device!NoRow
        <4>2. CASE registered[t[1]] # Device!NoRow
          <5> DEFINE s == registered[t[1]]
          <5>1. /\ s \in Device!Rows /\ s.device = t[1] /\ s.token[1] = t[1] /\ s.token \in Issued
                /\ s.token \in Device!Tokens
            BY <2>2, <4>2 DEF DeviceInv, RegistrationsAreOwn, IsOwn, Device!Rows
          <5> HIDE DEF s
          <5>2. s.token = <<s.token[1], s.token[2]>> /\ s.token[2] \in 1 .. MaxTokens
            BY <5>1 DEF Device!Tokens
          <5>3. s.token[2] <= token[t[1]] /\ token[t[1]] = 1
            BY <2>2, <2>3, <2>5, <3>2, <5>1 DEF Issued, Device!Alive
          <5>4. s.token[2] = 1
            BY <5>2, <5>3, DevicesAssumed
          <5>5. s.token = <<t[1], token[t[1]]>> /\ s.token = t
            BY <2>2, <2>3, <3>2, <5>1, <5>2, <5>3, <5>4
          <5>6. s \in rows
            BY <2>2, <5>5 DEF DeviceInv, Device!RegisteredIsReachable, s
          <5>7. s = r
            BY <1>3, <2>1, <5>5, <5>6
          <5> QED
            BY <2>2, <3>2, <5>1, <5>7, DevicesAssumed
        <4> QED
          BY <4>1, <4>2
      <3> QED
        BY <3>1, <3>2
    <2> QED
      BY <2>3, <2>4, <2>5
  <1> HIDE DEF ts, from
  <1>7. p \in Pushes /\ p.pc = "send" /\ p.tokens = ts /\ p.origin = from
    BY <1>4, <1>5 DEF Pushes
  <1> HIDE DEF p
  <1>8. SendingIsRight'
    BY <1>1, <1>6, <1>7 DEF SendingIsRight, Issued, Device!Alive
  <1> QED
    BY <1>1, <1>7, <1>8, PushGoesOn
       DEF DeviceInv, DeviceTypes, Device!TypeOK, NothingStrayed, Device!OriginIsLeftOut,
           Device!PushesReachMembers

LEMMA DeliverDevice ==
    ASSUME DeviceInv, NEW failed \in SUBSET push.tokens, Device!Deliver(failed)
    PROVE  DeviceInv'
  <1> DEFINE reached == {t \in push.tokens \ failed : Device!Alive(t)}
             p       == [Device!NoPush EXCEPT !.pc = "prune", !.tokens = push.tokens \ reached]
  <1>1. /\ push' = p /\ push.pc = "send"
        /\ UNCHANGED <<firebase, rows, token, session, tokenRequest, registered>>
    BY DEF Device!Deliver
  <1>2. push.tokens \subseteq Device!Tokens
    BY DEF DeviceInv, DeviceTypes, Pushes
  <1>3. p \in Pushes /\ p.pc = "prune"
    BY <1>2 DEF Device!NoPush, Pushes
  <1>4. ASSUME NEW t \in reached
        PROVE  /\ t[1] # push.origin
               /\ t \notin push.changed => registered[t[1]].user \in Members \cup {Nobody}
    BY <1>1 DEF DeviceInv, SendingIsRight, Device!Alive
  <1>5. strayed' = strayed
    BY <1>4 DEF Device!Deliver, Device!AccountOf
  <1> HIDE DEF p
  <1>6. SendingIsRight'
    BY <1>1, <1>3 DEF SendingIsRight
  <1>7. firebase' \in {"unknown", "ready", "missing"} /\ NothingStrayed'
    BY <1>1, <1>5 DEF DeviceInv, DeviceTypes, Device!TypeOK, NothingStrayed,
                      Device!OriginIsLeftOut, Device!PushesReachMembers
  <1> QED
    BY <1>1, <1>3, <1>6, <1>7, PushGoesOn

\* Only rows with tokens that are rejected are deleted.
LEMMA PruneDevice ==
    ASSUME DeviceInv, Device!Prune
    PROVE  DeviceInv'
  <1>1. /\ push.pc = "prune" /\ push \in Pushes
        /\ UNCHANGED <<firebase, token, session, tokenRequest, registered, strayed>>
    BY DEF Device!Prune, DeviceInv, DeviceTypes
  <1>2. push' \in Pushes /\ push'.pc # "send"
    <2>1. CASE push' = Device!NoPush
      BY <2>1 DEF Device!NoPush, Pushes
    <2>2. CASE \E t \in push.tokens : push' = [push EXCEPT !.tokens = @ \ {t}]
      BY <1>1, <2>2 DEF Pushes
    <2> QED
      BY <2>1, <2>2 DEF Device!Prune
  <1>3. rows' \subseteq rows /\ \A r \in rows : Device!Alive(r.token) => r \in rows'
    BY DEF Device!Prune, Device!Rejected
  <1>4. SendingIsRight'
    BY <1>2 DEF SendingIsRight
  <1>5. firebase' \in {"unknown", "ready", "missing"} /\ NothingStrayed'
    BY <1>1 DEF DeviceInv, DeviceTypes, Device!TypeOK, NothingStrayed,
                Device!OriginIsLeftOut, Device!PushesReachMembers
  <1> QED
    BY <1>1, <1>2, <1>3, <1>4, <1>5, PushGoesOn

LEMMA DeviceStep == DeviceInv /\ [Device!Next]_deviceVars => DeviceInv'
  <1> SUFFICES ASSUME DeviceInv, [Device!Next]_deviceVars PROVE DeviceInv'
    OBVIOUS
  <1>1. ASSUME NEW d \in Devices, Device!Client(d) PROVE DeviceInv'
    BY <1>1, LoginDevice, RotateDevice, AskRegisterDevice, LogoutDevice DEF Device!Client
  <1>2. ASSUME NEW q \in Requests, Device!Server(q) PROVE DeviceInv'
    BY <1>2, LockTableDevice, RegisterDevice, UnregisterDevice, LoseDevice DEF Device!Server
  <1>3. CASE Device!Push
    <2>1. ASSUME NEW kind \in Device!Kinds, NEW named \in BOOLEAN, NEW muted \in SUBSET Members,
                 \/ \E d \in Devices : session[d] \in Members
                                        /\ Device!Select(kind, session[d], d, named, muted)
                 \/ Device!Select(kind, Nobody, NoDevice, FALSE, muted)
          PROVE  DeviceInv'
      BY <2>1, SelectDevice
    <2> QED
      BY <1>3, <2>1, ConnectDevice, DeliverDevice, PruneDevice DEF Device!Push
  <1>4. CASE UNCHANGED deviceVars
    BY <1>4 DEF deviceVars, DeviceInv, DeviceTypes, Device!TypeOK, RequestsAreMade, IsMade, IsOwn,
                RegistrationsAreOwn, RowsAreLast, Device!RegisteredIsReachable, SendingIsRight,
                NothingStrayed, Device!OriginIsLeftOut, Device!PushesReachMembers, Issued,
                Device!Alive
  <1> QED
    BY <1>1, <1>2, <1>3, <1>4 DEF Device!Next

\* An installation belongs to one account, and its last registration stands, whatever
\* logouts, replaced tokens and answers to pushes come late; a call event does not come
\* back to its installation; pushes reach installations of members, unless the account
\* changed meanwhile.
THEOREM TokensAreRight == Spec => []TokensHold
  <1>1. Init => DeviceInv
    BY DeviceInit DEF Init
  <1>2. DeviceInv /\ [Next]_vars => DeviceInv'
    <2> SUFFICES ASSUME DeviceInv, [Next]_vars PROVE DeviceInv'
      OBVIOUS
    <2>1. [Device!Next]_deviceVars
      BY DEF Next, PollNext, MarkNext, FileNext, DeviceNext, DirectNext, vars, deviceVars
    <2> QED
      BY <2>1, DeviceStep
  <1>3. DeviceInv => TokensHold
    BY DeviceInvSays
  <1> QED
    BY <1>1, <1>2, <1>3, PTL DEF Spec

-----------------------------------------------------------------------------
(* Attachments.                                                              *)

SendPcs   == {"source", "claim", "insert"}
RecallPcs == {"recall", "attachments", "avatars", "remove", "unclaim"}

FileRequests == [pc     : {"idle"} \cup SendPcs \cup RecallPcs,
                 msg    : Carriers \cup {NoMessage},
                 file   : Files \cup {NoFile},
                 source : Carriers \cup {NoMessage}]

\* What a request that sends relies on.  Its message is not there yet.  What it
\* forwards is of the same file and, once it is locked, live; what it claims is free.
SendOK(x) ==
    /\ x.pc \in SendPcs => /\ x.msg \in Carriers /\ x.file \in Files
                           /\ message[x.msg] = File!Unsent
                           /\ x.source # NoMessage => message[x.source].file = x.file
    /\ x.pc = "source" => x.source # NoMessage
    /\ x.pc = "claim" => x.source = NoMessage
    /\ x.pc = "insert" => IF x.source = NoMessage THEN pending[x.file] = "free"
                                                  ELSE message[x.source].state = "live"

\* What a request that recalls relies on.  Nobody refers to the file that is about to
\* be removed, except who chose it since; the claim that is about to go is of a file
\* that is gone, or that something else referred to.
RecallOK(x) ==
    /\ x.pc \in RecallPcs => /\ x.msg \in Carriers /\ x.file \in Files
                             /\ message[x.msg].file = x.file
    /\ x.pc \in {"avatars", "remove"} => File!Live(x.file) = {}
    /\ x.pc = "remove" /\ avatar = x.file => late
    /\ x.pc = "unclaim" /\ pending[x.file] = x.msg => x.file \in reused \/ x.file \notin disk

RequestsOK ==
    \A q \in Requests :
      /\ SendOK(fileRequest[q]) /\ RecallOK(fileRequest[q])
      /\ fileRequest[q].pc # "idle" => upload[fileRequest[q].file] = "done"

\* No two requests send the same message, or claim the same upload.
NoTwoSend ==
    \A q, r \in Requests :
      /\ q # r /\ fileRequest[q].pc \in SendPcs /\ fileRequest[r].pc \in SendPcs
      => /\ fileRequest[q].msg # fileRequest[r].msg
         /\ fileRequest[q].pc = "insert" /\ fileRequest[q].source = NoMessage
              /\ fileRequest[r].pc = "insert" /\ fileRequest[r].source = NoMessage
              => fileRequest[q].file # fileRequest[r].file

\* An upload is referred to when it is done; it is free as long as no message had it.
UploadsOK ==
    \A f \in Files :
      /\ upload[f] # "done" => /\ pending[f] = "none" /\ avatar # f
                               /\ \A m \in Carriers : message[m].file # f
      /\ upload[f] = "saved" => f \in disk
      /\ pending[f] = "free" => f \in disk /\ \A m \in Carriers : message[m].file # f

\* A file of messages whose row is gone had another reference when it went.
RowsStay ==
    \A f \in disk : pending[f] = "none" /\ (\E m \in Carriers : message[m].file = f) => f \in reused

FileInv ==
    /\ File!TypeOK /\ fileRequest \in [Requests -> FileRequests]
    /\ RequestsOK /\ NoTwoSend /\ UploadsOK /\ RowsStay
    /\ File!LiveHasFile /\ File!AvatarHasFile /\ File!ClaimedByOne

LEMMA FilesAssumed ==
    /\ NoMessage \notin Carriers /\ NoFile \notin Files
    /\ "none" \notin Carriers /\ "free" \notin Carriers
  BY ServiceAssumption DEF File!AttachmentConstants

LEMMA UnsentHasNothing ==
    File!Unsent.file = NoFile /\ File!Unsent.state = "unsent" /\ File!Unsent.source = NoMessage
  BY DEF File!Unsent

LEMMA IdleFileRequest ==
    File!Idle \in FileRequests /\ File!Idle.pc = "idle" /\ SendOK(File!Idle) /\ RecallOK(File!Idle)
  BY DEF File!Idle, FileRequests, SendOK, RecallOK, SendPcs, RecallPcs

LEMMA FileInit == File!Init => FileInv
  <1> SUFFICES ASSUME File!Init PROVE FileInv
    OBVIOUS
  <1>1. \A m \in Carriers : message[m] = File!Unsent
    BY DEF File!Init
  <1>2. \A q \in Requests : fileRequest[q] = File!Idle
    BY DEF File!Init
  <1>3. File!TypeOK /\ fileRequest \in [Requests -> FileRequests]
    BY IdleFileRequest DEF File!Init, File!TypeOK
  <1>4. RequestsOK /\ NoTwoSend
    BY <1>2, IdleFileRequest DEF RequestsOK, NoTwoSend, SendPcs
  <1>5. UploadsOK /\ RowsStay
    BY <1>1, UnsentHasNothing, FilesAssumed DEF File!Init, UploadsOK, RowsStay
  <1> QED
    BY <1>1, <1>3, <1>4, <1>5, UnsentHasNothing, FilesAssumed
       DEF File!Init, FileInv, File!LiveHasFile, File!AvatarHasFile, File!ClaimedByOne

\* The file of a live message is there; a row that is gone is no row on record.
LEMMA FileInvSays ==
    ASSUME FileInv
    PROVE  FilesHold
  <1>1. File!LeftoverIsRecorded
    BY DEF FileInv, RowsStay, File!LeftoverIsRecorded
  <1> QED
    BY <1>1 DEF FileInv, FilesHold

\* One request goes on; the tables are as before, but for what is noted as reused.
LEMMA OneFileRequest ==
    ASSUME FileInv, NEW q \in Requests, NEW x \in FileRequests, SendOK(x), RecallOK(x),
           x.pc # "idle" => upload[x.file] = "done",
           \A r \in Requests : r # q /\ x.pc \in SendPcs /\ fileRequest[r].pc \in SendPcs
             => /\ fileRequest[r].msg # x.msg
                /\ x.pc = "insert" /\ x.source = NoMessage
                     /\ fileRequest[r].pc = "insert" /\ fileRequest[r].source = NoMessage
                     => fileRequest[r].file # x.file,
           fileRequest' = [fileRequest EXCEPT ![q] = x],
           reused' = reused,
           UNCHANGED <<disk, upload, pending, message, avatar, late>>
    PROVE  FileInv'
  <1>1. /\ fileRequest' \in [Requests -> FileRequests]
        /\ \A r \in Requests : fileRequest'[r] = IF r = q THEN x ELSE fileRequest[r]
    BY DEF FileInv
  <1>2. \A r \in Requests : /\ SendOK(fileRequest'[r]) /\ RecallOK(fileRequest'[r])
                            /\ fileRequest'[r].pc # "idle" => upload[fileRequest'[r].file] = "done"
    BY <1>1 DEF FileInv, RequestsOK
  <1>3. RequestsOK'
    BY <1>2 DEF RequestsOK, SendOK, RecallOK, File!Live
  <1>4. NoTwoSend'
    BY <1>1 DEF FileInv, NoTwoSend
  <1> QED
    BY <1>1, <1>3, <1>4
       DEF FileInv, File!TypeOK, UploadsOK, RowsStay, File!LiveHasFile, File!AvatarHasFile,
           File!ClaimedByOne

\* A request that ends, or that does not send, is in nobody's way.
LEMMA NotSending ==
    ASSUME FileInv, NEW q \in Requests, NEW x \in FileRequests, SendOK(x), RecallOK(x),
           x.pc # "idle" => upload[x.file] = "done",
           x.pc \notin SendPcs,
           fileRequest' = [fileRequest EXCEPT ![q] = x],
           reused' = reused,
           UNCHANGED <<disk, upload, pending, message, avatar, late>>
    PROVE  FileInv'
  BY OneFileRequest

\* A note that a file was reused harms nothing.
LEMMA NoteReused ==
    ASSUME FileInv, NEW q \in Requests, NEW x \in FileRequests, SendOK(x),
           x.pc = "unclaim", x.msg \in Carriers, x.file \in Files, message[x.msg].file = x.file,
           upload[x.file] = "done",
           pending[x.file] = x.msg => x.file \in reused',
           fileRequest' = [fileRequest EXCEPT ![q] = x],
           reused \subseteq reused', reused' \subseteq Files,
           UNCHANGED <<disk, upload, pending, message, avatar, late>>
    PROVE  FileInv'
  <1>1. /\ fileRequest' \in [Requests -> FileRequests]
        /\ \A r \in Requests : fileRequest'[r] = IF r = q THEN x ELSE fileRequest[r]
    BY DEF FileInv
  <1>2. RequestsOK'
    <2> SUFFICES ASSUME NEW r \in Requests
                 PROVE  /\ SendOK(fileRequest[r])' /\ RecallOK(fileRequest[r])'
                        /\ fileRequest'[r].pc # "idle" => upload[fileRequest'[r].file] = "done"
      BY DEF RequestsOK
    <2>1. CASE r = q
      BY <1>1, <2>1 DEF SendOK, RecallOK, SendPcs
    <2>2. CASE r # q
      <3>1. fileRequest'[r] = fileRequest[r] /\ SendOK(fileRequest[r]) /\ RecallOK(fileRequest[r])
            /\ (fileRequest[r].pc # "idle" => upload[fileRequest[r].file] = "done")
        BY <1>1, <2>2 DEF FileInv, RequestsOK
      <3> QED
        BY <3>1 DEF SendOK, RecallOK, File!Live
    <2> QED
      BY <2>1, <2>2
  <1>3. NoTwoSend'
    BY <1>1 DEF FileInv, NoTwoSend, SendPcs
  <1> QED
    BY <1>1, <1>2, <1>3
       DEF FileInv, File!TypeOK, UploadsOK, RowsStay, File!LiveHasFile, File!AvatarHasFile,
           File!ClaimedByOne

\* What a request is about, by what it is doing.
LEMMA FileRequestSays ==
    ASSUME FileInv, NEW q \in Requests
    PROVE  /\ fileRequest[q] \in FileRequests /\ SendOK(fileRequest[q]) /\ RecallOK(fileRequest[q])
           /\ fileRequest[q].pc # "idle" =>
                /\ fileRequest[q].msg \in Carriers /\ fileRequest[q].file \in Files
                /\ upload[fileRequest[q].file] = "done"
  <1>1. fileRequest[q] \in FileRequests /\ SendOK(fileRequest[q]) /\ RecallOK(fileRequest[q])
        /\ (fileRequest[q].pc # "idle" => upload[fileRequest[q].file] = "done")
    BY DEF FileInv, RequestsOK
  <1>2. fileRequest[q].pc \in {"idle"} \cup SendPcs \cup RecallPcs
    BY <1>1 DEF FileRequests
  <1> QED
    BY <1>1, <1>2 DEF SendOK, RecallOK

LEMMA EndFileRequest ==
    ASSUME FileInv, NEW q \in Requests, File!Done(q),
           UNCHANGED <<disk, upload, pending, message, avatar, late, reused>>
    PROVE  FileInv'
  BY IdleFileRequest, NotSending DEF File!Done, SendPcs

\* A request goes on with the same file and message.
LEMMA StepOfRequest ==
    ASSUME FileInv, NEW q \in Requests, NEW pc \in {"idle"} \cup SendPcs \cup RecallPcs,
           fileRequest[q].pc # "idle"
    PROVE  /\ [fileRequest[q] EXCEPT !.pc = pc] \in FileRequests
           /\ [fileRequest[q] EXCEPT !.pc = pc].pc = pc
           /\ [fileRequest[q] EXCEPT !.pc = pc].msg = fileRequest[q].msg
           /\ [fileRequest[q] EXCEPT !.pc = pc].file = fileRequest[q].file
           /\ [fileRequest[q] EXCEPT !.pc = pc].source = fileRequest[q].source
  <1>1. fileRequest[q] \in FileRequests
    BY DEF FileInv
  <1> QED
    BY <1>1 DEF FileRequests

LEMMA BeginSendFile ==
    ASSUME FileInv, NEW q \in Requests, NEW m \in Carriers, NEW f \in Files,
           NEW source \in Carriers \cup {NoMessage}, File!BeginSend(q, m, f, source)
    PROVE  FileInv'
  <1> DEFINE pc == IF source = NoMessage THEN "claim" ELSE "source"
             x  == [pc |-> pc, msg |-> m, file |-> f, source |-> source]
  <1>1. x \in FileRequests /\ x.pc \in {"claim", "source"} /\ x.pc = pc
        /\ x.msg = m /\ x.file = f /\ x.source = source
    BY DEF FileRequests, SendPcs
  <1>2. /\ message[m] = File!Unsent /\ m \notin File!Sending /\ upload[f] = "done"
        /\ source # NoMessage => message[source].file = f
        /\ fileRequest' = [fileRequest EXCEPT ![q] = x]
        /\ UNCHANGED <<disk, upload, pending, message, avatar, late, reused>>
    BY DEF File!BeginSend
  <1> HIDE DEF x
  <1>3. SendOK(x) /\ RecallOK(x)
    BY <1>1, <1>2 DEF SendOK, RecallOK, RecallPcs
  <1>4. ASSUME NEW r \in Requests, fileRequest[r].pc \in SendPcs PROVE fileRequest[r].msg # m
    BY <1>2, <1>4 DEF File!Sending, SendPcs
  <1> QED
    BY <1>1, <1>2, <1>3, <1>4, OneFileRequest

\* What is forwarded stays locked; if it is not live the file must be claimed.
LEMMA TakeSourceFile ==
    ASSUME FileInv, NEW q \in Requests, File!TakeSource(q)
    PROVE  FileInv'
  <1> DEFINE r    == fileRequest[q]
             live == message[r.source].state = "live"
             x    == [r EXCEPT !.pc = IF live THEN "insert" ELSE "claim",
                               !.source = IF live THEN r.source ELSE NoMessage]
  <1>1. /\ r \in FileRequests /\ r.pc = "source" /\ SendOK(r) /\ upload[r.file] = "done"
        /\ r.msg \in Carriers /\ r.file \in Files
    BY FileRequestSays DEF File!TakeSource
  <1>2. /\ fileRequest' = [fileRequest EXCEPT ![q].pc = IF live THEN "insert" ELSE "claim",
                                              ![q].source = IF live THEN r.source ELSE NoMessage]
        /\ UNCHANGED <<disk, upload, pending, message, avatar, late, reused>>
    BY DEF File!TakeSource
  <1>3. fileRequest' = [fileRequest EXCEPT ![q] = x]
    BY <1>2 DEF FileInv
  <1>4. /\ x \in FileRequests /\ x.msg = r.msg /\ x.file = r.file
        /\ (live /\ x.pc = "insert" /\ x.source = r.source)
             \/ (~live /\ x.pc = "claim" /\ x.source = NoMessage)
    BY <1>1 DEF FileRequests, SendPcs
  <1>5. r.source # NoMessage
    BY <1>1 DEF SendOK
  <1>6. SendOK(x) /\ RecallOK(x)
    <2> HIDE DEF x, r
    <2> QED
      BY <1>1, <1>4, <1>5 DEF SendOK, RecallOK, SendPcs, RecallPcs
  <1>7. ASSUME NEW s \in Requests, s # q, fileRequest[s].pc \in SendPcs
        PROVE  fileRequest[s].msg # r.msg
    BY <1>1, <1>7 DEF FileInv, NoTwoSend, SendPcs
  <1>8. \A s \in Requests : s # q /\ x.pc \in SendPcs /\ fileRequest[s].pc \in SendPcs
             => /\ fileRequest[s].msg # x.msg
                /\ x.pc = "insert" /\ x.source = NoMessage
                     /\ fileRequest[s].pc = "insert" /\ fileRequest[s].source = NoMessage
                     => fileRequest[s].file # x.file
    BY <1>4, <1>5, <1>7
  <1>9. x \in FileRequests /\ upload[x.file] = "done"
    BY <1>1, <1>4
  <1> HIDE DEF x, r
  <1> QED
    BY <1>2, <1>3, <1>6, <1>8, <1>9, OneFileRequest

LEMMA ClaimFile ==
    ASSUME FileInv, NEW q \in Requests, File!Claim(q)
    PROVE  FileInv'
  <1> DEFINE r == fileRequest[q]
             x == [fileRequest[q] EXCEPT !.pc = "insert"]
  <1>1. /\ r.pc = "claim" /\ SendOK(r) /\ upload[r.file] = "done" /\ r.file \notin File!UploadsLocked
        /\ UNCHANGED <<disk, upload, pending, message, avatar, late, reused>>
    BY FileRequestSays DEF File!Claim
  <1>2. CASE File!Done(q)
    BY <1>1, <1>2, EndFileRequest
  <1>3. CASE pending[r.file] = "free" /\ File!Step(q, "insert")
    <2>1. fileRequest' = [fileRequest EXCEPT ![q] = x]
      BY <1>3 DEF File!Step, FileInv
    <2>2. /\ x \in FileRequests /\ x.pc = "insert" /\ x.msg = r.msg /\ x.file = r.file
          /\ x.source = r.source
      BY <1>1, StepOfRequest DEF SendPcs
    <2>3. r.source = NoMessage
      BY <1>1 DEF SendOK
    <2> HIDE DEF x
    <2>4. SendOK(x) /\ RecallOK(x)
      BY <1>1, <1>3, <2>2, <2>3 DEF SendOK, RecallOK, SendPcs, RecallPcs
    <2>5. ASSUME NEW s \in Requests, s # q, fileRequest[s].pc \in SendPcs
          PROVE  /\ fileRequest[s].msg # r.msg
                 /\ fileRequest[s].pc = "insert" /\ fileRequest[s].source = NoMessage
                      => fileRequest[s].file # r.file
      <3>1. fileRequest[s].msg # r.msg
        BY <1>1, <2>5 DEF FileInv, NoTwoSend, SendPcs
      <3>2. ASSUME fileRequest[s].pc = "insert", fileRequest[s].source = NoMessage
            PROVE  fileRequest[s].file # r.file
        BY <1>1, <3>2 DEF File!UploadsLocked
      <3> QED
        BY <3>1, <3>2
    <2>6. \A s \in Requests : s # q /\ x.pc \in SendPcs /\ fileRequest[s].pc \in SendPcs
               => /\ fileRequest[s].msg # x.msg
                  /\ x.pc = "insert" /\ x.source = NoMessage
                       /\ fileRequest[s].pc = "insert" /\ fileRequest[s].source = NoMessage
                       => fileRequest[s].file # x.file
      BY <2>2, <2>5
    <2>7. x \in FileRequests /\ upload[x.file] = "done"
      BY <1>1, <2>2
    <2> QED
      BY <1>1, <2>1, <2>4, <2>6, <2>7, OneFileRequest
  <1> QED
    BY <1>2, <1>3 DEF File!Claim

LEMMA BeginRecallFile ==
    ASSUME FileInv, NEW q \in Requests, NEW m \in Carriers, File!BeginRecall(q, m)
    PROVE  FileInv'
  <1> DEFINE f == message[m].file
             x == [File!Idle EXCEPT !.pc = "recall", !.msg = m, !.file = f]
  <1>1. /\ message[m].state = "live" /\ fileRequest' = [fileRequest EXCEPT ![q] = x]
        /\ UNCHANGED <<disk, upload, pending, message, avatar, late, reused>>
    BY DEF File!BeginRecall
  <1>2. f \in Files
    BY <1>1, UnsentHasNothing DEF FileInv, File!TypeOK
  <1>3. upload[f] = "done"
    BY <1>2 DEF FileInv, UploadsOK
  <1>4. /\ x \in FileRequests /\ x.pc = "recall" /\ x.msg = m /\ x.file = f
    BY <1>2 DEF File!Idle, FileRequests, RecallPcs
  <1> HIDE DEF x
  <1>5. SendOK(x) /\ RecallOK(x) /\ x.pc \notin SendPcs
    BY <1>2, <1>4 DEF SendOK, RecallOK, SendPcs
  <1> HIDE DEF f
  <1> QED
    BY <1>1, <1>3, <1>4, <1>5, NotSending

\* A recall goes on: it found no reference, or the file stays.
LEMMA RecallGoesOn ==
    ASSUME FileInv, NEW q \in Requests, NEW pc \in {"avatars", "remove"},
           fileRequest[q].pc \in RecallPcs,
           File!Live(fileRequest[q].file) = {},
           pc = "remove" => avatar # fileRequest[q].file,
           File!Step(q, pc), reused' = reused,
           UNCHANGED <<disk, upload, pending, message, avatar, late>>
    PROVE  FileInv'
  <1> DEFINE r == fileRequest[q]
             x == [fileRequest[q] EXCEPT !.pc = pc]
  <1>1. /\ r \in FileRequests /\ r.msg \in Carriers /\ r.file \in Files
        /\ upload[r.file] = "done" /\ message[r.msg].file = r.file
    BY FileRequestSays DEF RecallPcs, RecallOK
  <1>2. fileRequest' = [fileRequest EXCEPT ![q] = x]
    BY DEF File!Step, FileInv
  <1>3. /\ x \in FileRequests /\ x.pc = pc /\ x.msg = r.msg /\ x.file = r.file
    BY StepOfRequest DEF RecallPcs
  <1> HIDE DEF x
  <1>4. SendOK(x) /\ RecallOK(x) /\ x.pc \notin SendPcs
    BY <1>1, <1>3 DEF SendOK, RecallOK, SendPcs
  <1> QED
    BY <1>1, <1>2, <1>3, <1>4, NotSending

LEMMA KeepFile ==
    ASSUME FileInv, NEW q \in Requests, fileRequest[q].pc \in RecallPcs, File!Keep(q),
           UNCHANGED <<disk, upload, pending, message, avatar, late>>
    PROVE  FileInv'
  <1> DEFINE r == fileRequest[q]
             x == [fileRequest[q] EXCEPT !.pc = "unclaim"]
  <1>1. /\ r \in FileRequests /\ r.msg \in Carriers /\ r.file \in Files
        /\ upload[r.file] = "done" /\ message[r.msg].file = r.file
    BY FileRequestSays DEF RecallPcs, RecallOK
  <1>2. fileRequest' = [fileRequest EXCEPT ![q] = x]
    BY DEF File!Keep, File!Step, FileInv
  <1>3. /\ x \in FileRequests /\ x.pc = "unclaim" /\ x.msg = r.msg /\ x.file = r.file
    BY StepOfRequest DEF RecallPcs
  <1> HIDE DEF x
  <1>4. SendOK(x)
    BY <1>3 DEF SendOK, SendPcs
  <1>5. reused' \subseteq Files /\ reused \subseteq reused'
        /\ (pending[r.file] = r.msg => r.file \in reused')
    BY <1>1 DEF File!Keep, FileInv, File!TypeOK
  <1> QED
    BY <1>1, <1>2, <1>3, <1>4, <1>5, NoteReused

LEMMA CountFile ==
    ASSUME FileInv, NEW q \in Requests, File!CountAttachments(q) \/ File!CountAvatars(q)
    PROVE  FileInv'
  <1>1. CASE File!CountAttachments(q)
    <2>1. fileRequest[q].pc = "attachments" /\ UNCHANGED <<disk, upload, pending, message, avatar, late>>
      BY <1>1 DEF File!CountAttachments
    <2>2. CASE File!Keep(q)
      BY <2>1, <2>2, KeepFile DEF RecallPcs
    <2>3. CASE File!Live(fileRequest[q].file) = {} /\ File!Step(q, "avatars") /\ UNCHANGED reused
      BY <2>1, <2>3, RecallGoesOn DEF RecallPcs
    <2> QED
      BY <1>1, <2>2, <2>3 DEF File!CountAttachments
  <1>2. CASE File!CountAvatars(q)
    <2>1. /\ fileRequest[q].pc = "avatars" /\ UNCHANGED <<disk, upload, pending, message, avatar, late>>
          /\ File!Live(fileRequest[q].file) = {}
      BY <1>2, FileRequestSays DEF File!CountAvatars, RecallOK
    <2>2. CASE File!Keep(q)
      BY <2>1, <2>2, KeepFile DEF RecallPcs
    <2>3. CASE avatar # fileRequest[q].file /\ File!Step(q, "remove") /\ UNCHANGED reused
      BY <2>1, <2>3, RecallGoesOn DEF RecallPcs
    <2> QED
      BY <1>2, <2>2, <2>3 DEF File!CountAvatars
  <1> QED
    BY <1>1, <1>2

LEMMA FailFile ==
    ASSUME FileInv, NEW q \in Requests, File!RemoveFails(q) \/ File!Rollback(q)
    PROVE  FileInv'
  BY EndFileRequest DEF File!RemoveFails, File!Rollback

\* Uploads go on: no request and no message has the file yet.
LEMMA UploadGoesOn ==
    ASSUME FileInv, NEW f \in Files, upload[f] # "done",
           NEW how \in {"saved", "done"}, NEW claim \in {"none", "free"},
           upload' = [upload EXCEPT ![f] = how],
           pending' = [pending EXCEPT ![f] = claim],
           disk' \in {disk, disk \cup {f}, disk \ {f}},
           how = "saved" \/ claim = "free" => f \in disk',
           how = "saved" => claim = "none",
           UNCHANGED <<message, avatar, fileRequest, late, reused>>
    PROVE  FileInv'
  <1>1. /\ upload' \in [Files -> {"none", "saved", "done", "lost"}]
        /\ pending' \in [Files -> {"none", "free"} \cup Carriers] /\ disk' \subseteq Files
        /\ \A g \in Files : /\ upload'[g] = IF g = f THEN how ELSE upload[g]
                            /\ pending'[g] = IF g = f THEN claim ELSE pending[g]
                            /\ g # f => (g \in disk' <=> g \in disk)
    BY DEF FileInv, File!TypeOK
  <1>2. avatar # f /\ \A m \in Carriers : message[m].file # f
    BY DEF FileInv, UploadsOK
  <1>3. RequestsOK'
    <2> SUFFICES ASSUME NEW q \in Requests
                 PROVE  /\ SendOK(fileRequest[q])' /\ RecallOK(fileRequest[q])'
                        /\ fileRequest[q].pc # "idle" => upload'[fileRequest[q].file] = "done"
      BY DEF RequestsOK
    <2> DEFINE x == fileRequest[q]
    <2>1. CASE x.pc = "idle"
      BY <2>1 DEF SendOK, RecallOK, SendPcs, RecallPcs
    <2>2. CASE x.pc # "idle"
      <3>1. x.file \in Files /\ upload[x.file] = "done" /\ SendOK(x) /\ RecallOK(x)
        BY <2>2, FileRequestSays
      <3>2. /\ x.file # f /\ upload'[x.file] = "done" /\ pending'[x.file] = pending[x.file]
            /\ x.file \in disk' <=> x.file \in disk
        BY <1>1, <3>1
      <3> QED
        BY <3>1, <3>2 DEF SendOK, RecallOK, File!Live
    <2> QED
      BY <2>1, <2>2
  <1>4. NoTwoSend'
    BY DEF FileInv, NoTwoSend
  <1>5. UploadsOK'
    BY <1>1, <1>2 DEF FileInv, UploadsOK
  <1>6. RowsStay'
    <2> SUFFICES ASSUME NEW g \in disk', pending'[g] = "none", NEW m \in Carriers, message[m].file = g
                 PROVE  g \in reused
      BY DEF RowsStay
    <2>1. g # f /\ g \in disk /\ g \in Files /\ pending[g] = "none"
      BY <1>1, <1>2
    <2> QED
      BY <2>1 DEF FileInv, RowsStay
  <1>7. File!LiveHasFile'
    <2> SUFFICES ASSUME NEW m \in Carriers, message[m].state = "live" PROVE message[m].file \in disk'
      BY DEF File!LiveHasFile
    <2> QED
      BY <1>2 DEF FileInv, File!LiveHasFile
  <1>8. File!AvatarHasFile'
    BY <1>2 DEF FileInv, File!AvatarHasFile
  <1> QED
    BY <1>1, <1>3, <1>4, <1>5, <1>6, <1>7, <1>8 DEF FileInv, File!TypeOK, File!ClaimedByOne

LEMMA UploadFile ==
    ASSUME FileInv, NEW f \in Files, File!Save(f) \/ File!Register(f) \/ File!RegisterFails(f)
    PROVE  FileInv'
  <1>1. upload[f] # "done" /\ pending[f] = "none" /\ pending = [pending EXCEPT ![f] = "none"]
        /\ (upload[f] = "saved" => f \in disk)
    BY DEF File!Save, File!Register, File!RegisterFails, FileInv, UploadsOK, File!TypeOK
  <1>2. CASE File!Save(f)
    BY <1>1, <1>2, UploadGoesOn DEF File!Save
  <1>3. CASE File!Register(f)
    BY <1>1, <1>3, UploadGoesOn DEF File!Register
  <1>4. CASE File!RegisterFails(f)
    BY <1>1, <1>4, UploadGoesOn DEF File!RegisterFails
  <1> QED
    BY <1>2, <1>3, <1>4

LEMMA CrashFile ==
    ASSUME FileInv, File!Crash
    PROVE  FileInv'
  <1>1. /\ \A f \in Files : upload'[f] = IF upload[f] = "saved" THEN "lost" ELSE upload[f]
        /\ \A q \in Requests : fileRequest'[q] = File!Idle
        /\ UNCHANGED <<disk, pending, message, avatar, late, reused>>
    BY DEF File!Crash
  <1>2. /\ upload' \in [Files -> {"none", "saved", "done", "lost"}]
        /\ fileRequest' \in [Requests -> FileRequests]
    BY IdleFileRequest DEF File!Crash, FileInv, File!TypeOK
  <1>3. RequestsOK' /\ NoTwoSend'
    BY <1>1, IdleFileRequest DEF RequestsOK, NoTwoSend, SendOK, RecallOK, SendPcs, RecallPcs
  <1>4. UploadsOK'
    BY <1>1 DEF FileInv, UploadsOK
  <1> QED
    BY <1>1, <1>2, <1>3, <1>4
       DEF FileInv, File!TypeOK, RowsStay, File!LiveHasFile, File!AvatarHasFile, File!ClaimedByOne

\* The message is there: what it refers to was locked, so nobody is about to remove it.
LEMMA CommitSendFile ==
    ASSUME FileInv, NEW q \in Requests, File!CommitSend(q)
    PROVE  FileInv'
  <1> DEFINE x    == fileRequest[q]
             m    == x.msg
             f    == x.file
             src  == x.source
             sent2 == [state |-> "live", file |-> f, source |-> src]
  <1>1. /\ x.pc = "insert" /\ SendOK(x) /\ x \in FileRequests
        /\ m \in Carriers /\ f \in Files /\ upload[f] = "done"
    BY FileRequestSays DEF File!CommitSend
  <1>2. /\ message[m] = File!Unsent /\ src \in Carriers \cup {NoMessage}
        /\ src # NoMessage => message[src].file = f /\ message[src].state = "live"
        /\ src = NoMessage => pending[f] = "free"
    BY <1>1 DEF SendOK, SendPcs, FileRequests
  <1>3. /\ message' = [message EXCEPT ![m] = sent2]
        /\ pending' = IF src = NoMessage THEN [pending EXCEPT ![f] = m] ELSE pending
        /\ fileRequest' = [fileRequest EXCEPT ![q] = File!Idle]
        /\ UNCHANGED <<disk, upload, avatar, late, reused>>
    BY DEF File!CommitSend, File!Done
  <1>4. sent2.state = "live" /\ sent2.file = f /\ sent2.source = src
        /\ sent2 \in [state : {"live", "recalled"}, file : Files, source : Carriers \cup {NoMessage}]
    BY <1>1, <1>2
  <1> HIDE DEF sent2
  <1>5. /\ File!TypeOK' /\ fileRequest' \in [Requests -> FileRequests]
        /\ \A n \in Carriers : message'[n] = IF n = m THEN sent2 ELSE message[n]
        /\ \A g \in Files : pending'[g] = IF src = NoMessage /\ g = f THEN m ELSE pending[g]
        /\ \A r \in Requests : fileRequest'[r] = IF r = q THEN File!Idle ELSE fileRequest[r]
    BY <1>1, <1>3, <1>4, IdleFileRequest DEF FileInv, File!TypeOK
  <1> HIDE DEF x, m, f, src
  <1>6. m # "none" /\ m # "free" /\ f # NoFile
    BY <1>1, FilesAssumed
  <1>7. f \in disk
    BY <1>1, <1>2 DEF FileInv, File!LiveHasFile, UploadsOK
  <1>8. NoTwoSend'
    BY <1>5, IdleFileRequest DEF FileInv, NoTwoSend, SendPcs
  <1>9. ASSUME NEW r \in Requests, r # q, fileRequest[r].pc # "idle"
        PROVE  /\ fileRequest[r].pc \in SendPcs => fileRequest[r].msg # m
               /\ fileRequest[r].pc \in RecallPcs => fileRequest[r].msg # m
               /\ fileRequest[r].pc \in {"avatars", "remove"} => fileRequest[r].file # f
               /\ fileRequest[r].pc = "insert" /\ fileRequest[r].source = NoMessage
                    /\ src = NoMessage => fileRequest[r].file # f
    <2> DEFINE y == fileRequest[r]
    <2>1. /\ y \in FileRequests /\ SendOK(y) /\ RecallOK(y)
          /\ y.msg \in Carriers /\ y.file \in Files
      BY <1>9, FileRequestSays
    <2>2. y.pc \in SendPcs => y.msg # m
      BY <1>1, <1>9 DEF FileInv, NoTwoSend, x, m, SendPcs
    <2>3. y.pc \in RecallPcs => y.msg # m
      BY <1>2, <2>1, UnsentHasNothing, FilesAssumed DEF RecallOK
    <2>4. ASSUME y.pc \in {"avatars", "remove"} PROVE y.file # f
      <3>1. File!Live(y.file) = {} /\ y.msg \in Carriers /\ message[y.msg].file = y.file
        BY <2>1, <2>4 DEF RecallOK, RecallPcs
      <3>2. CASE src = NoMessage
        BY <1>1, <1>2, <3>1, <3>2 DEF FileInv, UploadsOK
      <3>3. CASE src # NoMessage
        BY <1>2, <3>1, <3>3 DEF File!Live
      <3> QED
        BY <3>2, <3>3
    <2>5. y.pc = "insert" /\ y.source = NoMessage /\ src = NoMessage => y.file # f
      BY <1>1, <1>9 DEF FileInv, NoTwoSend, x, f, src, SendPcs
    <2> QED
      BY <2>2, <2>3, <2>4, <2>5
  <1>10. RequestsOK'
    <2> SUFFICES ASSUME NEW r \in Requests
                 PROVE  /\ SendOK(fileRequest[r])' /\ RecallOK(fileRequest[r])'
                        /\ fileRequest'[r].pc # "idle" => upload[fileRequest'[r].file] = "done"
      BY <1>3 DEF RequestsOK
    <2> DEFINE y == fileRequest[r]
    <2>1. CASE r = q \/ y.pc = "idle"
      BY <1>5, <2>1, IdleFileRequest DEF SendOK, RecallOK, SendPcs, RecallPcs
    <2>2. CASE r # q /\ y.pc # "idle"
      <3>1. /\ y \in FileRequests /\ SendOK(y) /\ RecallOK(y)
            /\ y.msg \in Carriers /\ y.file \in Files /\ upload[y.file] = "done"
            /\ y.source \in Carriers \cup {NoMessage}
        BY <2>2, FileRequestSays DEF FileRequests
      <3>2. fileRequest'[r] = y
        BY <1>5, <2>2
      <3> HIDE DEF y
      <3>3. SendOK(fileRequest[r])'
        <4> SUFFICES ASSUME y.pc \in SendPcs
                     PROVE  /\ y.msg \in Carriers /\ y.file \in Files
                            /\ message'[y.msg] = File!Unsent
                            /\ y.source # NoMessage => message'[y.source].file = y.file
                            /\ y.pc = "source" => y.source # NoMessage
                            /\ y.pc = "claim" => y.source = NoMessage
                            /\ y.pc = "insert" => IF y.source = NoMessage THEN pending'[y.file] = "free"
                                                  ELSE message'[y.source].state = "live"
          BY <3>2 DEF SendOK, SendPcs
        <4>1. /\ message[y.msg] = File!Unsent
              /\ y.source # NoMessage => message[y.source].file = y.file
              /\ y.pc = "source" => y.source # NoMessage
              /\ y.pc = "claim" => y.source = NoMessage
              /\ y.pc = "insert" => IF y.source = NoMessage THEN pending[y.file] = "free"
                                    ELSE message[y.source].state = "live"
          BY <3>1 DEF SendOK, SendPcs
        <4>2. y.msg # m
              /\ (y.pc = "insert" /\ y.source = NoMessage /\ src = NoMessage => y.file # f)
          BY <1>9, <2>2 DEF y
        <4>3. y.source # NoMessage => y.source # m
          BY <1>2, <3>1, <4>1, UnsentHasNothing, FilesAssumed
        <4> QED
          BY <1>5, <3>1, <4>1, <4>2, <4>3
      <3>4. RecallOK(fileRequest[r])'
        <4> SUFFICES ASSUME y.pc \in RecallPcs
                     PROVE  /\ y.msg \in Carriers /\ y.file \in Files
                            /\ message'[y.msg].file = y.file
                            /\ y.pc \in {"avatars", "remove"} =>
                                 \A n \in Carriers : ~(message'[n].state = "live" /\ message'[n].file = y.file)
                            /\ y.pc = "remove" /\ avatar = y.file => late
                            /\ y.pc = "unclaim" /\ pending'[y.file] = y.msg
                                 => y.file \in reused \/ y.file \notin disk
          BY <1>3, <3>2 DEF RecallOK, RecallPcs, File!Live
        <4>1. /\ message[y.msg].file = y.file
              /\ y.pc \in {"avatars", "remove"} => File!Live(y.file) = {}
              /\ y.pc = "remove" /\ avatar = y.file => late
              /\ y.pc = "unclaim" /\ pending[y.file] = y.msg
                   => y.file \in reused \/ y.file \notin disk
          BY <3>1 DEF RecallOK, RecallPcs
        <4>2. y.msg # m /\ (y.pc \in {"avatars", "remove"} => y.file # f)
          BY <1>9, <2>2 DEF y
        <4>3. y.pc \in {"avatars", "remove"} =>
                \A n \in Carriers : ~(message'[n].state = "live" /\ message'[n].file = y.file)
          BY <1>4, <1>5, <4>1, <4>2 DEF File!Live
        <4> QED
          BY <1>5, <3>1, <4>1, <4>2, <4>3
      <3> QED
        BY <3>1, <3>2, <3>3, <3>4
    <2> QED
      BY <2>1, <2>2
  <1>11. UploadsOK'
    <2> SUFFICES ASSUME NEW g \in Files
                 PROVE  /\ upload[g] # "done" => /\ pending'[g] = "none" /\ avatar # g
                                                 /\ \A n \in Carriers : message'[n].file # g
                        /\ upload[g] = "saved" => g \in disk
                        /\ pending'[g] = "free" => g \in disk /\ \A n \in Carriers : message'[n].file # g
      BY <1>3 DEF UploadsOK
    <2>1. CASE g = f
      <3>1. pending'[g] # "free"
        BY <1>1, <1>2, <1>5, <1>6, <2>1 DEF FileInv, UploadsOK
      <3> QED
        BY <1>1, <2>1, <3>1
    <2>2. CASE g # f
      BY <1>1, <1>4, <1>5, <2>2 DEF FileInv, UploadsOK
    <2> QED
      BY <2>1, <2>2
  <1>12. RowsStay'
    <2> SUFFICES ASSUME NEW g \in disk, pending'[g] = "none",
                        NEW n \in Carriers, message'[n].file = g
                 PROVE  g \in reused
      BY <1>3 DEF RowsStay
    <2>1. g \in Files /\ pending[g] = "none" /\ ~(src = NoMessage /\ g = f)
      BY <1>5, <1>6 DEF FileInv, File!TypeOK
    <2>2. \E k \in Carriers : message[k].file = g
      BY <1>2, <1>4, <1>5, <2>1
    <2> QED
      BY <2>1, <2>2 DEF FileInv, RowsStay
  <1>13. File!LiveHasFile' /\ File!AvatarHasFile'
    BY <1>3, <1>4, <1>5, <1>7 DEF FileInv, File!LiveHasFile, File!AvatarHasFile
  <1>14. File!ClaimedByOne'
    <2>1. src = NoMessage => \A n \in Carriers : message[n].file # f
      BY <1>1, <1>2 DEF FileInv, UploadsOK
    <2> QED
      BY <1>4, <1>5, <2>1 DEF FileInv, File!ClaimedByOne
  <1> QED
    BY <1>5, <1>8, <1>10, <1>11, <1>12, <1>13, <1>14 DEF FileInv

\* A file that is chosen when it is gone, or about to be removed, is noted.
LEMMA SetAvatarFile ==
    ASSUME FileInv, NEW f \in Files \cup {NoFile}, File!SetAvatar(f)
    PROVE  FileInv'
  <1>1. /\ f # NoFile => upload[f] = "done"
        /\ avatar' = f
        /\ late' = (f # NoFile /\ (f \notin disk \/ File!AboutToGo(f)))
        /\ UNCHANGED <<disk, upload, pending, message, fileRequest, reused>>
    BY DEF File!SetAvatar
  <1>2. \A q \in Requests : fileRequest[q].pc = "remove" => fileRequest[q].file \in Files
    BY FileRequestSays
  <1>3. File!TypeOK'
    BY <1>1, <1>2 DEF FileInv, File!TypeOK
  <1>4. RequestsOK'
    <2> SUFFICES ASSUME NEW q \in Requests
                 PROVE  /\ SendOK(fileRequest[q])' /\ RecallOK(fileRequest[q])'
                        /\ fileRequest[q].pc # "idle" => upload[fileRequest[q].file] = "done"
      BY <1>1 DEF RequestsOK
    <2>1. /\ SendOK(fileRequest[q]) /\ RecallOK(fileRequest[q])
          /\ fileRequest[q].pc # "idle" => upload[fileRequest[q].file] = "done"
      BY FileRequestSays
    <2>2. fileRequest[q].pc = "remove" /\ f = fileRequest[q].file => File!AboutToGo(f) /\ f # NoFile
      BY <1>2, FilesAssumed DEF File!AboutToGo
    <2>3. fileRequest[q].pc = "remove" /\ avatar' = fileRequest[q].file => late'
      BY <1>1, <2>2
    <2> QED
      BY <1>1, <2>1, <2>3 DEF SendOK, RecallOK, File!Live
  <1>5. UploadsOK'
    BY <1>1, FilesAssumed DEF FileInv, UploadsOK
  <1> QED
    BY <1>1, <1>3, <1>4, <1>5
       DEF FileInv, NoTwoSend, RowsStay, File!LiveHasFile, File!AvatarHasFile, File!ClaimedByOne

\* The message that is recalled is no locked source of a forward.
LEMMA CommitRecallFile ==
    ASSUME FileInv, NEW q \in Requests, File!CommitRecall(q)
    PROVE  FileInv'
  <1> DEFINE x == fileRequest[q]
             m == x.msg
             y == [x EXCEPT !.pc = "attachments"]
             w == [message[m] EXCEPT !.state = "recalled"]
  <1>1. /\ x.pc = "recall" /\ RecallOK(x) /\ x \in FileRequests /\ m \notin File!SourcesLocked
        /\ m \in Carriers /\ x.file \in Files /\ upload[x.file] = "done" /\ message[m].file = x.file
        /\ UNCHANGED <<disk, upload, pending, avatar, late, reused>>
    BY FileRequestSays DEF File!CommitRecall, RecallOK, RecallPcs
  <1>2. CASE File!Done(q) /\ UNCHANGED message
    BY <1>1, <1>2, EndFileRequest
  <1>3. CASE /\ message[m].state = "live"
             /\ message' = [message EXCEPT ![m].state = "recalled"]
             /\ File!Step(q, "attachments")
    <2>1. message[m] \in [state : {"live", "recalled"}, file : Files, source : Carriers \cup {NoMessage}]
      BY <1>1, <1>3, UnsentHasNothing DEF FileInv, File!TypeOK
    <2>2. /\ w \in [state : {"live", "recalled"}, file : Files, source : Carriers \cup {NoMessage}]
          /\ w.state = "recalled" /\ w.file = message[m].file /\ w.source = message[m].source
      BY <2>1
    <2>3. message' = [message EXCEPT ![m] = w]
      BY <1>1, <1>3 DEF FileInv, File!TypeOK
    <2>4. fileRequest' = [fileRequest EXCEPT ![q] = y]
      BY <1>3 DEF File!Step, FileInv
    <2>5. /\ y \in FileRequests /\ y.pc = "attachments" /\ y.msg = m /\ y.file = x.file
      BY <1>1, StepOfRequest DEF RecallPcs
    <2> HIDE DEF w, y
    <2>6. /\ File!TypeOK' /\ fileRequest' \in [Requests -> FileRequests]
          /\ \A n \in Carriers : message'[n] = IF n = m THEN w ELSE message[n]
          /\ \A r \in Requests : fileRequest'[r] = IF r = q THEN y ELSE fileRequest[r]
      BY <1>1, <2>2, <2>3, <2>4, <2>5 DEF FileInv, File!TypeOK
    <2>7. \A n \in Carriers : /\ message'[n].file = message[n].file
                              /\ message'[n].source = message[n].source
                              /\ message'[n].state = "live" => message[n].state = "live"
      BY <2>2, <2>6
    <2>8. RequestsOK'
      <3> SUFFICES ASSUME NEW r \in Requests
                   PROVE  /\ SendOK(fileRequest[r])' /\ RecallOK(fileRequest[r])'
                          /\ fileRequest'[r].pc # "idle" => upload[fileRequest'[r].file] = "done"
        BY <1>1 DEF RequestsOK
      <3> DEFINE z == fileRequest[r]
      <3>1. CASE r = q
        BY <1>1, <2>5, <2>6, <2>7, <3>1 DEF SendOK, RecallOK, SendPcs
      <3>2. CASE r # q
        <4>1. /\ z \in FileRequests /\ SendOK(z) /\ RecallOK(z)
              /\ z.pc # "idle" => upload[z.file] = "done"
              /\ z.source \in Carriers \cup {NoMessage}
          BY FileRequestSays DEF FileRequests
        <4>2. fileRequest'[r] = z
          BY <2>6, <3>2
        <4>3. z.pc = "insert" => z.source # m
          BY <1>1 DEF File!SourcesLocked
        <4> HIDE DEF z
        <4>4. SendOK(fileRequest[r])'
          <5>1. ASSUME z.pc \in SendPcs PROVE z.msg \in Carriers /\ z.msg # m
            BY <1>3, <4>1, <5>1, UnsentHasNothing DEF SendOK
          <5>2. z.pc \in SendPcs => message'[z.msg] = message[z.msg]
            BY <2>6, <5>1
          <5>3. z.source # NoMessage => message'[z.source].file = message[z.source].file
            BY <2>7, <4>1
          <5>4. z.pc = "insert" /\ z.source # NoMessage => message'[z.source] = message[z.source]
            BY <2>6, <4>1, <4>3
          <5> QED
            BY <1>1, <4>1, <4>2, <5>2, <5>3, <5>4 DEF SendOK, SendPcs
        <4>5. RecallOK(fileRequest[r])'
          <5>1. z.pc \in {"avatars", "remove"} =>
                  \A n \in Carriers : ~(message[n].state = "live" /\ message[n].file = z.file)
            BY <4>1 DEF RecallOK, File!Live
          <5>2. z.pc \in {"avatars", "remove"} =>
                  \A n \in Carriers : ~(message'[n].state = "live" /\ message'[n].file = z.file)
            BY <2>7, <5>1
          <5>3. z.pc \in {"avatars", "remove"} => File!Live(fileRequest[r].file)' = {}
            BY <4>2, <5>2 DEF File!Live
          <5>4. z.pc \in RecallPcs => message'[z.msg].file = message[z.msg].file
            BY <2>7, <4>1 DEF RecallOK
          <5> QED
            BY <1>1, <4>1, <4>2, <5>3, <5>4 DEF RecallOK
        <4> QED
          BY <1>1, <4>1, <4>2, <4>4, <4>5
      <3> QED
        BY <3>1, <3>2
    <2>9. NoTwoSend'
      BY <2>5, <2>6 DEF FileInv, NoTwoSend, SendPcs
    <2>10. UploadsOK' /\ RowsStay'
      BY <1>1, <2>7 DEF FileInv, UploadsOK, RowsStay
    <2>11. File!LiveHasFile' /\ File!AvatarHasFile' /\ File!ClaimedByOne'
      BY <1>1, <2>7 DEF FileInv, File!LiveHasFile, File!AvatarHasFile, File!ClaimedByOne
    <2> QED
      BY <2>6, <2>8, <2>9, <2>10, <2>11 DEF FileInv
  <1> QED
    BY <1>2, <1>3 DEF File!CommitRecall

\* Nobody refers to the file that goes, but a conversation that chose it just now.
LEMMA RemoveFile ==
    ASSUME FileInv, NEW q \in Requests, File!Remove(q)
    PROVE  FileInv'
  <1> DEFINE x == fileRequest[q]
             f == x.file
             y == [x EXCEPT !.pc = "unclaim"]
  <1>1. /\ x.pc = "remove" /\ RecallOK(x) /\ x \in FileRequests
        /\ x.msg \in Carriers /\ f \in Files /\ upload[f] = "done" /\ message[x.msg].file = f
        /\ File!Live(f) = {} /\ (avatar = f => late)
        /\ disk' = disk \ {f}
        /\ UNCHANGED <<upload, pending, message, avatar, late, reused>>
    BY FileRequestSays DEF File!Remove, RecallOK, RecallPcs
  <1>2. fileRequest' = [fileRequest EXCEPT ![q] = y]
    BY DEF File!Remove, File!Step, FileInv
  <1>3. /\ y \in FileRequests /\ y.pc = "unclaim" /\ y.msg = x.msg /\ y.file = f
    BY <1>1, StepOfRequest DEF RecallPcs
  <1> HIDE DEF y
  <1>4. /\ File!TypeOK' /\ fileRequest' \in [Requests -> FileRequests]
        /\ \A r \in Requests : fileRequest'[r] = IF r = q THEN y ELSE fileRequest[r]
    BY <1>1, <1>2, <1>3 DEF FileInv, File!TypeOK
  <1>5. RequestsOK'
    <2> SUFFICES ASSUME NEW r \in Requests
                 PROVE  /\ SendOK(fileRequest[r])' /\ RecallOK(fileRequest[r])'
                        /\ fileRequest'[r].pc # "idle" => upload[fileRequest'[r].file] = "done"
      BY <1>1 DEF RequestsOK
    <2>1. CASE r = q
      BY <1>1, <1>3, <1>4, <2>1 DEF SendOK, RecallOK, SendPcs
    <2>2. CASE r # q
      <3>1. /\ SendOK(fileRequest[r]) /\ RecallOK(fileRequest[r])
            /\ fileRequest[r].pc # "idle" => upload[fileRequest[r].file] = "done"
            /\ fileRequest'[r] = fileRequest[r]
        BY <1>4, <2>2, FileRequestSays
      <3> QED
        BY <1>1, <3>1 DEF SendOK, RecallOK, File!Live
    <2> QED
      BY <2>1, <2>2
  <1>6. NoTwoSend'
    BY <1>3, <1>4 DEF FileInv, NoTwoSend, SendPcs
  <1>7. UploadsOK' /\ RowsStay'
    BY <1>1 DEF FileInv, UploadsOK, RowsStay
  <1>8. File!LiveHasFile'
    BY <1>1 DEF FileInv, File!LiveHasFile, File!Live
  <1>9. File!AvatarHasFile' /\ File!ClaimedByOne'
    BY <1>1 DEF FileInv, File!AvatarHasFile, File!ClaimedByOne
  <1> QED
    BY <1>4, <1>5, <1>6, <1>7, <1>8, <1>9 DEF FileInv

\* The row that goes is of a file that is gone, or that something else referred to.
LEMMA UnclaimFile ==
    ASSUME FileInv, NEW q \in Requests, File!Unclaim(q)
    PROVE  FileInv'
  <1> DEFINE x == fileRequest[q]
             f == x.file
  <1>1. /\ x.pc = "unclaim" /\ x.msg \in Carriers /\ f \in Files /\ upload[f] = "done"
        /\ f \notin File!UploadsLocked
        /\ pending[f] = x.msg => f \in reused \/ f \notin disk
        /\ fileRequest' = [fileRequest EXCEPT ![q] = File!Idle]
        /\ UNCHANGED <<disk, upload, message, avatar, late, reused>>
    BY FileRequestSays DEF File!Unclaim, File!Done, RecallOK
  <1>2. CASE UNCHANGED pending
    BY <1>1, <1>2, EndFileRequest DEF File!Done
  <1>3. CASE pending' = [pending EXCEPT ![f] = IF pending[f] = x.msg THEN "none" ELSE pending[f]]
    <2>1. CASE pending[f] # x.msg
      <3>1. UNCHANGED pending
        BY <1>3, <2>1 DEF FileInv, File!TypeOK
      <3> QED
        BY <1>1, <3>1, EndFileRequest DEF File!Done
    <2>2. CASE pending[f] = x.msg
      <3> HIDE DEF x, f
      <3>1. /\ File!TypeOK' /\ fileRequest' \in [Requests -> FileRequests]
            /\ \A g \in Files : pending'[g] = IF g = f THEN "none" ELSE pending[g]
            /\ \A r \in Requests : fileRequest'[r] = IF r = q THEN File!Idle ELSE fileRequest[r]
        BY <1>1, <1>3, <2>2, IdleFileRequest DEF FileInv, File!TypeOK
      <3>2. pending[f] # "free" /\ "none" \notin Carriers
        BY <1>1, <2>2, FilesAssumed
      <3>3. RequestsOK'
        <4> SUFFICES ASSUME NEW r \in Requests
                     PROVE  /\ SendOK(fileRequest[r])' /\ RecallOK(fileRequest[r])'
                            /\ fileRequest'[r].pc # "idle" => upload[fileRequest'[r].file] = "done"
          BY <1>1 DEF RequestsOK
        <4>1. CASE r = q \/ fileRequest[r].pc = "idle"
          BY <3>1, <4>1, IdleFileRequest DEF SendOK, RecallOK, SendPcs, RecallPcs
        <4>2. CASE r # q /\ fileRequest[r].pc # "idle"
          <5> DEFINE z == fileRequest[r]
          <5>1. /\ SendOK(z) /\ RecallOK(z) /\ upload[z.file] = "done"
                /\ z.file \in Files /\ z.msg \in Carriers /\ fileRequest'[r] = z
            BY <3>1, <4>2, FileRequestSays
          <5> HIDE DEF z
          <5>2. pending[z.file] = "free" => pending'[z.file] = "free"
            BY <3>1, <3>2, <5>1
          <5>3. pending'[z.file] = z.msg => pending[z.file] = z.msg
            BY <3>1, <3>2, <5>1
          <5> QED
            BY <1>1, <5>1, <5>2, <5>3 DEF SendOK, RecallOK, File!Live
        <4> QED
          BY <4>1, <4>2
      <3>4. NoTwoSend'
        BY <3>1, IdleFileRequest DEF FileInv, NoTwoSend, SendPcs
      <3>5. UploadsOK'
        BY <1>1, <3>1 DEF FileInv, UploadsOK
      <3>6. RowsStay'
        BY <1>1, <2>2, <3>1 DEF FileInv, RowsStay, File!TypeOK
      <3> QED
        BY <1>1, <3>1, <3>3, <3>4, <3>5, <3>6
           DEF FileInv, File!LiveHasFile, File!AvatarHasFile, File!ClaimedByOne
    <2> QED
      BY <2>1, <2>2
  <1> QED
    BY <1>2, <1>3 DEF File!Unclaim

LEMMA FileStep == FileInv /\ [File!Next]_fileVars => FileInv'
  <1> SUFFICES ASSUME FileInv, [File!Next]_fileVars PROVE FileInv'
    OBVIOUS
  <1>1. ASSUME NEW q \in Requests,
               \/ File!TakeSource(q) \/ File!Claim(q) \/ File!CommitSend(q)
               \/ \E m \in Carriers : File!BeginRecall(q, m)
               \/ File!CommitRecall(q) \/ File!CountAttachments(q) \/ File!CountAvatars(q)
               \/ File!Remove(q) \/ File!RemoveFails(q) \/ File!Unclaim(q) \/ File!Rollback(q)
        PROVE  FileInv'
    BY <1>1, TakeSourceFile, ClaimFile, CommitSendFile, BeginRecallFile, CommitRecallFile, CountFile,
       RemoveFile, FailFile, UnclaimFile
  <1>2. CASE UNCHANGED fileVars
    BY <1>2 DEF fileVars, FileInv, File!TypeOK, RequestsOK, SendOK, RecallOK, NoTwoSend, UploadsOK,
                RowsStay, File!LiveHasFile, File!AvatarHasFile, File!ClaimedByOne, File!Live
  <1> QED
    BY <1>1, <1>2, UploadFile, SetAvatarFile, BeginSendFile, CrashFile DEF File!Next

\* The files of live messages are there, though recalls remove them outside any
\* transaction while forwards of the same file commit; so is the conversation's, unless
\* it was chosen when it was gone or about to go; an upload is claimed by one message; a file that is
\* left behind is on record.
THEOREM FilesAreRight == Spec => []FilesHold
  <1>1. Init => FileInv
    BY FileInit DEF Init
  <1>2. FileInv /\ [Next]_vars => FileInv'
    <2> SUFFICES ASSUME FileInv, [Next]_vars PROVE FileInv'
      OBVIOUS
    <2>1. [File!Next]_fileVars
      BY DEF Next, PollNext, MarkNext, FileNext, DeviceNext, DirectNext, vars, fileVars
    <2> QED
      BY <2>1, FileStep
  <1>3. FileInv => FilesHold
    BY FileInvSays
  <1> QED
    BY <1>1, <1>2, <1>3, PTL DEF Spec

-----------------------------------------------------------------------------
(* Polls.                                                                    *)

VotePcs == {"option", "delete", "insert"}

\* What a request that votes relies on: the options that it names are there and, where
\* one choice is allowed, it is one; what it is about to remove are the user's votes.
VoteOK(x) ==
    /\ x.seen <= version
    /\ x.pc \in VotePcs =>
         /\ x.chosen \subseteq Poll!Listed
         /\ ~poll.multiple => /\ \A a, b \in x.chosen : a = b
                              /\ x.text # Poll!NoText => x.chosen = {}
         /\ x.pc = "option" => x.text # Poll!NoText
         /\ x.pc \in {"delete", "insert"} /\ x.found # 0
              => x.found \in Poll!Listed /\ options[x.found] = x.text
    /\ x.pc = "insert" => x.removed = Poll!VotesOf(x.user)

VotesRight == \A q \in Requests : VoteOK(pollRequest[q])

\* Before there is a poll nothing is there.
NotYet == poll.state = "none" =>
    /\ \A o \in Poll!OptionIds : options[o] = Poll!NoText
    /\ \A q \in Requests : pollRequest[q].pc = "idle"

\* The options are the first ids.
ListedFromOne == \E n \in 0 .. MaxOptions : Poll!Listed = 1 .. n

\* The transactions of a user wait for each other.
OneInsert ==
    \A q, r \in Requests :
      q # r /\ pollRequest[q].pc = "insert" /\ pollRequest[r].pc = "insert"
      => pollRequest[q].user # pollRequest[r].user

OneVote ==
    ~poll.multiple => \A u \in Users : \A a, b \in Poll!VotesOf(u) : a = b

ResultRight ==
    poll.state = "closed" /\ final.voting = {}
      => votes = final.votes /\ \A q \in Requests : pollRequest[q].pc \notin VotePcs

\* Each request that found the poll open tells that it was closed once.
ClosingsRight ==
    /\ IsFiniteSet(Poll!Doing({"close"})) /\ IsFiniteSet(final.closing)
    /\ poll.state # "closed" => closings = 0
    /\ poll.state = "closed"
         => closings + Cardinality(Poll!Doing({"close"})) <= 1 + Cardinality(final.closing)

\* A request that is about to insert the option that it proposes.
Proposes(x) == x.pc \in {"delete", "insert"} /\ x.found = 0 /\ x.text # Poll!NoText

TextsRight == ~doubled =>
    /\ \A o, p \in Poll!Listed : options[o] = options[p] => o = p
    /\ \A q \in Requests : Proposes(pollRequest[q])
         => \A o \in Poll!Listed : options[o] # pollRequest[q].text
    /\ \A q, r \in Requests :
         q # r /\ Proposes(pollRequest[q]) /\ Proposes(pollRequest[r])
         => pollRequest[q].text # pollRequest[r].text

\* What can be said of what a member was told last.
Shows == {"last", "old", "overtaken", "untold"}

\* A member was told the last change, or something else after it, or a request will tell it.
Tells(x) == x.pc = "load" \/ (x.pc = "tell" /\ x.seen = version)

ToldRight == shown # "old" \/ \E q \in Requests : Tells(pollRequest[q])

PollInv ==
    /\ Poll!TypeOK /\ VotesRight /\ NotYet /\ ListedFromOne /\ OneInsert /\ OneVote
    /\ ResultRight /\ ClosingsRight /\ TextsRight /\ ToldRight

LEMMA PollsAssumed ==
    /\ Creator \in Users
    /\ PollKinds \subseteq [multiple : BOOLEAN, custom : BOOLEAN]
    /\ IsFiniteSet(BaseTexts) /\ Cardinality(BaseTexts) \in Nat /\ Cardinality(BaseTexts) >= 2
    /\ MaxOptions \in Nat /\ MaxOptions > Cardinality(BaseTexts)
    /\ MaxVersion \in Nat
    /\ Poll!NoText \notin BaseTexts \cup Texts
  <1>1. Poll!Cardinality(BaseTexts) = Cardinality(BaseTexts)
    BY DEF Poll!Cardinality, Cardinality
  <1>2. Poll!IsFiniteSet(BaseTexts) <=> IsFiniteSet(BaseTexts)
    BY DEF Poll!IsFiniteSet, IsFiniteSet
  <1> QED
    BY <1>1, <1>2, FS_CardinalityType, ServiceAssumption DEF Poll!PollConstants, Poll!NoText

LEMMA PollCardinality == \A S : Poll!Cardinality(S) = Cardinality(S)
  BY DEF Poll!Cardinality, Cardinality

\* A set with at most one element, both ways.
LEMMA AtMostOne ==
    ASSUME NEW S, IsFiniteSet(S)
    PROVE  Cardinality(S) <= 1 <=> \A a, b \in S : a = b
  <1>1. ASSUME NEW a \in S, NEW b \in S, a # b PROVE Cardinality(S) >= 2
    <2>1. IsFiniteSet({a}) /\ Cardinality({a}) = 1
      BY FS_Singleton
    <2>2. Cardinality({a} \cup {b}) = 2
      BY <1>1, <2>1, FS_AddElement
    <2>3. {a} \cup {b} \in SUBSET S
      OBVIOUS
    <2> QED
      BY <2>2, <2>3, FS_Subset, FS_CardinalityType
  <1>2. ASSUME \A a, b \in S : a = b PROVE Cardinality(S) <= 1
    <2>1. CASE S = {}
      BY <2>1, FS_EmptySet
    <2>2. CASE S # {}
      <3>1. PICK a : S = {a}
        BY <1>2, <2>2
      <3> QED
        BY <3>1, FS_Singleton
    <2> QED
      BY <2>1, <2>2
  <1> QED
    BY <1>1, <1>2, FS_CardinalityType

LEMMA OptionsAreFinite ==
    ASSUME NEW S \in SUBSET Poll!OptionIds
    PROVE  IsFiniteSet(S)
  <1>1. IsFiniteSet(1 .. MaxOptions)
    BY PollsAssumed, FS_Interval
  <1> QED
    BY <1>1, FS_Subset DEF Poll!OptionIds

LEMMA IdlePollRequest ==
    /\ Poll!Idle \in Poll!RequestStates /\ Poll!Idle.pc = "idle" /\ Poll!Idle.user = Creator
    /\ Poll!Idle.chosen = {} /\ Poll!Idle.text = Poll!NoText /\ Poll!Idle.found = 0
    /\ Poll!Idle.removed = {} /\ Poll!Idle.seen = 0
  BY PollsAssumed DEF Poll!Idle, Poll!RequestStates, Poll!AllTexts

LEMMA PollInit == Poll!Init => PollInv
  <1> SUFFICES ASSUME Poll!Init PROVE PollInv
    OBVIOUS
  <1>1. /\ poll = Poll!NoPoll /\ options = [o \in Poll!OptionIds |-> Poll!NoText]
        /\ votes = {} /\ version = 0 /\ shown = "last" /\ doubled = FALSE /\ closings = 0
        /\ final.votes = {} /\ final.closing = {}
        /\ pollRequest = [q \in Requests |-> Poll!Idle]
    BY DEF Poll!Init
  <1>2. Poll!NoPoll.state = "none"
        /\ Poll!NoPoll \in [state : {"none", "open", "closed"}, multiple : BOOLEAN, custom : BOOLEAN]
    BY DEF Poll!NoPoll
  <1>3. Poll!Listed = {} /\ \A u : Poll!VotesOf(u) = {}
    BY <1>1 DEF Poll!Listed, Poll!VotesOf
  <1>4. Poll!TypeOK
    <2>1. Poll!NoText \in Poll!AllTexts
      BY DEF Poll!AllTexts
    <2>2. /\ options \in [Poll!OptionIds -> Poll!AllTexts]
          /\ pollRequest \in [Requests -> Poll!RequestStates]
      BY <1>1, <2>1, IdlePollRequest
    <2>3. version \in 0 .. MaxVersion /\ shown \in Shows /\ closings \in Nat
      BY <1>1, PollsAssumed DEF Shows
    <2> QED
      BY <1>1, <1>2, <2>2, <2>3 DEF Poll!TypeOK, Shows
  <1>5. VotesRight
    BY <1>1, IdlePollRequest DEF VotesRight, VoteOK, VotePcs
  <1>6. NotYet /\ OneInsert /\ OneVote /\ ResultRight /\ ToldRight
    BY <1>1, <1>2, <1>3, IdlePollRequest DEF NotYet, OneInsert, OneVote, ResultRight, ToldRight
  <1>7. ListedFromOne
    <2>1. 0 \in 0 .. MaxOptions /\ Poll!Listed = 1 .. 0
      BY <1>3, PollsAssumed
    <2> QED
      BY <2>1 DEF ListedFromOne
  <1>8. ClosingsRight
    <2>1. Poll!Doing({"close"}) = {}
      BY <1>1, IdlePollRequest DEF Poll!Doing
    <2> QED
      BY <1>1, <1>2, <2>1, FS_EmptySet DEF ClosingsRight
  <1>9. TextsRight
    BY <1>1, <1>3, IdlePollRequest DEF TextsRight, Proposes
  <1> QED
    BY <1>4, <1>5, <1>6, <1>7, <1>8, <1>9 DEF PollInv

LEMMA PollInvSays ==
    ASSUME PollInv
    PROVE  PollsHold
  <1>1. Poll!OneVoteEach
    <2> SUFFICES ASSUME ~poll.multiple, NEW u \in Users
                 PROVE  Poll!Cardinality(Poll!VotesOf(u)) <= 1
      BY DEF Poll!OneVoteEach
    <2>1. \A a, b \in Poll!VotesOf(u) : a = b
      BY DEF PollInv, OneVote
    <2>2. IsFiniteSet(Poll!VotesOf(u))
      BY OptionsAreFinite DEF Poll!VotesOf
    <2> QED
      BY <2>1, <2>2, AtMostOne, PollCardinality
  <1>2. Poll!ResultIsFinal
    BY DEF PollInv, ResultRight, Poll!ResultIsFinal
  <1>3. Poll!ClosedOnce
    <2>1. /\ Cardinality(final.closing) \in Nat /\ Cardinality(Poll!Doing({"close"})) \in Nat
          /\ closings \in Nat
      BY FS_CardinalityType DEF PollInv, ClosingsRight, Poll!TypeOK
    <2>2. closings <= 1 + Cardinality(final.closing)
      BY <2>1 DEF PollInv, ClosingsRight
    <2> QED
      BY <2>2, PollCardinality DEF Poll!ClosedOnce
  <1>4. Poll!TextsAreDistinct
    BY DEF PollInv, TextsRight, Poll!TextsAreDistinct
  <1>5. Poll!LastChangeIsTold
    BY IdlePollRequest DEF PollInv, ToldRight, Tells, Poll!LastChangeIsTold
  <1> QED
    BY <1>1, <1>2, <1>3, <1>4, <1>5 DEF PollInv, PollsHold

\* The first option that is not there comes after those that are.
LEMMA NextOption ==
    ASSUME PollInv
    PROVE  /\ Poll!Cardinality(Poll!Listed) \in Nat
           /\ Poll!Listed = 1 .. Poll!Cardinality(Poll!Listed)
  <1>1. PICK n \in 0 .. MaxOptions : Poll!Listed = 1 .. n
    BY DEF PollInv, ListedFromOne
  <1>2. n \in Nat
    BY <1>1, PollsAssumed
  <1>3. Cardinality(1 .. n) = n
    BY <1>2, FS_Interval
  <1> QED
    BY <1>1, <1>2, <1>3, PollCardinality

\* One request goes on, and the poll and its options and votes are as before.
LEMMA OnePollRequest ==
    ASSUME PollInv, NEW q \in Requests, NEW x \in Poll!RequestStates, VoteOK(x),
           pollRequest' = [pollRequest EXCEPT ![q] = x],
           x.pc # "idle" => poll.state # "none",
           x.pc \in VotePcs => pollRequest[q].pc \in VotePcs \/ poll.state = "open",
           x.pc = "close" => pollRequest[q].pc = "close" \/ poll.state = "open",
           \A r \in Requests : x.pc = "insert" /\ r # q /\ pollRequest[r].pc = "insert"
                                 => pollRequest[r].user # x.user,
           UNCHANGED <<poll, options, votes, version, final, closings>>,
           shown' \in Shows, doubled' \in BOOLEAN,
           TextsRight', ToldRight'
    PROVE  PollInv'
  <1>1. /\ pollRequest' \in [Requests -> Poll!RequestStates]
        /\ \A r \in Requests : pollRequest'[r] = IF r = q THEN x ELSE pollRequest[r]
    BY DEF PollInv, Poll!TypeOK
  <1>2. Poll!TypeOK'
    BY <1>1 DEF PollInv, Poll!TypeOK, Poll!Listed, Shows
  <1>3. VotesRight'
    <2>1. \A r \in Requests : VoteOK(pollRequest'[r])
      BY <1>1 DEF PollInv, VotesRight
    <2> QED
      BY <2>1 DEF VotesRight, VoteOK, Poll!Listed, Poll!VotesOf
  <1>4. NotYet' /\ ListedFromOne' /\ OneVote'
    BY <1>1 DEF PollInv, NotYet, ListedFromOne, OneVote, Poll!Listed, Poll!VotesOf
  <1>5. OneInsert'
    BY <1>1 DEF PollInv, OneInsert
  <1>6. ResultRight'
    BY <1>1 DEF PollInv, ResultRight
  <1>7. ClosingsRight'
    <2>1. Poll!Doing({"close"})' \subseteq Poll!Doing({"close"}) \cup {q}
      BY <1>1 DEF Poll!Doing
    <2>2. IsFiniteSet(Poll!Doing({"close"})) /\ IsFiniteSet(final.closing)
      BY DEF PollInv, ClosingsRight
    <2>3. IsFiniteSet(Poll!Doing({"close"})')
      BY <2>1, <2>2, FS_AddElement, FS_Subset
    <2>4. ASSUME poll.state = "closed"
          PROVE  Cardinality(Poll!Doing({"close"})') <= Cardinality(Poll!Doing({"close"}))
      <3>1. Poll!Doing({"close"})' \subseteq Poll!Doing({"close"})
        BY <1>1, <2>4 DEF Poll!Doing
      <3> QED
        BY <2>2, <3>1, FS_Subset
    <2>5. /\ Cardinality(final.closing) \in Nat /\ Cardinality(Poll!Doing({"close"})) \in Nat
          /\ Cardinality(Poll!Doing({"close"})') \in Nat /\ closings \in Nat
      BY <2>2, <2>3, FS_CardinalityType DEF PollInv, Poll!TypeOK
    <2>6. poll.state = "closed" => closings + Cardinality(Poll!Doing({"close"})')
                                     <= 1 + Cardinality(final.closing)
      BY <2>4, <2>5 DEF PollInv, ClosingsRight
    <2> QED
      BY <2>2, <2>3, <2>6 DEF PollInv, ClosingsRight
  <1> QED
    BY <1>2, <1>3, <1>4, <1>5, <1>6, <1>7 DEF PollInv

LEMMA PollRequestSays ==
    ASSUME PollInv, NEW q \in Requests
    PROVE  /\ pollRequest[q] \in Poll!RequestStates /\ VoteOK(pollRequest[q])
           /\ pollRequest[q].pc # "idle" => poll.state # "none"
           /\ version \in Nat /\ shown \in Shows /\ doubled \in BOOLEAN
  BY PollsAssumed DEF PollInv, Poll!TypeOK, VotesRight, NotYet, Shows

\* A request that is not about to tell the last change leaves that to others.
LEMMA ToldStays ==
    ASSUME PollInv, NEW q \in Requests, NEW x \in Poll!RequestStates,
           pollRequest' = [pollRequest EXCEPT ![q] = x],
           Tells(pollRequest[q]) => Tells(x),
           UNCHANGED <<version, shown>>
    PROVE  ToldRight'
  <1>1. \A r \in Requests : pollRequest'[r] = IF r = q THEN x ELSE pollRequest[r]
    BY DEF PollInv, Poll!TypeOK
  <1>2. CASE shown # "old"
    BY <1>2 DEF ToldRight
  <1>3. ASSUME NEW r \in Requests, Tells(pollRequest[r]) PROVE ToldRight'
    <2>1. Tells(pollRequest'[r])
      BY <1>1, <1>3
    <2> QED
      BY <2>1 DEF ToldRight, Tells
  <1> QED
    BY <1>2, <1>3 DEF PollInv, ToldRight

\* A request that proposes nothing new leaves the texts distinct.
LEMMA TextsStay ==
    ASSUME PollInv, NEW q \in Requests, NEW x \in Poll!RequestStates,
           pollRequest' = [pollRequest EXCEPT ![q] = x],
           Proposes(x) => Proposes(pollRequest[q]) /\ x.text = pollRequest[q].text,
           UNCHANGED <<options, doubled>>
    PROVE  TextsRight'
  <1>1. \A r \in Requests : pollRequest'[r] = IF r = q THEN x ELSE pollRequest[r]
    BY DEF PollInv, Poll!TypeOK
  <1>2. \A r \in Requests : Proposes(pollRequest'[r]) => /\ Proposes(pollRequest[r])
                                                         /\ pollRequest'[r].text = pollRequest[r].text
    BY <1>1
  <1> HIDE DEF Proposes
  <1> SUFFICES ASSUME ~doubled
               PROVE  /\ \A o, p \in Poll!Listed : options[o] = options[p] => o = p
                      /\ \A r \in Requests : Proposes(pollRequest'[r])
                           => \A o \in Poll!Listed : options[o] # pollRequest'[r].text
                      /\ \A r, s \in Requests :
                           r # s /\ Proposes(pollRequest'[r]) /\ Proposes(pollRequest'[s])
                           => pollRequest'[r].text # pollRequest'[s].text
    BY DEF TextsRight, Poll!Listed, Proposes
  <1> QED
    BY <1>2 DEF PollInv, TextsRight

LEMMA BeginVotePoll ==
    ASSUME PollInv, NEW q \in Requests, NEW u \in Users, NEW chosen \in SUBSET Poll!OptionIds,
           NEW text \in Texts \cup {Poll!NoText}, Poll!BeginVote(q, u, chosen, text)
    PROVE  PollInv'
  <1> DEFINE pc == IF text = Poll!NoText THEN "delete" ELSE "option"
             x  == [Poll!Idle EXCEPT !.pc = pc, !.user = u, !.chosen = chosen, !.text = text]
  <1>1. /\ poll.state = "open" /\ chosen \subseteq Poll!Listed /\ pollRequest[q] = Poll!Idle
        /\ poll.multiple \/ Poll!Cardinality(chosen) + (IF text = Poll!NoText THEN 0 ELSE 1) <= 1
        /\ pollRequest' = [pollRequest EXCEPT ![q] = x]
        /\ UNCHANGED <<poll, options, votes, version, shown, final, doubled, closings>>
    BY DEF Poll!BeginVote, Poll!Enter, Poll!toldVars
  <1>2. /\ x \in Poll!RequestStates /\ x.pc = pc /\ x.user = u /\ x.chosen = chosen /\ x.text = text
        /\ x.found = 0 /\ x.removed = {} /\ x.seen = 0
    BY IdlePollRequest DEF Poll!Idle, Poll!RequestStates, Poll!AllTexts
  <1> HIDE DEF x
  <1>3. ASSUME ~poll.multiple
        PROVE  /\ \A a, b \in chosen : a = b
               /\ text # Poll!NoText => chosen = {}
    <2>1. IsFiniteSet(chosen)
      BY OptionsAreFinite
    <2>2. Cardinality(chosen) \in Nat
      BY <2>1, FS_CardinalityType
    <2>3. Cardinality(chosen) + (IF text = Poll!NoText THEN 0 ELSE 1) <= 1
      BY <1>1, <1>3, PollCardinality
    <2>4. Cardinality(chosen) <= 1 /\ (text # Poll!NoText => Cardinality(chosen) = 0)
      BY <2>2, <2>3
    <2>5. \A a, b \in chosen : a = b
      BY <2>1, <2>4, AtMostOne
    <2> QED
      BY <2>1, <2>4, <2>5, FS_EmptySet
  <1>4. VoteOK(x)
    BY <1>1, <1>2, <1>3, PollRequestSays DEF VoteOK, VotePcs
  <1>5. ~Tells(pollRequest[q])
    BY <1>1, IdlePollRequest DEF Tells
  <1>6. ToldRight'
    BY <1>1, <1>2, <1>5, ToldStays
  <1>7. TextsRight'
    <2>1. ~Proposes(x)
      BY <1>2 DEF Proposes
    <2> QED
      BY <1>1, <1>2, <2>1, TextsStay
  <1> QED
    BY <1>1, <1>2, <1>4, <1>6, <1>7, PollRequestSays, OnePollRequest

\* A text that is not there yet is proposed: by nobody else, or that is noted.
LEMMA FindOptionPoll ==
    ASSUME PollInv, NEW q \in Requests, Poll!FindOption(q)
    PROVE  PollInv'
  <1> DEFINE r    == pollRequest[q]
             same == {o \in Poll!Listed : options[o] = r.text}
  <1>1. PICK o \in (IF same = {} THEN {0} ELSE same) :
          pollRequest' = [pollRequest EXCEPT ![q].pc = "delete", ![q].found = o]
    BY DEF Poll!FindOption
  <1> DEFINE x == [r EXCEPT !.pc = "delete", !.found = o]
  <1>2. /\ r \in Poll!RequestStates /\ VoteOK(r) /\ r.pc = "option" /\ poll.state # "none"
        /\ doubled' = (doubled \/ (same = {} /\ Poll!SameText(q) # {}))
        /\ UNCHANGED <<poll, options, votes, version, shown, final, closings>>
    BY PollRequestSays DEF Poll!FindOption, Poll!toldVars
  <1>3. (o = 0 /\ same = {}) \/ (o \in Poll!Listed /\ o # 0 /\ options[o] = r.text)
    BY <1>1, PollsAssumed DEF Poll!Listed, Poll!OptionIds
  <1>4. o \in Poll!OptionIds \cup {0}
    BY <1>3 DEF Poll!Listed
  <1>5. pollRequest' = [pollRequest EXCEPT ![q] = x]
    BY <1>1 DEF PollInv, Poll!TypeOK
  <1>6. /\ x \in Poll!RequestStates /\ x.pc = "delete" /\ x.user = r.user /\ x.chosen = r.chosen
        /\ x.text = r.text /\ x.found = o /\ x.seen = r.seen
    BY <1>2, <1>4 DEF Poll!RequestStates
  <1> HIDE DEF x
  <1>7. VoteOK(x)
    BY <1>2, <1>3, <1>6 DEF VoteOK, VotePcs
  <1>8. \A s \in Requests : pollRequest'[s] = IF s = q THEN x ELSE pollRequest[s]
    BY <1>5 DEF PollInv, Poll!TypeOK
  <1>9. ToldRight'
    <2>1. ~Tells(r)
      BY <1>2 DEF Tells
    <2> QED
      BY <1>2, <1>5, <1>6, <2>1, ToldStays
  <1>10. TextsRight'
    <2> SUFFICES ASSUME ~doubled'
                 PROVE  /\ \A a, b \in Poll!Listed : options[a] = options[b] => a = b
                        /\ \A s \in Requests : Proposes(pollRequest'[s])
                             => \A a \in Poll!Listed : options[a] # pollRequest'[s].text
                        /\ \A s, t \in Requests :
                             s # t /\ Proposes(pollRequest'[s]) /\ Proposes(pollRequest'[t])
                             => pollRequest'[s].text # pollRequest'[t].text
      BY <1>2 DEF TextsRight, Poll!Listed, Proposes
    <2>1. ~doubled /\ (same = {} => Poll!SameText(q) = {})
      BY <1>2
    <2>2. /\ \A a, b \in Poll!Listed : options[a] = options[b] => a = b
          /\ \A s \in Requests : Proposes(pollRequest[s])
               => \A a \in Poll!Listed : options[a] # pollRequest[s].text
          /\ \A s, t \in Requests :
               s # t /\ Proposes(pollRequest[s]) /\ Proposes(pollRequest[t])
               => pollRequest[s].text # pollRequest[t].text
      BY <2>1 DEF PollInv, TextsRight
    <2>3. ASSUME Proposes(x)
          PROVE  /\ \A a \in Poll!Listed : options[a] # x.text
                 /\ \A s \in Requests : s # q /\ Proposes(pollRequest[s]) => pollRequest[s].text # x.text
      <3>1. same = {} /\ Poll!SameText(q) = {}
        BY <1>3, <1>6, <2>1, <2>3, PollsAssumed DEF Proposes, Poll!Listed, Poll!OptionIds
      <3>2. ASSUME NEW s \in Requests, s # q, Proposes(pollRequest[s]) PROVE pollRequest[s].text # r.text
        BY <3>1, <3>2 DEF Poll!SameText, Proposes
      <3> QED
        BY <1>6, <3>1, <3>2
    <2>4. ASSUME NEW s \in Requests, Proposes(pollRequest'[s]), NEW a \in Poll!Listed
          PROVE  options[a] # pollRequest'[s].text
      BY <1>8, <2>2, <2>3, <2>4
    <2>5. ASSUME NEW s \in Requests, NEW t \in Requests, s # t,
                 Proposes(pollRequest'[s]), Proposes(pollRequest'[t])
          PROVE  pollRequest'[s].text # pollRequest'[t].text
      BY <1>8, <2>2, <2>3, <2>5
    <2> QED
      BY <2>2, <2>4, <2>5
  <1>11. doubled' \in BOOLEAN /\ shown' \in Shows
    BY <1>2, PollRequestSays
  <1> HIDE DEF r, same
  <1> QED
    BY <1>2, <1>5, <1>6, <1>7, <1>9, <1>10, <1>11, OnePollRequest DEF VotePcs, r

LEMMA DeleteVotesPoll ==
    ASSUME PollInv, NEW q \in Requests, Poll!DeleteVotes(q)
    PROVE  PollInv'
  <1> DEFINE r == pollRequest[q]
             v == Poll!VotesOf(r.user)
             x == [r EXCEPT !.pc = "insert", !.removed = v]
  <1>1. /\ r \in Poll!RequestStates /\ VoteOK(r) /\ r.pc = "delete" /\ poll.state # "none"
        /\ \A p \in Requests : pollRequest[p].pc = "insert" => pollRequest[p].user # r.user
        /\ UNCHANGED <<poll, options, votes, version, shown, final, doubled, closings>>
    BY PollRequestSays DEF Poll!DeleteVotes, Poll!toldVars
  <1>2. pollRequest' = [pollRequest EXCEPT ![q] = x]
    BY DEF Poll!DeleteVotes, PollInv, Poll!TypeOK
  <1>3. v \in SUBSET Poll!OptionIds
    BY DEF Poll!VotesOf
  <1>4. /\ x \in Poll!RequestStates /\ x.pc = "insert" /\ x.user = r.user /\ x.chosen = r.chosen
        /\ x.text = r.text /\ x.found = r.found /\ x.seen = r.seen /\ x.removed = v
    BY <1>1, <1>3 DEF Poll!RequestStates
  <1> HIDE DEF x
  <1>5. VoteOK(x)
    BY <1>1, <1>4 DEF VoteOK, VotePcs
  <1>6. ToldRight'
    <2>1. ~Tells(r)
      BY <1>1 DEF Tells
    <2> QED
      BY <1>1, <1>2, <1>4, <2>1, ToldStays
  <1>7. TextsRight'
    <2>1. Proposes(x) => Proposes(r) /\ x.text = r.text
      BY <1>1, <1>4 DEF Proposes
    <2> QED
      BY <1>1, <1>2, <1>4, <2>1, TextsStay
  <1>8. doubled' \in BOOLEAN /\ shown' \in Shows
    BY <1>1, PollRequestSays
  <1>9. r.pc \in VotePcs /\ x.pc # "close" /\ x.pc # "idle"
    BY <1>1, <1>4 DEF VotePcs
  <1>10. \A p \in Requests : pollRequest[p].pc = "insert" => pollRequest[p].user # x.user
    BY <1>1, <1>4
  <1> HIDE DEF v
  <1> QED
    BY <1>1, <1>2, <1>4, <1>5, <1>6, <1>7, <1>8, <1>9, <1>10, OnePollRequest

\* A request that neither votes nor closes, or that ends.
LEMMA TellsOrEnds ==
    ASSUME PollInv, NEW q \in Requests, NEW x \in Poll!RequestStates,
           x.pc \in {"idle", "load", "tell"}, x.seen <= version,
           x.pc # "idle" => poll.state # "none",
           pollRequest' = [pollRequest EXCEPT ![q] = x],
           shown' \in Shows, ToldRight',
           UNCHANGED <<poll, options, votes, version, final, doubled, closings>>
    PROVE  PollInv'
  <1>1. VoteOK(x)
    BY DEF VoteOK, VotePcs
  <1>2. TextsRight'
    BY TextsStay DEF Proposes
  <1>3. doubled' \in BOOLEAN
    BY PollRequestSays
  <1> QED
    BY <1>1, <1>2, <1>3, OnePollRequest DEF VotePcs

LEMMA BeginClosePoll ==
    ASSUME PollInv, NEW q \in Requests, Poll!BeginClose(q)
    PROVE  PollInv'
  <1> DEFINE pc == IF poll.state = "closed" THEN "load" ELSE "close"
             x  == [Poll!Idle EXCEPT !.pc = pc]
  <1>1. /\ poll.state # "none" /\ pollRequest[q] = Poll!Idle
        /\ pollRequest' = [pollRequest EXCEPT ![q] = x]
        /\ UNCHANGED <<poll, options, votes, version, shown, final, doubled, closings>>
    BY DEF Poll!BeginClose, Poll!Enter, Poll!toldVars
  <1>2. /\ x \in Poll!RequestStates /\ x.pc = pc /\ x.found = 0 /\ x.text = Poll!NoText /\ x.seen = 0
    BY IdlePollRequest DEF Poll!Idle, Poll!RequestStates
  <1> HIDE DEF x
  <1>3. version \in Nat /\ shown' \in Shows /\ doubled' \in BOOLEAN
    BY <1>1, PollRequestSays
  <1>4. VoteOK(x)
    BY <1>2, <1>3 DEF VoteOK, VotePcs
  <1>5. ToldRight'
    <2>1. ~Tells(pollRequest[q])
      BY <1>1, IdlePollRequest DEF Tells
    <2> QED
      BY <1>1, <1>2, <2>1, ToldStays
  <1>6. TextsRight'
    <2>1. ~Proposes(x)
      BY <1>2 DEF Proposes
    <2> QED
      BY <1>1, <1>2, <2>1, TextsStay
  <1>7. poll.state \in {"open", "closed"}
    BY <1>1 DEF PollInv, Poll!TypeOK
  <1>8. x.pc \notin VotePcs /\ (x.pc = "close" => poll.state = "open")
    BY <1>2, <1>7 DEF VotePcs
  <1> QED
    BY <1>1, <1>2, <1>3, <1>4, <1>5, <1>6, <1>8, OnePollRequest DEF VotePcs

LEMMA RollbackPoll ==
    ASSUME PollInv, NEW q \in Requests, Poll!Rollback(q)
    PROVE  PollInv'
  <1>1. /\ pollRequest' = [pollRequest EXCEPT ![q] = Poll!Idle]
        /\ ~Tells(pollRequest[q])
        /\ UNCHANGED <<poll, options, votes, version, shown, final, doubled, closings>>
    BY DEF Poll!Rollback, Poll!toldVars, Tells
  <1>2. ToldRight'
    BY <1>1, IdlePollRequest, ToldStays
  <1>3. shown' \in Shows /\ Poll!Idle.seen <= version
    BY <1>1, IdlePollRequest, PollRequestSays
  <1>4. Poll!Idle \in Poll!RequestStates /\ Poll!Idle.pc = "idle"
    BY IdlePollRequest
  <1> QED
    BY <1>1, <1>2, <1>3, <1>4, TellsOrEnds

LEMMA LoadPoll ==
    ASSUME PollInv, NEW q \in Requests, Poll!Load(q)
    PROVE  PollInv'
  <1> DEFINE r == pollRequest[q]
             x == [r EXCEPT !.pc = "tell", !.seen = version]
  <1>1. /\ r \in Poll!RequestStates /\ r.pc = "load" /\ poll.state # "none"
        /\ version \in Nat /\ shown \in Shows
        /\ UNCHANGED <<poll, options, votes, version, shown, final, doubled, closings>>
    BY PollRequestSays DEF Poll!Load, Poll!toldVars
  <1>2. pollRequest' = [pollRequest EXCEPT ![q] = x]
    BY DEF Poll!Load, PollInv, Poll!TypeOK
  <1>3. x \in Poll!RequestStates /\ x.pc = "tell" /\ x.seen = version
    BY <1>1 DEF Poll!RequestStates
  <1> HIDE DEF x
  <1>4. ToldRight'
    <2>1. Tells(x)
      BY <1>3 DEF Tells
    <2> QED
      BY <1>1, <1>2, <1>3, <2>1, ToldStays
  <1>5. shown' \in Shows /\ x.seen <= version
    BY <1>1, <1>3
  <1> HIDE DEF r
  <1> QED
    BY <1>1, <1>2, <1>3, <1>4, <1>5, TellsOrEnds

\* A poll that cannot be loaded is not told.
LEMMA LoadFailsPoll ==
    ASSUME PollInv, NEW q \in Requests, Poll!LoadFails(q)
    PROVE  PollInv'
  <1>1. /\ pollRequest' = [pollRequest EXCEPT ![q] = Poll!Idle]
        /\ shown' = IF shown = "old" THEN "untold" ELSE shown
        /\ UNCHANGED <<poll, options, votes, version, final, doubled, closings>>
    BY DEF Poll!LoadFails
  <1>2. shown' \in Shows /\ shown' # "old" /\ Poll!Idle.seen <= version
    BY <1>1, IdlePollRequest, PollRequestSays DEF Shows
  <1>3. ToldRight'
    BY <1>2 DEF ToldRight
  <1>4. Poll!Idle \in Poll!RequestStates /\ Poll!Idle.pc = "idle"
    BY IdlePollRequest
  <1> QED
    BY <1>1, <1>2, <1>3, <1>4, TellsOrEnds

\* Who tells something older than the last change leaves that to those who will tell it.
LEMMA TellPoll ==
    ASSUME PollInv, NEW q \in Requests, Poll!Tell(q)
    PROVE  PollInv'
  <1> DEFINE r == pollRequest[q]
  <1>1. /\ r \in Poll!RequestStates /\ r.pc = "tell" /\ poll.state # "none"
        /\ version \in Nat /\ shown \in Shows
        /\ shown' = IF r.seen = version THEN "last"
                    ELSE IF shown = "last" THEN "overtaken" ELSE shown
        /\ pollRequest' = [pollRequest EXCEPT ![q] = Poll!Idle]
        /\ UNCHANGED <<poll, options, votes, version, final, doubled, closings>>
    BY PollRequestSays DEF Poll!Tell
  <1> HIDE DEF r
  <1>2. shown' \in Shows /\ (shown' = "old" => shown = "old" /\ r.seen # version)
    BY <1>1 DEF Shows
  <1>3. ToldRight'
    <2>1. CASE shown' # "old"
      BY <2>1 DEF ToldRight
    <2>2. CASE shown' = "old"
      <3>1. PICK s \in Requests : Tells(pollRequest[s])
        BY <1>2, <2>2 DEF PollInv, ToldRight
      <3>2. s # q
        BY <1>1, <1>2, <2>2, <3>1 DEF Tells, r
      <3>3. pollRequest'[s] = pollRequest[s]
        BY <1>1, <3>2 DEF PollInv, Poll!TypeOK
      <3> QED
        BY <1>1, <3>1, <3>3 DEF ToldRight, Tells
    <2> QED
      BY <2>1, <2>2
  <1>4. Poll!Idle \in Poll!RequestStates /\ Poll!Idle.pc = "idle" /\ Poll!Idle.seen <= version
    BY <1>1, IdlePollRequest
  <1> QED
    BY <1>1, <1>2, <1>3, <1>4, TellsOrEnds

\* The options of a new poll are its texts, each once.
LEMMA CreatePoll ==
    ASSUME PollInv, NEW kind \in PollKinds, Poll!Create(kind)
    PROVE  PollInv'
  <1> DEFINE n == Cardinality(BaseTexts)
             p == [state |-> "open", multiple |-> kind.multiple, custom |-> kind.custom]
  <1>1. /\ poll.state = "none" /\ poll' = p
        /\ UNCHANGED <<votes, pollRequest, version, shown, final, doubled, closings>>
    BY DEF Poll!Create, Poll!toldVars
  <1>2. PICK ids \in [BaseTexts -> 1 .. n] :
          /\ \A s, t \in BaseTexts : s # t => ids[s] # ids[t]
          /\ options' = [o \in Poll!OptionIds |-> IF \E t \in BaseTexts : ids[t] = o
                             THEN CHOOSE t \in BaseTexts : ids[t] = o ELSE Poll!NoText]
    BY PollCardinality DEF Poll!Create
  <1>3. n \in Nat /\ n < MaxOptions /\ MaxOptions \in Nat
    BY PollsAssumed
  <1>4. \A o \in 1 .. n : \E t \in BaseTexts : ids[t] = o
    <2>1. ids \in Injection(BaseTexts, 1 .. n)
      BY <1>2 DEF Injection, IsInjective
    <2>2. IsFiniteSet(1 .. n) /\ Cardinality(1 .. n) = n
      BY <1>3, FS_Interval
    <2>3. ids \in Surjection(BaseTexts, 1 .. n)
      BY <2>1, <2>2, FS_Injection
    <2> QED
      BY <2>3 DEF Surjection
  <1>5. ASSUME NEW o \in Poll!OptionIds
        PROVE  /\ o \in 1 .. n => options'[o] \in BaseTexts /\ ids[options'[o]] = o
               /\ o \notin 1 .. n => options'[o] = Poll!NoText
    BY <1>2, <1>4
  <1>6. Poll!Listed' = 1 .. n
    <2>1. 1 .. n \subseteq Poll!OptionIds
      BY <1>3 DEF Poll!OptionIds
    <2>2. \A o \in Poll!OptionIds : options'[o] # Poll!NoText <=> o \in 1 .. n
      BY <1>5, PollsAssumed
    <2> QED
      BY <2>1, <2>2 DEF Poll!Listed
  <1>7. /\ Poll!Listed = {} /\ votes = {} /\ \A q \in Requests : pollRequest[q].pc = "idle"
    <2>1. Poll!Listed = {} /\ \A q \in Requests : pollRequest[q].pc = "idle"
      BY <1>1 DEF PollInv, NotYet, Poll!Listed
    <2> QED
      BY <2>1 DEF PollInv, Poll!TypeOK
  <1>8. p.state = "open" /\ p \in [state : {"none", "open", "closed"}, multiple : BOOLEAN, custom : BOOLEAN]
    BY PollsAssumed
  <1>9. options' \in [Poll!OptionIds -> Poll!AllTexts]
    <2>1. \A o \in Poll!OptionIds : options'[o] \in Poll!AllTexts
      BY <1>5 DEF Poll!AllTexts
    <2> QED
      BY <1>2, <2>1
  <1> HIDE DEF p, n
  <1>10. Poll!TypeOK'
    BY <1>1, <1>7, <1>8, <1>9 DEF PollInv, Poll!TypeOK, Poll!RequestStates
  <1>11. VotesRight'
    BY <1>1, <1>7 DEF PollInv, VotesRight, VoteOK, VotePcs
  <1>12. NotYet' /\ OneInsert' /\ ResultRight' /\ ToldRight'
    BY <1>1, <1>7, <1>8 DEF PollInv, NotYet, OneInsert, ResultRight, ToldRight, Tells
  <1>13. ListedFromOne'
    BY <1>3, <1>6 DEF ListedFromOne
  <1>14. OneVote'
    BY <1>1, <1>7 DEF OneVote, Poll!VotesOf
  <1>15. ClosingsRight'
    BY <1>1, <1>8 DEF PollInv, ClosingsRight, Poll!Doing
  <1>16. TextsRight'
    <2>1. \A o, b \in Poll!Listed' : options'[o] = options'[b] => o = b
      <3> SUFFICES ASSUME NEW o \in 1 .. n, NEW b \in 1 .. n, options'[o] = options'[b] PROVE o = b
        BY <1>6
      <3>1. o \in Poll!OptionIds /\ b \in Poll!OptionIds
        BY <1>3 DEF Poll!OptionIds
      <3> QED
        BY <1>5, <3>1
    <2> QED
      BY <1>1, <1>7, <2>1 DEF TextsRight, Proposes
  <1> QED
    BY <1>10, <1>11, <1>12, <1>13, <1>14, <1>15, <1>16 DEF PollInv

\* The votes that the transaction saw are the user's still; the option that it adds
\* comes after the others.
LEMMA CommitVotePoll ==
    ASSUME PollInv, NEW q \in Requests, Poll!CommitVote(q)
    PROVE  PollInv'
  <1> DEFINE r == pollRequest[q]
             new == IF r.text = Poll!NoText THEN {}
                    ELSE IF r.found # 0 THEN {r.found} ELSE {Poll!Cardinality(Poll!Listed) + 1}
             x == [Poll!Idle EXCEPT !.pc = "load"]
             u == r.user
  <1>1. /\ r \in Poll!RequestStates /\ VoteOK(r) /\ r.pc = "insert" /\ poll.state # "none"
        /\ version \in Nat /\ version < MaxVersion /\ shown \in Shows
        /\ new \subseteq Poll!OptionIds
        /\ options' = [o \in Poll!OptionIds |-> IF o \in new THEN r.text ELSE options[o]]
        /\ votes' = (votes \ (r.removed \X {u})) \cup ((r.chosen \cup new) \X {u})
        /\ version' = version + 1
        /\ pollRequest' = [pollRequest EXCEPT ![q] = x]
        /\ shown' = "old"
        /\ UNCHANGED <<poll, final, doubled, closings>>
    BY PollRequestSays DEF Poll!CommitVote, Poll!Changed
  <1>2. /\ x \in Poll!RequestStates /\ x.pc = "load" /\ x.seen = 0 /\ x.user = Creator
    BY IdlePollRequest DEF Poll!Idle, Poll!RequestStates
  <1> HIDE DEF x
  <1>3. /\ r.removed = Poll!VotesOf(u) /\ r.chosen \subseteq Poll!Listed /\ u \in Users
        /\ ~poll.multiple => (\A a, b \in r.chosen : a = b) /\ (r.text # Poll!NoText => r.chosen = {})
        /\ r.found # 0 => r.found \in Poll!Listed /\ options[r.found] = r.text
        /\ r.text \in Poll!AllTexts
    BY <1>1 DEF VoteOK, VotePcs, Poll!RequestStates
  <1>4. PICK n \in 0 .. MaxOptions : n = Poll!Cardinality(Poll!Listed) /\ Poll!Listed = 1 .. n
    <2>1. PICK k \in 0 .. MaxOptions : Poll!Listed = 1 .. k
      BY DEF PollInv, ListedFromOne
    <2>2. k \in Nat
      BY <2>1, PollsAssumed
    <2>3. Cardinality(1 .. k) = k
      BY <2>2, FS_Interval
    <2> QED
      BY <2>1, <2>3, PollCardinality
  <1>5. n \in Nat /\ MaxOptions \in Nat
    BY <1>4, PollsAssumed
  <1>6. \/ new = {}
        \/ /\ r.text # Poll!NoText /\ r.found # 0 /\ new = {r.found}
           /\ r.found \in Poll!Listed /\ options[r.found] = r.text
        \/ /\ r.text # Poll!NoText /\ r.found = 0 /\ new = {n + 1}
           /\ n + 1 \in Poll!OptionIds /\ n + 1 \notin Poll!Listed
    <2>1. n + 1 \notin 1 .. n
      BY <1>5
    <2> QED
      BY <1>1, <1>3, <1>4, <2>1
  <1> HIDE DEF new
  <1>7. /\ \A o \in Poll!Listed : options'[o] = options[o]
        /\ \A o \in new : options'[o] = r.text
        /\ new # {} => r.text # Poll!NoText
    BY <1>1, <1>6 DEF Poll!Listed
  <1>8. Poll!Listed' = Poll!Listed \cup new
    <2>1. \A o \in Poll!OptionIds : options'[o] # Poll!NoText <=> options[o] # Poll!NoText \/ o \in new
      BY <1>1, <1>6, <1>7 DEF Poll!Listed
    <2> QED
      BY <1>1, <2>1 DEF Poll!Listed
  <1>9. /\ pollRequest' \in [Requests -> Poll!RequestStates]
        /\ \A s \in Requests : pollRequest'[s] = IF s = q THEN x ELSE pollRequest[s]
    BY <1>1, <1>2 DEF PollInv, Poll!TypeOK
  <1>10. /\ votes \subseteq Poll!Listed \X Users
         /\ \A w \in Users : Poll!VotesOf(w)' = IF w = u THEN r.chosen \cup new ELSE Poll!VotesOf(w)
    <2>1. votes \subseteq Poll!Listed \X Users
      BY DEF PollInv, Poll!TypeOK
    <2>2. r.chosen \cup new \subseteq Poll!OptionIds
      BY <1>1, <1>3 DEF Poll!Listed
    <2> HIDE DEF r, u
    <2>3. ASSUME NEW w \in Users, NEW o \in Poll!OptionIds
          PROVE  <<o, w>> \in votes' <=> \/ <<o, w>> \in votes /\ ~(w = u /\ o \in Poll!VotesOf(u))
                                         \/ w = u /\ o \in r.chosen \cup new
      BY <1>1, <1>3
    <2>4. ASSUME NEW w \in Users
          PROVE  Poll!VotesOf(w)' = IF w = u THEN r.chosen \cup new ELSE Poll!VotesOf(w)
      <3>1. CASE w = u
        <4>1. \A o \in Poll!OptionIds : <<o, w>> \in votes' <=> o \in r.chosen \cup new
          BY <2>3, <3>1 DEF Poll!VotesOf
        <4>2. Poll!VotesOf(w)' = {o \in Poll!OptionIds : <<o, w>> \in votes'}
          BY DEF Poll!VotesOf
        <4> QED
          BY <2>2, <3>1, <4>1, <4>2
      <3>2. CASE w # u
        <4>1. \A o \in Poll!OptionIds : <<o, w>> \in votes' <=> <<o, w>> \in votes
          BY <2>3, <3>2
        <4> QED
          BY <3>2, <4>1 DEF Poll!VotesOf
      <3> QED
        BY <3>1, <3>2
    <2> QED
      BY <2>1, <2>4
  <1>11. votes' \subseteq Poll!Listed' \X Users
    BY <1>1, <1>3, <1>8, <1>10
  <1>12. Poll!TypeOK'
    <2>1. options' \in [Poll!OptionIds -> Poll!AllTexts]
      BY <1>1, <1>3 DEF PollInv, Poll!TypeOK
    <2>2. version' \in 0 .. MaxVersion /\ shown' \in Shows
      BY <1>1, PollsAssumed DEF Shows
    <2> QED
      BY <1>1, <1>9, <1>11, <2>1, <2>2 DEF PollInv, Poll!TypeOK, Shows
  <1>13. VotesRight'
    <2> SUFFICES ASSUME NEW s \in Requests PROVE VoteOK(pollRequest[s])'
      BY DEF VotesRight
    <2>1. CASE s = q
      BY <1>1, <1>2, <1>9, <2>1 DEF VoteOK, VotePcs
    <2>2. CASE s # q
      <3> DEFINE y == pollRequest[s]
      <3>1. pollRequest'[s] = y /\ VoteOK(y) /\ y \in Poll!RequestStates
        BY <1>9, <2>2, PollRequestSays
      <3>2. y.pc = "insert" => y.user # u
        BY <1>1, <2>2 DEF PollInv, OneInsert
      <3>3. y.user \in Users /\ y.seen \in Nat
        BY <3>1 DEF Poll!RequestStates
      <3> HIDE DEF y, u
      <3>4. y.pc = "insert" => y.removed = {o \in Poll!OptionIds : <<o, y.user>> \in votes'}
        <4>1. y.user # u => {o \in Poll!OptionIds : <<o, y.user>> \in votes'} = Poll!VotesOf(y.user)
          BY <1>10, <3>3 DEF Poll!VotesOf
        <4> QED
          BY <3>1, <3>2, <4>1 DEF VoteOK
      <3>5. /\ y.seen <= version'
            /\ y.pc \in VotePcs =>
                 /\ y.chosen \subseteq Poll!Listed'
                 /\ ~poll'.multiple => /\ \A a, b \in y.chosen : a = b
                                       /\ y.text # Poll!NoText => y.chosen = {}
                 /\ y.pc = "option" => y.text # Poll!NoText
                 /\ y.pc \in {"delete", "insert"} /\ y.found # 0
                      => y.found \in Poll!Listed' /\ options'[y.found] = y.text
        <4>1. y.seen <= version'
          BY <1>1, <3>1, <3>3 DEF VoteOK
        <4> QED
          BY <1>1, <1>7, <1>8, <3>1, <4>1 DEF VoteOK
      <3> QED
        BY <3>1, <3>4, <3>5 DEF VoteOK, Poll!VotesOf
    <2> QED
      BY <2>1, <2>2
  <1>14. NotYet'
    BY <1>1 DEF NotYet
  <1>15. ListedFromOne'
    <2>1. CASE new \subseteq Poll!Listed
      BY <1>4, <1>8, <2>1 DEF ListedFromOne
    <2>2. CASE ~(new \subseteq Poll!Listed)
      <3>1. new = {n + 1} /\ n + 1 \in Poll!OptionIds
        BY <1>6, <2>2
      <3>2. n + 1 \in 0 .. MaxOptions /\ 1 .. n + 1 = 1 .. n \cup {n + 1}
        BY <1>5, <3>1 DEF Poll!OptionIds
      <3>3. Poll!Listed' = 1 .. n + 1
        BY <1>4, <1>8, <3>1, <3>2
      <3> QED
        BY <3>2, <3>3 DEF ListedFromOne
    <2> QED
      BY <2>1, <2>2
  <1>16. OneInsert'
    BY <1>2, <1>9 DEF PollInv, OneInsert
  <1>17. OneVote'
    <2> SUFFICES ASSUME ~poll.multiple, NEW w \in Users
                 PROVE  \A a, b \in Poll!VotesOf(w)' : a = b
      BY <1>1 DEF OneVote
    <2>1. \A a, b \in r.chosen \cup new : a = b
      BY <1>3, <1>6, <1>7
    <2>2. \A a, b \in Poll!VotesOf(w) : a = b
      BY DEF PollInv, OneVote
    <2>3. Poll!VotesOf(w)' = IF w = u THEN r.chosen \cup new ELSE Poll!VotesOf(w)
      BY <1>10
    <2> QED
      BY <2>1, <2>2, <2>3
  <1>18. ResultRight'
    BY <1>1 DEF PollInv, ResultRight, VotePcs
  <1>19. ClosingsRight'
    <2>1. Poll!Doing({"close"})' = Poll!Doing({"close"})
      BY <1>1, <1>2, <1>9 DEF Poll!Doing
    <2> QED
      BY <1>1, <2>1 DEF PollInv, ClosingsRight
  <1>20. TextsRight'
    <2> SUFFICES ASSUME ~doubled
                 PROVE  /\ \A a, b \in Poll!Listed' : options'[a] = options'[b] => a = b
                        /\ \A s \in Requests : Proposes(pollRequest'[s])
                             => \A a \in Poll!Listed' : options'[a] # pollRequest'[s].text
                        /\ \A s, t \in Requests :
                             s # t /\ Proposes(pollRequest'[s]) /\ Proposes(pollRequest'[t])
                             => pollRequest'[s].text # pollRequest'[t].text
      BY <1>1 DEF TextsRight, Proposes
    <2>1. /\ \A a, b \in Poll!Listed : options[a] = options[b] => a = b
          /\ \A s \in Requests : Proposes(pollRequest[s])
               => \A a \in Poll!Listed : options[a] # pollRequest[s].text
          /\ \A s, t \in Requests :
               s # t /\ Proposes(pollRequest[s]) /\ Proposes(pollRequest[t])
               => pollRequest[s].text # pollRequest[t].text
      BY DEF PollInv, TextsRight
    <2>2. ASSUME NEW s \in Requests, Proposes(pollRequest'[s])
          PROVE  s # q /\ pollRequest'[s] = pollRequest[s] /\ Proposes(pollRequest[s])
      BY <1>2, <1>9, <2>2 DEF Proposes
    <2>3. CASE new \subseteq Poll!Listed
      BY <1>7, <1>8, <2>1, <2>2, <2>3
    <2>4. CASE ~(new \subseteq Poll!Listed)
      <3>1. new = {n + 1} /\ Proposes(r) /\ n + 1 \notin Poll!Listed
        BY <1>1, <1>6, <2>4 DEF Proposes
      <3>2. options'[n + 1] = r.text /\ \A a \in Poll!Listed : options'[a] = options[a] /\ options[a] # r.text
        BY <1>7, <2>1, <3>1
      <3>3. \A a, b \in Poll!Listed' : options'[a] = options'[b] => a = b
        BY <1>8, <2>1, <3>1, <3>2
      <3>4. ASSUME NEW s \in Requests, Proposes(pollRequest'[s]), NEW a \in Poll!Listed'
            PROVE  options'[a] # pollRequest'[s].text
        <4>1. s # q /\ pollRequest'[s] = pollRequest[s] /\ Proposes(pollRequest[s])
          BY <2>2, <3>4
        <4>2. pollRequest[s].text # r.text
          BY <2>1, <3>1, <4>1
        <4>3. a \in Poll!Listed \/ a = n + 1
          BY <1>8, <3>1, <3>4
        <4> QED
          BY <2>1, <3>2, <4>1, <4>2, <4>3
      <3> QED
        BY <2>1, <2>2, <3>3, <3>4
    <2> QED
      BY <2>3, <2>4
  <1>21. ToldRight'
    BY <1>2, <1>9 DEF ToldRight, Tells
  <1> QED
    BY <1>12, <1>13, <1>14, <1>15, <1>16, <1>17, <1>18, <1>19, <1>20, <1>21 DEF PollInv

\* The first closing keeps the result and who is under way; the others find it closed.
LEMMA CommitClosePoll ==
    ASSUME PollInv, NEW q \in Requests, Poll!CommitClose(q)
    PROVE  PollInv'
  <1> DEFINE r == pollRequest[q]
             x == [r EXCEPT !.pc = "load"]
             p == [poll EXCEPT !.state = "closed"]
             C == Poll!Doing({"close"})
             f == [votes |-> votes, voting |-> Poll!Doing({"option", "delete", "insert"}),
                   closing |-> C \ {q}]
  <1>1. /\ r \in Poll!RequestStates /\ VoteOK(r) /\ r.pc = "close" /\ poll.state # "none"
        /\ version \in Nat /\ version < MaxVersion /\ shown \in Shows
        /\ poll' = p
        /\ final' = IF poll.state = "closed" THEN final ELSE f
        /\ closings' = closings + 1 /\ version' = version + 1
        /\ shown' = "old"
        /\ UNCHANGED <<options, votes, doubled>>
    BY PollRequestSays DEF Poll!CommitClose, Poll!Changed
  <1>2. pollRequest' = [pollRequest EXCEPT ![q] = x]
    BY DEF Poll!CommitClose, PollInv, Poll!TypeOK
  <1>3. /\ x \in Poll!RequestStates /\ x.pc = "load" /\ x.seen = r.seen
    BY <1>1 DEF Poll!RequestStates
  <1> HIDE DEF x
  <1>4. /\ pollRequest' \in [Requests -> Poll!RequestStates]
        /\ \A s \in Requests : pollRequest'[s] = IF s = q THEN x ELSE pollRequest[s]
    BY <1>2, <1>3 DEF PollInv, Poll!TypeOK
  <1>5. /\ p \in [state : {"none", "open", "closed"}, multiple : BOOLEAN, custom : BOOLEAN]
        /\ p.state = "closed" /\ p.multiple = poll.multiple
    BY DEF PollInv, Poll!TypeOK
  <1> HIDE DEF p
  <1>6. /\ f.votes = votes /\ f.closing = C \ {q}
        /\ f.voting = Poll!Doing({"option", "delete", "insert"})
    OBVIOUS
  <1> HIDE DEF f
  <1>7. Poll!TypeOK'
    <2>1. votes \subseteq Poll!OptionIds \X Users
      BY DEF PollInv, Poll!TypeOK, Poll!Listed
    <2>2. version' \in 0 .. MaxVersion /\ shown' \in Shows /\ closings' \in Nat
      BY <1>1, PollsAssumed DEF PollInv, Poll!TypeOK, Shows
    <2>3. final'.votes \subseteq Poll!OptionIds \X Users
      BY <1>1, <1>6, <2>1 DEF PollInv, Poll!TypeOK
    <2> QED
      BY <1>1, <1>4, <1>5, <2>2, <2>3 DEF PollInv, Poll!TypeOK, Poll!Listed, Shows
  <1>8. VotesRight'
    <2> SUFFICES ASSUME NEW s \in Requests PROVE VoteOK(pollRequest[s])'
      BY DEF VotesRight
    <2>1. VoteOK(pollRequest'[s])
      BY <1>1, <1>3, <1>4, PollRequestSays DEF VoteOK, VotePcs
    <2>2. pollRequest'[s].seen \in Nat /\ pollRequest'[s].seen <= version'
      BY <1>1, <1>4, <2>1 DEF VoteOK, Poll!RequestStates
    <2> QED
      BY <1>1, <1>5, <2>1, <2>2 DEF VoteOK, Poll!Listed, Poll!VotesOf
  <1>9. NotYet' /\ ListedFromOne' /\ OneVote'
    BY <1>1, <1>5 DEF PollInv, NotYet, ListedFromOne, OneVote, Poll!Listed, Poll!VotesOf
  <1>10. OneInsert'
    BY <1>3, <1>4 DEF PollInv, OneInsert
  <1>11. ResultRight'
    <2> SUFFICES ASSUME final'.voting = {}
                 PROVE  votes = final'.votes /\ \A s \in Requests : pollRequest'[s].pc \notin VotePcs
      BY <1>1 DEF ResultRight
    <2>1. CASE poll.state = "closed"
      BY <1>1, <1>3, <1>4, <2>1 DEF PollInv, ResultRight, VotePcs
    <2>2. CASE poll.state # "closed"
      <3>1. final'.votes = votes /\ Poll!Doing({"option", "delete", "insert"}) = {}
        BY <1>1, <1>6, <2>2
      <3>2. \A s \in Requests : pollRequest[s].pc \notin VotePcs
        BY <3>1 DEF Poll!Doing, VotePcs
      <3> QED
        BY <1>3, <1>4, <3>1, <3>2 DEF VotePcs
    <2> QED
      BY <2>1, <2>2
  <1>12. ClosingsRight'
    <2>1. q \in C /\ IsFiniteSet(C) /\ IsFiniteSet(final.closing)
      BY <1>1 DEF Poll!Doing, PollInv, ClosingsRight
    <2>2. Poll!Doing({"close"})' = C \ {q}
      BY <1>3, <1>4 DEF Poll!Doing
    <2>3. /\ IsFiniteSet(C \ {q}) /\ Cardinality(C \ {q}) = Cardinality(C) - 1
          /\ Cardinality(C) \in Nat /\ Cardinality(C \ {q}) \in Nat
          /\ Cardinality(final.closing) \in Nat /\ closings \in Nat
      BY <2>1, FS_RemoveElement, FS_CardinalityType DEF PollInv, Poll!TypeOK
    <2> HIDE DEF C
    <2>4. CASE poll.state = "closed"
      <3>1. closings + Cardinality(C) <= 1 + Cardinality(final.closing)
        BY <2>4 DEF PollInv, ClosingsRight, C
      <3>2. closings' + Cardinality(C \ {q}) <= 1 + Cardinality(final.closing)
        BY <1>1, <2>3, <3>1
      <3> QED
        BY <1>1, <1>5, <2>1, <2>2, <2>3, <2>4, <3>2 DEF ClosingsRight
    <2>5. CASE poll.state # "closed"
      <3>1. closings = 0
        BY <2>5 DEF PollInv, ClosingsRight
      <3>2. final'.closing = C \ {q}
        BY <1>1, <1>6, <2>5
      <3>3. closings' + Cardinality(C \ {q}) <= 1 + Cardinality(C \ {q})
        BY <1>1, <2>3, <3>1
      <3> QED
        BY <1>1, <1>5, <2>2, <2>3, <3>2, <3>3 DEF ClosingsRight
    <2> QED
      BY <2>4, <2>5
  <1>13. TextsRight'
    <2>1. ~Proposes(x)
      BY <1>3 DEF Proposes
    <2> QED
      BY <1>1, <1>2, <1>3, <2>1, TextsStay
  <1>14. ToldRight'
    BY <1>3, <1>4 DEF ToldRight, Tells
  <1> QED
    BY <1>7, <1>8, <1>9, <1>10, <1>11, <1>12, <1>13, <1>14 DEF PollInv

LEMMA PollStep == PollInv /\ [Poll!Next]_pollVars => PollInv'
  <1> SUFFICES ASSUME PollInv, [Poll!Next]_pollVars PROVE PollInv'
    OBVIOUS
  <1>1. ASSUME NEW q \in Requests,
               \/ Poll!Vote(q) \/ Poll!Close(q) \/ Poll!Rollback(q)
               \/ Poll!Load(q) \/ Poll!LoadFails(q) \/ Poll!Tell(q)
        PROVE  PollInv'
    BY <1>1, BeginVotePoll, FindOptionPoll, DeleteVotesPoll, CommitVotePoll, BeginClosePoll,
       CommitClosePoll, RollbackPoll, LoadPoll, LoadFailsPoll, TellPoll DEF Poll!Vote, Poll!Close
  <1>2. CASE UNCHANGED pollVars
    BY <1>2 DEF pollVars, PollInv, Poll!TypeOK, VotesRight, VoteOK, NotYet, ListedFromOne, OneInsert,
                OneVote, ResultRight, ClosingsRight, TextsRight, Proposes, ToldRight, Tells,
                Poll!Listed, Poll!VotesOf, Poll!Doing
  <1> QED
    BY <1>1, <1>2, CreatePoll DEF Poll!Next

\* One choice stays one choice, however the requests of a user's devices overlap; the
\* result of a closed poll stands, unless a vote was under way; its closing is announced
\* once for each request that found it open; the texts of its options differ, unless two
\* users proposed one at once; the members are told its last change, unless an older state
\* is told after it or it cannot be loaded.
THEOREM PollsAreRight == Spec => []PollsHold
  <1>1. Init => PollInv
    BY PollInit DEF Init
  <1>2. PollInv /\ [Next]_vars => PollInv'
    <2> SUFFICES ASSUME PollInv, [Next]_vars PROVE PollInv'
      OBVIOUS
    <2>1. [Poll!Next]_pollVars
      BY DEF Next, PollNext, MarkNext, FileNext, DeviceNext, DirectNext, vars, pollVars
    <2> QED
      BY <2>1, PollStep
  <1>3. PollInv => PollsHold
    BY PollInvSays
  <1> QED
    BY <1>1, <1>2, <1>3, PTL DEF Spec
===============================================================================
