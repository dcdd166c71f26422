-------------------------------- MODULE Devices --------------------------------
(***************************************************************************)
(* Device tokens and pushes: RegisterDeviceToken, UnregisterDeviceToken    *)
(* and PushService.                                                        *)
(*                                                                         *)
(* An installation has a token that Firebase replaces now and then; a      *)
(* member logs in and out on it.  Its requests may be late.  A push        *)
(* selects tokens, sends, and then deletes the tokens that were rejected,  *)
(* while the table changes.  The table has no index on device_id, so the   *)
(* DELETE by device locks all of it until its transaction ends.            *)
(***************************************************************************)
EXTENDS Integers, FiniteSets

CONSTANTS
    Users,
    Members,    \* members of the conversation that pushes are about
    NoUser,     \* nobody is logged in; as the sender: a member without installation here
    Devices,    \* installations: a device id each
    NoDevice,   \* '': the column's default, in rows from before it was added
    Requests,   \* requests that are handled at the same time
    Rotating,   \* bound: installations whose token is replaced
    MaxTokens   \* bound: tokens of an installation

\* What the constants must satisfy.
DeviceConstants ==
    /\ Members \subseteq Users /\ NoUser \notin Users
    /\ NoDevice \notin Devices /\ Rotating \subseteq Devices
    /\ MaxTokens \in Nat \ {0}

VARIABLES
    firebase,   \* the push service's client: unknown, ready or missing
    rows,       \* chat_device_tokens
    token,      \* token[d] is the number of d's token; those before it are dead
    session,    \* session[d] is who is logged in
    request,    \* request[q] is what request q is doing
    push,       \* the push under way
    registered, \* history: registered[d] is the last registration of d
    strayed     \* history: what a push did that it should not

vars == <<firebase, rows, token, session, request, push, registered, strayed>>

Tokens == Devices \X (1 .. MaxTokens)
NoToken == <<NoDevice, 0>>
Alive(t) == t[2] = token[t[1]]

NoRow  == [token |-> NoToken, user |-> NoUser, device |-> NoDevice]
Idle   == [pc |-> "idle", row |-> NoRow]
\* tokens are still to be sent to, or were not reached; changed are of installations
\* that registered after the selection; a call push must not come back to origin.
NoPush == [pc |-> "none", tokens |-> {}, changed |-> {}, origin |-> NoDevice]

\* The rows may be there from before device_id was.
Init ==
    /\ firebase = "unknown"
    /\ token = [d \in Devices |-> 1]
    /\ session = [d \in Devices |-> NoUser]
    /\ \E d \in Devices, u \in Users :
         rows \in {{}, {[token |-> <<d, 1>>, user |-> u, device |-> NoDevice]}}
    /\ request = [q \in Requests |-> Idle]
    /\ push = NoPush
    /\ registered = [d \in Devices |-> NoRow]
    /\ strayed = {}

-----------------------------------------------------------------------------
(* The installations.                                                        *)

Login(d, u) ==
    /\ session[d] = NoUser
    /\ session' = [session EXCEPT ![d] = u]
    /\ UNCHANGED <<firebase, rows, token, request, push, registered, strayed>>

\* Firebase gives the installation a new token.
Rotate(d) ==
    /\ d \in Rotating /\ token[d] < MaxTokens
    /\ token' = [token EXCEPT ![d] = @ + 1]
    /\ UNCHANGED <<firebase, rows, session, request, push, registered, strayed>>

AskRegister(q, d) ==
    /\ request[q] = Idle /\ session[d] # NoUser
    /\ request' = [request EXCEPT ![q] =
           [pc |-> "delete", row |-> [token |-> <<d, token[d]>>, user |-> session[d], device |-> d]]]
    /\ UNCHANGED <<firebase, rows, token, session, push, registered, strayed>>

\* The web client does not name its token.
Logout(q, d, named) ==
    /\ request[q] = Idle /\ session[d] # NoUser
    /\ session' = [session EXCEPT ![d] = NoUser]
    /\ request' = [request EXCEPT ![q] =
           [pc |-> "unregister", row |-> [token |-> IF named THEN <<d, token[d]>> ELSE NoToken,
                                          user |-> session[d], device |-> d]]]
    /\ UNCHANGED <<firebase, rows, token, push, registered, strayed>>

\* The request is lost, or its transaction fails.
Lose(q) ==
    /\ request[q] # Idle
    /\ request' = [request EXCEPT ![q] = Idle]
    /\ UNCHANGED <<firebase, rows, token, session, push, registered, strayed>>

-----------------------------------------------------------------------------
(* RegisterDeviceToken and UnregisterDeviceToken.                            *)

TableLocked == \E q \in Requests : request[q].pc = "insert"

\* The transaction's DELETE takes the lock.
LockTable(q) ==
    /\ request[q].pc = "delete" /\ ~TableLocked
    /\ request' = [request EXCEPT ![q].pc = "insert"]
    /\ UNCHANGED <<firebase, rows, token, session, push, registered, strayed>>

\* Mutant: only the account's own rows of the installation are cleared.
ClearedOwn(new) == {r \in rows : r.device = new.device /\ r.token # new.token /\ r.user = new.user}

\* Every association of the installation with another token is cleared.
Cleared(new) == {r \in rows : r.device = new.device /\ r.token # new.token}

\* INSERT ... ON DUPLICATE KEY UPDATE: the token becomes the account's, whoever
\* had it.
Stored(new) == new

\* The transaction commits.
Register(q) ==
    LET new == request[q].row IN
    /\ request[q].pc = "insert"
    /\ rows' = {r \in rows \ Cleared(new) : r.token # new.token} \cup {Stored(new)}
    /\ registered' = [registered EXCEPT ![new.device] = new]
    /\ push' = [push EXCEPT !.changed = @ \cup {t \in push.tokens : t[1] = new.device}]
    /\ request' = [request EXCEPT ![q] = Idle]
    /\ UNCHANGED <<firebase, token, session, strayed>>

\* The rows that an unregistration is about.
Matches(r, old) ==
    /\ r.user = old.user /\ r.device = old.device
    /\ old.token \in {NoToken, r.token}

Unregister(q) ==
    LET old == request[q].row IN
    /\ request[q].pc = "unregister" /\ ~TableLocked
    /\ rows' = {r \in rows : ~Matches(r, old)}
    /\ registered' = [registered EXCEPT ![old.device] =
           IF /\ @.user = old.user /\ old.token \in {NoToken, @.token} THEN NoRow ELSE @]
    /\ request' = [request EXCEPT ![q] = Idle]
    /\ UNCHANGED <<firebase, token, session, push, strayed>>

-----------------------------------------------------------------------------
(* PushService.                                                              *)

\* client(): made by the first push; a failure is remembered for good.
Connect(outcome) ==
    /\ firebase = "unknown"
    /\ firebase' = outcome
    /\ UNCHANGED <<rows, token, session, request, push, registered, strayed>>

\* The rows of the installation that a call push comes from.
OriginExcluded(origin, named) ==
    {r \in rows : r.device = origin \/ (named /\ r.token = <<origin, token[origin]>>)}

\* deviceTokens: of the members that did not mute the conversation, without the
\* account that caused the push unless it is a control event or a reminder, and
\* without the installation that a call push comes from.  Without its token that
\* installation is not found in a row that does not name it.
Select(kind, by, origin, named, muted) ==
    LET call  == kind \in {"invite", "control"}
        left  == IF call THEN OriginExcluded(origin, named) ELSE {}
        asked == {r \in rows \ left : /\ r.user \in Members \ muted
                                      /\ kind \in {"message", "invite"} => r.user # by}
        known == named \/ \A r \in rows : r.token[1] = origin => r.device = origin
    IN /\ firebase = "ready" /\ push = NoPush
       /\ asked # {}
       /\ push' = [pc |-> "send", tokens |-> {r.token : r \in asked}, changed |-> {},
                   origin |-> IF call /\ known THEN origin ELSE NoDevice]
       /\ UNCHANGED <<firebase, rows, token, session, request, registered, strayed>>

\* Whom the registrations say that a token belongs to now.
AccountOf(t) == registered[t[1]].user

\* SendEachForMulticast.  What is dead, or what Firebase fails to send, is not
\* received.
Deliver(failed) ==
    LET reached == {t \in push.tokens \ failed : Alive(t)} IN
    /\ push.pc = "send"
    /\ push' = [NoPush EXCEPT !.pc = "prune", !.tokens = push.tokens \ reached]
    /\ strayed' = strayed
         \cup (IF \E t \in reached : t[1] = push.origin THEN {"origin"} ELSE {})
         \cup (IF \E t \in reached \ push.changed : AccountOf(t) \notin Members \cup {NoUser}
               THEN {"account"} ELSE {})
    /\ UNCHANGED <<firebase, rows, token, session, request, registered>>

\* isInvalidRegistrationToken: Firebase does not know the token, or not any more.
Rejected(t) == ~Alive(t)

\* logMulticastResult: the rejected tokens are deleted, each by itself; the
\* table may have changed since the answer.
Prune ==
    /\ push.pc = "prune" /\ ~TableLocked
    /\ IF push.tokens = {}
       THEN push' = NoPush /\ UNCHANGED rows
       ELSE \E t \in push.tokens :
              /\ push' = [push EXCEPT !.tokens = @ \ {t}]
              /\ rows' \in {rows, IF Rejected(t) THEN {r \in rows : r.token # t} ELSE rows}
    /\ UNCHANGED <<firebase, token, session, request, registered, strayed>>

-----------------------------------------------------------------------------
Client(d) ==
    \/ \E u \in Users : Login(d, u)
    \/ Rotate(d)
    \/ \E q \in Requests : AskRegister(q, d) \/ \E named \in BOOLEAN : Logout(q, d, named)

Server(q) == LockTable(q) \/ Register(q) \/ Unregister(q) \/ Lose(q)

Kinds == {"message", "invite", "control", "reminder"}

Push ==
    \/ \E outcome \in {"ready", "missing"} : Connect(outcome)
    \/ \E kind \in Kinds, named \in BOOLEAN, muted \in SUBSET Members :
         \/ \E d \in Devices : session[d] \in Members /\ Select(kind, session[d], d, named, muted)
         \/ Select(kind, NoUser, NoDevice, FALSE, muted)
    \/ \E failed \in SUBSET push.tokens : Deliver(failed)
    \/ Prune

Next ==
    \/ \E d \in Devices : Client(d)
    \/ \E q \in Requests : Server(q)
    \/ Push

Spec == Init /\ [][Next]_vars

-----------------------------------------------------------------------------
(* Properties.                                                               *)

Rows == [token : Tokens, user : Users, device : Devices \cup {NoDevice}]

\* The rows keep their shape, and a token has one row.
TypeOK ==
    /\ firebase \in {"unknown", "ready", "missing"}
    /\ rows \subseteq Rows
    /\ \A r, s \in rows : r.token = s.token => r = s
    /\ token \in [Devices -> 1 .. MaxTokens]
    /\ session \in [Devices -> Users \cup {NoUser}]
    /\ push.tokens \subseteq Tokens
    /\ registered \in [Devices -> Rows \cup {NoRow}]

\* An installation that has given its id belongs to one account.
OneAccountPerInstallation ==
    \A r, s \in rows : r.device = s.device /\ r.device # NoDevice => r = s

\* The last registration of an installation stands as long as its token lives:
\* neither a late logout of another account nor the answer to a push takes it
\* away.
RegisteredIsReachable ==
    \A d \in Devices :
        registered[d].token = <<d, token[d]>> => registered[d] \in rows

\* No call event comes back to the installation that caused it, unless its row
\* does not name it and the request does not name its token.
OriginIsLeftOut == "origin" \notin strayed

\* No push reaches an installation whose account is not a member, unless the
\* account changed after the tokens were selected.
PushesReachMembers == "account" \notin strayed
=============================================================================
