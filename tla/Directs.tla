-------------------------------- MODULE Directs --------------------------------
(***************************************************************************)
(* Direct conversations: CreateDirectConversation, and whom a call in one  *)
(* of them reaches.                                                        *)
(*                                                                         *)
(* CreateDirectConversation looks for the conversation of the two and, if  *)
(* there is none, creates it in a transaction; nothing makes it unique.    *)
(***************************************************************************)
EXTENDS Naturals, Sequences

CONSTANTS
    Users,
    Groups,   \* member sets of the groups that there are
    Requests, \* requests that are handled at the same time
    MaxDirect \* bound: direct conversations that are created

\* What the constants must satisfy.
DirectConstants ==
    /\ Groups \subseteq SUBSET Users
    /\ MaxDirect \in Nat

VARIABLES
    direct,   \* direct[n]: the two members of the n-th direct conversation
    request,  \* request[q] is what request q is doing
    answer,   \* history: who last asked for whom, and what he was given
    raced     \* history: pairs for whom two requests found nothing at the same time

vars == <<direct, request, answer, raced>>

Pairs == {p \in Users \X Users : p[1] # p[2]}
Both(p) == {p[1], p[2]}
Idle == [pc |-> "idle", pair |-> <<>>]
NoAnswer == [pair |-> <<>>, type |-> "none", members |-> {}]

Init ==
    /\ direct = <<>>
    /\ request = [q \in Requests |-> Idle]
    /\ answer = NoAnswer
    /\ raced = {}

-----------------------------------------------------------------------------
(* CreateDirectConversation.                                                 *)

\* The conversations in which users take part, groups and direct ones.
Conversations == [type : {"group"}, members : Groups]
                 \cup {[type |-> "direct", members |-> direct[n]] : n \in DOMAIN direct}

\* Mutant: the first direct conversation of the one who asks, whoever is the other.
FindFirst(p) ==
    {c \in Conversations :
        /\ c.type = "direct" /\ c.members = Both(p)
        /\ \E n \in DOMAIN direct : /\ direct[n] = Both(p)
                                   /\ \A k \in 1 .. n - 1 : p[1] \notin direct[k]}

\* findDirectConversation: a direct conversation with these two members and no
\* others; LIMIT 1 takes one of them.
Find(p) == {c \in Conversations : c.type = "direct" /\ c.members = Both(p)}

Answer(p, c) == answer' = [pair |-> p, type |-> c.type, members |-> c.members]

Search(q, p) ==
    /\ request[q] = Idle
    /\ \/ /\ \E c \in Find(p) : Answer(p, c)
          /\ UNCHANGED <<request, raced>>
       \/ /\ Find(p) = {}
          /\ request' = [request EXCEPT ![q] = [pc |-> "create", pair |-> p]]
          /\ raced' = raced \cup {Both(p) : r \in {r \in Requests : /\ request[r] # Idle
                                                                    /\ Both(request[r].pair) = Both(p)}}
          /\ UNCHANGED answer
    /\ UNCHANGED direct

\* The transaction: the conversation and its two members.
Create(q) ==
    LET p == request[q].pair IN
    /\ request[q].pc = "create" /\ Len(direct) < MaxDirect
    /\ direct' = Append(direct, Both(p))
    /\ Answer(p, [type |-> "direct", members |-> Both(p)])
    /\ request' = [request EXCEPT ![q] = Idle]
    /\ UNCHANGED raced

\* The transaction fails.
Rollback(q) ==
    /\ request[q].pc = "create"
    /\ request' = [request EXCEPT ![q] = Idle]
    /\ UNCHANGED <<direct, answer, raced>>

Next ==
    \E q \in Requests : (\E p \in Pairs : Search(q, p)) \/ Create(q) \/ Rollback(q)

Spec == Init /\ [][Next]_vars

-----------------------------------------------------------------------------
\* DirectCallRecipients: the others of a direct conversation, for a member.
DirectCallRecipients(u, c) ==
    IF c.type = "direct" /\ u \in c.members THEN c.members \ {u} ELSE {}

-----------------------------------------------------------------------------
(* Properties.                                                               *)

\* Two users have one direct conversation, unless two requests for them found
\* none at the same time.
OneDirectConversation ==
    \A m, n \in DOMAIN direct : m # n /\ direct[m] = direct[n] => direct[m] \in raced

\* What a user is given is a direct conversation of the two, in which a call
\* reaches the other one and nobody else.
AnswerIsOfTheTwo ==
    answer # NoAnswer =>
        LET p == answer.pair IN
        DirectCallRecipients(p[1], [type |-> answer.type, members |-> answer.members]) = {p[2]}
=============================================================================
