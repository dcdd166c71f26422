-------------------------------- MODULE Polls --------------------------------
(***************************************************************************)
(* One poll of a group: CreatePoll, VotePoll, ClosePoll and the broadcasts *)
(* that follow them.                                                       *)
(*                                                                         *)
(* A request reads the poll before its transaction, so what it has checked *)
(* may be out of date when it commits.  A vote's transaction looks for its *)
(* custom option, deletes the user's votes and inserts the new ones; the   *)
(* index (poll_id, userid) makes the transactions of one user wait for     *)
(* each other at the deletion, or one of them is rolled back.  After the   *)
(* commit each request loads the poll afresh for each member and tells it. *)
(***************************************************************************)
EXTENDS Integers, FiniteSets

CONSTANTS
    Users,      \* members of the conversation
    Creator,    \* who creates the poll
    Requests,   \* requests that are handled at the same time
    Kinds,      \* the polls to create: [multiple, custom], whether several choices and custom
                \* options are allowed
    BaseTexts,  \* texts of the options the poll is created with
    Texts,      \* texts that users propose
    MaxOptions, \* bound: rows of chat_poll_options
    MaxVersion  \* bound: changes of the poll

\* What the constants must satisfy.
PollConstants ==
    /\ Creator \in Users
    /\ Kinds \subseteq [multiple : BOOLEAN, custom : BOOLEAN]
    /\ IsFiniteSet(BaseTexts) /\ Cardinality(BaseTexts) >= 2
    /\ MaxOptions \in Nat /\ MaxOptions > Cardinality(BaseTexts)
    /\ MaxVersion \in Nat
    /\ "none" \notin BaseTexts \cup Texts \* it stands for no text

VARIABLES
    poll,    \* the row of chat_polls
    options, \* chat_poll_options: options[o] is the text of option o
    votes,   \* chat_poll_votes: <<option, user>>
    request, \* request[q] is what request q is doing
    version, \* history: counts the changes of the poll
    shown,   \* history: what a member was told last: the "last" version or an "old" one;
             \* "overtaken" is an old one that was told after the last one, and "untold"
             \* an old one because a request could not load the last one
    final,   \* history: the votes, and the requests under way, when the poll was closed
    doubled, \* history: two requests proposed the same text at the same time
    closings \* history: system messages that say that the poll was closed

toldVars == <<version, shown>>
vars == <<poll, options, votes, request, toldVars, final, doubled, closings>>

NoText == "none"
NoPoll == [state |-> "none", multiple |-> FALSE, custom |-> FALSE]

OptionIds == 1 .. MaxOptions
Listed    == {o \in OptionIds : options[o] # NoText}
VotesOf(u) == {o \in OptionIds : <<o, u>> \in votes}

\* chosen are the options selected, text the custom one, found its option in the
\* transaction (0 when it is to be inserted), removed the votes that the DELETE
\* found, seen the version to tell.
Idle == [pc |-> "idle", user |-> Creator, chosen |-> {}, text |-> NoText,
         found |-> 0, removed |-> {}, seen |-> 0]

Init ==
    /\ poll = NoPoll
    /\ options = [o \in OptionIds |-> NoText]
    /\ votes = {}
    /\ request = [q \in Requests |-> Idle]
    /\ version = 0
    /\ shown = "last"
    /\ final = [votes |-> {}, voting |-> {}, closing |-> {}]
    /\ doubled = FALSE
    /\ closings = 0

\* CreatePoll: everything in one transaction.  normalizePollOptions refuses
\* texts that occur twice.
Create(kind) ==
    /\ poll.state = "none"
    /\ poll' = [state |-> "open", multiple |-> kind.multiple, custom |-> kind.custom]
    /\ \E ids \in [BaseTexts -> 1 .. Cardinality(BaseTexts)] :
         /\ \A s, t \in BaseTexts : s # t => ids[s] # ids[t]
         /\ options' = [o \in OptionIds |-> IF \E t \in BaseTexts : ids[t] = o
                                            THEN CHOOSE t \in BaseTexts : ids[t] = o ELSE NoText]
    /\ UNCHANGED <<votes, request, toldVars, final, doubled, closings>>

Enter(q, r) ==
    /\ request[q] = Idle
    /\ request' = [request EXCEPT ![q] = r]
    /\ UNCHANGED <<poll, options, votes, toldVars, final, doubled, closings>>

Doing(pcs) == {q \in Requests : request[q].pc \in pcs}

\* The poll has changed: what a member was told is out of date.
Changed ==
    /\ version < MaxVersion
    /\ version' = version + 1
    /\ shown' = "old"

-----------------------------------------------------------------------------
(* Votes.                                                                    *)

\* What VotePoll checks before its transaction; choosing nothing takes the vote
\* back.
BeginVote(q, u, chosen, text) ==
    /\ poll.state = "open"
    /\ chosen \subseteq Listed
    /\ text # NoText => poll.custom
    /\ poll.multiple \/ Cardinality(chosen) + (IF text = NoText THEN 0 ELSE 1) <= 1
    /\ Enter(q, [Idle EXCEPT !.pc = IF text = NoText THEN "delete" ELSE "option",
                             !.user = u, !.chosen = chosen, !.text = text])

\* Requests that are about to insert the same text.
SameText(q) ==
    {p \in Requests \ {q} : request[p].pc \in {"delete", "insert"} /\ request[p].found = 0
                            /\ request[p].text = request[q].text}

\* findOrCreatePollOption: nobody sees the option that another transaction has
\* inserted and not committed, and nothing makes the texts unique.
FindOption(q) ==
    LET same == {o \in Listed : options[o] = request[q].text} IN
    /\ request[q].pc = "option"
    /\ \E o \in (IF same = {} THEN {0} ELSE same) :
         request' = [request EXCEPT ![q].pc = "delete", ![q].found = o]
    /\ doubled' = (doubled \/ (same = {} /\ SameText(q) # {}))
    /\ UNCHANGED <<poll, options, votes, toldVars, final, closings>>

\* Mutant: the transactions of a user do not wait for each other.
DeleteUnlocked(q) ==
    /\ request[q].pc = "delete"
    /\ request' = [request EXCEPT ![q].pc = "insert", ![q].removed = VotesOf(request[q].user)]
    /\ UNCHANGED <<poll, options, votes, toldVars, final, doubled, closings>>

\* DELETE ... WHERE poll_id = ? AND userid = ? locks what it finds, or the gap.
DeleteVotes(q) ==
    /\ request[q].pc = "delete"
    /\ \A p \in Requests : request[p].pc = "insert" => request[p].user # request[q].user
    /\ request' = [request EXCEPT ![q].pc = "insert", ![q].removed = VotesOf(request[q].user)]
    /\ UNCHANGED <<poll, options, votes, toldVars, final, doubled, closings>>

\* The votes that the DELETE saw are gone, the new ones there.
CommitVote(q) ==
    LET r == request[q]
        proposed == IF r.text = NoText THEN {}
                    ELSE IF r.found # 0 THEN {r.found} ELSE {Cardinality(Listed) + 1}
    IN /\ r.pc = "insert" /\ proposed \subseteq OptionIds
       /\ options' = [o \in OptionIds |-> IF o \in proposed THEN r.text ELSE options[o]]
       /\ votes' = (votes \ (r.removed \X {r.user})) \cup ((r.chosen \cup proposed) \X {r.user})
       /\ Changed
       /\ request' = [request EXCEPT ![q] = [Idle EXCEPT !.pc = "load"]]
       /\ UNCHANGED <<poll, final, doubled, closings>>

-----------------------------------------------------------------------------
(* Closing.                                                                  *)

\* ClosePoll is for the creator; to close a closed poll only tells it again.
BeginClose(q) ==
    /\ poll.state # "none"
    /\ Enter(q, [Idle EXCEPT !.pc = IF poll.state = "closed" THEN "load" ELSE "close"])

\* The UPDATE does not ask whether the poll is open still.
CommitClose(q) ==
    /\ request[q].pc = "close"
    /\ poll' = [poll EXCEPT !.state = "closed"]
    /\ final' = IF poll.state = "closed" THEN final
                ELSE [votes |-> votes, voting |-> Doing({"option", "delete", "insert"}),
                      closing |-> Doing({"close"}) \ {q}]
    /\ closings' = closings + 1
    /\ Changed
    /\ request' = [request EXCEPT ![q].pc = "load"]
    /\ UNCHANGED <<options, votes, doubled>>

-----------------------------------------------------------------------------
(* Broadcasts.                                                               *)

\* A transaction is rolled back: a deadlock, a statement that fails.
Rollback(q) ==
    /\ request[q].pc \in {"option", "delete", "insert", "close"}
    /\ request' = [request EXCEPT ![q] = Idle]
    /\ UNCHANGED <<poll, options, votes, toldVars, final, doubled, closings>>

\* broadcastPollUpdated loads the poll for each recipient (loadPolls: what its
\* later statements read is as new or newer) ...
Load(q) ==
    /\ request[q].pc = "load"
    /\ request' = [request EXCEPT ![q].pc = "tell", ![q].seen = version]
    /\ UNCHANGED <<poll, options, votes, toldVars, final, doubled, closings>>

\* ... which may fail: before the broadcast, so that nobody is told, or for one
\* recipient, who is passed over.
LoadFails(q) ==
    /\ request[q].pc = "load"
    /\ request' = [request EXCEPT ![q] = Idle]
    /\ shown' = IF shown = "old" THEN "untold" ELSE shown
    /\ UNCHANGED <<poll, options, votes, version, final, doubled, closings>>

\* ... and sends it.  Another request may have told a newer state meanwhile.
Tell(q) ==
    /\ request[q].pc = "tell"
    /\ shown' = IF request[q].seen = version THEN "last"
                ELSE IF shown = "last" THEN "overtaken" ELSE shown
    /\ request' = [request EXCEPT ![q] = Idle]
    /\ UNCHANGED <<poll, options, votes, version, final, doubled, closings>>

-----------------------------------------------------------------------------
Vote(q) ==
    \/ \E u \in Users, chosen \in SUBSET OptionIds, text \in Texts \cup {NoText} :
         BeginVote(q, u, chosen, text)
    \/ FindOption(q) \/ DeleteVotes(q) \/ CommitVote(q)

Close(q) == BeginClose(q) \/ CommitClose(q)

Next ==
    \/ \E kind \in Kinds : Create(kind)
    \/ \E q \in Requests : Vote(q) \/ Close(q) \/ Rollback(q) \/ Load(q) \/ LoadFails(q) \/ Tell(q)

Spec == Init /\ [][Next]_vars

-----------------------------------------------------------------------------
(* Properties.                                                               *)

AllTexts == BaseTexts \cup Texts \cup {NoText}

RequestStates == [pc : {"idle", "option", "delete", "insert", "close", "load", "tell"},
                  user : Users, chosen : SUBSET OptionIds, text : AllTexts,
                  found : OptionIds \cup {0},
                  removed : SUBSET OptionIds, seen : Nat]

\* The rows keep their shape, and nobody has a vote for an option that is not
\* there.
TypeOK ==
    /\ poll \in [state : {"none", "open", "closed"}, multiple : BOOLEAN, custom : BOOLEAN]
    /\ options \in [OptionIds -> AllTexts]
    /\ votes \subseteq Listed \X Users
    /\ request \in [Requests -> RequestStates]
    /\ version \in 0 .. MaxVersion /\ shown \in {"last", "old", "overtaken", "untold"}
    /\ final.votes \subseteq OptionIds \X Users
    /\ doubled \in BOOLEAN /\ closings \in Nat

\* Where one choice is allowed nobody has two votes, however the requests of his
\* devices overlap.
OneVoteEach == (poll.state # "none" /\ ~poll.multiple) => \A u \in Users : Cardinality(VotesOf(u)) <= 1

\* The result of a closed poll stands, unless a vote was under way when it was
\* closed: nothing asks again whether the poll is open.
ResultIsFinal == (poll.state = "closed" /\ final.voting = {}) => votes = final.votes

\* The closing is announced once, and once more for each other request to close
\* the poll that was under way then.
ClosedOnce == closings <= 1 + Cardinality(final.closing)

\* Two options have the same text only after two users proposed it at the same
\* time.
TextsAreDistinct ==
    doubled \/ \A o, p \in Listed : options[o] = options[p] => o = p

\* When nothing is under way any more a member shows the last change, unless another
\* request told an older state after it, or the poll could not be loaded after it.
LastChangeIsTold == (\A q \in Requests : request[q] = Idle) => shown # "old"
=============================================================================
