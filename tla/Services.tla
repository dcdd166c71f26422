------------------------------- MODULE Services -------------------------------
(***************************************************************************)
(* The services around the messages of a conversation: polls, pins and     *)
(* reactions, attachments, device tokens and pushes, direct conversations. *)
(* They work on tables of their own, so a behaviour exercises one of them, *)
(* chosen at the start; each has its requests.                             *)
(***************************************************************************)
EXTENDS Naturals

CONSTANTS Users, Requests

CONSTANTS Creator, PollKinds, BaseTexts, Texts, MaxOptions, MaxVersion \* polls

CONSTANTS Messages, NoMessage, Scenarios, MaxTime, MaxArrived \* pins and reactions

CONSTANTS Files, NoFile, Carriers \* attachments, and the messages that carry them

CONSTANTS Members, Nobody, Devices, NoDevice, Rotating, MaxTokens \* device tokens

CONSTANTS Stranger, Groups, MaxDirect \* direct conversations, for one more user

VARIABLES poll, options, votes, pollRequest, version, shown, final, doubled, closings

VARIABLES now, pins, cached, reactions, recalled, hidden, scenario, arrived, markRequest,
          audit, sent, overtaken

VARIABLES disk, upload, pending, message, avatar, fileRequest, late, reused

VARIABLES firebase, rows, token, session, tokenRequest, push, registered, strayed

VARIABLES direct, directRequest, answer, raced

VARIABLE part \* the service that this behaviour exercises

Poll   == INSTANCE Polls WITH request <- pollRequest, Kinds <- PollKinds
Mark   == INSTANCE Marks WITH request <- markRequest
File   == INSTANCE Attachments WITH request <- fileRequest, Messages <- Carriers
Device == INSTANCE Devices WITH request <- tokenRequest, NoUser <- Nobody
Direct == INSTANCE Directs WITH request <- directRequest, Users <- Users \cup {Stranger}

ASSUME ServiceAssumption ==
    /\ Poll!PollConstants
    /\ Mark!MarkConstants
    /\ File!AttachmentConstants
    /\ Device!DeviceConstants
    /\ Direct!DirectConstants

pollVars   == <<poll, options, votes, pollRequest, version, shown, final, doubled, closings>>
markVars   == <<now, pins, cached, reactions, recalled, hidden, scenario, arrived, markRequest,
                audit, sent, overtaken>>
fileVars   == <<disk, upload, pending, message, avatar, fileRequest, late, reused>>
deviceVars == <<firebase, rows, token, session, tokenRequest, push, registered, strayed>>
directVars == <<direct, directRequest, answer, raced>>
vars       == <<pollVars, markVars, fileVars, deviceVars, directVars, part>>

\* Where a service can begin in several ways the others take one of them.
Init ==
    /\ part \in {"polls", "marks", "files", "devices", "directs"}
    /\ Poll!Init
    /\ Mark!Init /\ (part = "marks" \/ scenario = CHOOSE s \in Scenarios : TRUE)
    /\ File!Init
    /\ Device!Init /\ (part = "devices" \/ rows = {})
    /\ Direct!Init

PollNext ==
    /\ part = "polls" /\ Poll!Next
    /\ UNCHANGED <<markVars, fileVars, deviceVars, directVars, part>>

MarkNext ==
    /\ part = "marks" /\ Mark!Next
    /\ UNCHANGED <<pollVars, fileVars, deviceVars, directVars, part>>

FileNext ==
    /\ part = "files" /\ File!Next
    /\ UNCHANGED <<pollVars, markVars, deviceVars, directVars, part>>

DeviceNext ==
    /\ part = "devices" /\ Device!Next
    /\ UNCHANGED <<pollVars, markVars, fileVars, directVars, part>>

DirectNext ==
    /\ part = "directs" /\ Direct!Next
    /\ UNCHANGED <<pollVars, markVars, fileVars, deviceVars, part>>

Next == PollNext \/ MarkNext \/ FileNext \/ DeviceNext \/ DirectNext

Spec == Init /\ [][Next]_vars

-----------------------------------------------------------------------------
(* The properties of the services.                                           *)

\* One choice stays one choice, however the requests of a user's devices overlap;
\* the result of a closed poll stands, unless a vote was under way; its closing is
\* announced once for each request that found it open; the texts of its options
\* differ, unless two users proposed one at once; the members show its last change,
\* unless an older state overtook it or it could not be loaded.
PollsHold ==
    /\ Poll!TypeOK
    /\ Poll!OneVoteEach
    /\ Poll!ResultIsFinal
    /\ Poll!ClosedOnce
    /\ Poll!TextsAreDistinct
    /\ Poll!LastChangeIsTold

\* The pin that a conversation keeps is its newest one; what is announced about pins
\* are changes; the list that a member shows is the list, unless an older one came
\* last.
MarksHold ==
    /\ Mark!TypeOK
    /\ Mark!CachedIsNewest
    /\ Mark!AnnouncementsAreChanges
    /\ Mark!ShownIsPinned

\* A recalled message gets neither pins nor reactions.
RecalledIsLeftAlone == Mark!RecalledIsLeftAlone

\* The files of live messages and of a conversation are there, unless the latter was
\* chosen when it was gone or about to go; an upload is claimed by one message; a file
\* that is left behind is on record.
FilesHold ==
    /\ File!TypeOK
    /\ File!LiveHasFile
    /\ File!AvatarHasFile
    /\ File!ClaimedByOne
    /\ File!LeftoverIsRecorded

\* An installation belongs to one account, and its last registration stands; a call
\* event does not come back to its installation; pushes reach installations of
\* members, unless the account changed meanwhile.
TokensHold ==
    /\ Device!TypeOK
    /\ Device!OneAccountPerInstallation
    /\ Device!RegisteredIsReachable
    /\ Device!OriginIsLeftOut
    /\ Device!PushesReachMembers

\* Two users have one direct conversation, unless both created it at once; what they
\* are given is of the two, and calls in it reach the other.
DirectsHold ==
    /\ Direct!OneDirectConversation
    /\ Direct!AnswerIsOfTheTwo
=============================================================================
