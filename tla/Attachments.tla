------------------------------ MODULE Attachments ------------------------------
(***************************************************************************)
(* Uploaded files: the file on disk, the row of chat_pending_uploads that  *)
(* says who owns it, the attachments of messages that refer to it, and the *)
(* conversation that shows it as its avatar or background.                 *)
(*                                                                         *)
(* Sending and forwarding are transactions; what they read FOR UPDATE stays *)
(* locked until they end.  A recall marks the message and its attachments  *)
(* in a transaction and then, outside any, looks for other references,     *)
(* removes the file and deletes the row.                                   *)
(***************************************************************************)
EXTENDS FiniteSets

CONSTANTS
    Files,     \* uploaded files: saveUploadedFileRandom makes their names unique
    Messages,  \* messages with one attachment
    NoMessage, \* message id NULL
    NoFile,    \* no avatar
    Requests   \* requests that are handled at the same time

\* What the constants must satisfy.
AttachmentConstants ==
    /\ NoMessage \notin Messages
    /\ NoFile \notin Files
    /\ {"none", "free"} \cap Messages = {} \* they stand for no row and for NULL

VARIABLES
    disk,     \* the files that exist
    upload,   \* upload[f] is how far UploadFiles is with f
    pending,  \* pending[f]: "none", "free", or the message that claimed f
    message,  \* message[m]: its file, the message it forwards, whether it is live
    avatar,   \* the file that the conversation shows
    request,  \* request[q] is what request q is doing
    late,     \* history: the avatar was chosen when its file was gone, or about to go
    reused    \* history: files with another reference when a recall looked for one

vars == <<disk, upload, pending, message, avatar, request, late, reused>>

Unsent == [state |-> "unsent", file |-> NoFile, source |-> NoMessage]
Idle   == [pc |-> "idle", msg |-> NoMessage, file |-> NoFile, source |-> NoMessage]

Init ==
    /\ disk = {}
    /\ upload = [f \in Files |-> "none"]
    /\ pending = [f \in Files |-> "none"]
    /\ message = [m \in Messages |-> Unsent]
    /\ avatar = NoFile
    /\ request = [q \in Requests |-> Idle]
    /\ late = FALSE
    /\ reused = {}

Live(f) == {m \in Messages : message[m].state = "live" /\ message[m].file = f}

\* Mutant: the source is read without FOR UPDATE.
NothingLocked == {}

\* The rows that transactions hold locked: sources of forwards, claimed uploads.
SourcesLocked == {request[q].source : q \in {p \in Requests : request[p].pc = "insert"}}
UploadsLocked == {request[q].file : q \in {p \in Requests : request[p].pc = "insert"
                                                            /\ request[p].source = NoMessage}}

Step(q, pc) == request' = [request EXCEPT ![q].pc = pc]
Done(q)     == request' = [request EXCEPT ![q] = Idle]

-----------------------------------------------------------------------------
(* UploadFiles and RegisterPendingUploads.                                   *)

Save(f) ==
    /\ upload[f] = "none"
    /\ upload' = [upload EXCEPT ![f] = "saved"]
    /\ disk' = disk \cup {f}
    /\ UNCHANGED <<pending, message, avatar, request, late, reused>>

Register(f) ==
    /\ upload[f] = "saved"
    /\ upload' = [upload EXCEPT ![f] = "done"]
    /\ pending' = [pending EXCEPT ![f] = "free"]
    /\ UNCHANGED <<disk, message, avatar, request, late, reused>>

\* The row could not be stored: the handler removes what it saved.
RegisterFails(f) ==
    /\ upload[f] = "saved"
    /\ upload' = [upload EXCEPT ![f] = "done"]
    /\ disk' = disk \ {f}
    /\ UNCHANGED <<pending, message, avatar, request, late, reused>>

-----------------------------------------------------------------------------
(* Sending: authorizeAndClaimAttachment, for the owner of the upload.        *)

Sending == {request[q].msg : q \in {p \in Requests : request[p].pc \in {"source", "claim", "insert"}}}

BeginSend(q, m, f, source) ==
    /\ request[q] = Idle
    /\ message[m] = Unsent /\ m \notin Sending
    /\ upload[f] = "done"
    /\ source # NoMessage => message[source].file = f
    /\ request' = [request EXCEPT ![q] = [pc |-> IF source = NoMessage THEN "claim" ELSE "source",
                                          msg |-> m, file |-> f, source |-> source]]
    /\ UNCHANGED <<disk, upload, pending, message, avatar, late, reused>>

\* The source must be live; it stays locked.  Otherwise the file must be an upload.
TakeSource(q) ==
    LET r == request[q] IN
    /\ r.pc = "source" /\ r.source \notin SourcesLocked
    /\ request' = [request EXCEPT ![q].pc = IF message[r.source].state = "live" THEN "insert" ELSE "claim",
                                  ![q].source = IF message[r.source].state = "live" THEN r.source ELSE NoMessage]
    /\ UNCHANGED <<disk, upload, pending, message, avatar, late, reused>>

\* Only an upload that no message has claimed; its row stays locked.
Claim(q) ==
    LET r == request[q] IN
    /\ r.pc = "claim" /\ r.file \notin UploadsLocked
    /\ IF pending[r.file] = "free" THEN Step(q, "insert") ELSE Done(q)
    /\ UNCHANGED <<disk, upload, pending, message, avatar, late, reused>>

\* The transaction commits: the message, its attachment, the claim.
CommitSend(q) ==
    LET r == request[q] IN
    /\ r.pc = "insert"
    /\ message' = [message EXCEPT ![r.msg] = [state |-> "live", file |-> r.file, source |-> r.source]]
    /\ pending' = IF r.source = NoMessage THEN [pending EXCEPT ![r.file] = r.msg] ELSE pending
    /\ Done(q)
    /\ UNCHANGED <<disk, upload, avatar, late, reused>>

-----------------------------------------------------------------------------
\* A recall has found that nothing refers to f.
AboutToGo(f) == \E q \in Requests : request[q].pc = "remove" /\ request[q].file = f

\* UpdateConversationSettings stores the address that it is given, in one
\* statement, and asks nobody whether the file is still there.  An address is known
\* when UploadFiles has answered, and for good.
SetAvatar(f) ==
    /\ f # NoFile => upload[f] = "done"
    /\ avatar' = f
    /\ late' = (f # NoFile /\ (f \notin disk \/ AboutToGo(f)))
    /\ UNCHANGED <<disk, upload, pending, message, request, reused>>

-----------------------------------------------------------------------------
(* RecallMessageVersion.                                                     *)

BeginRecall(q, m) ==
    /\ request[q] = Idle /\ message[m].state = "live"
    /\ request' = [request EXCEPT ![q] = [Idle EXCEPT !.pc = "recall", !.msg = m,
                                                      !.file = message[m].file]]
    /\ UNCHANGED <<disk, upload, pending, message, avatar, late, reused>>

\* Waits for the message's rows; the version must be what was read.
CommitRecall(q) ==
    LET r == request[q] IN
    /\ r.pc = "recall" /\ r.msg \notin SourcesLocked
    /\ IF message[r.msg].state = "live"
       THEN message' = [message EXCEPT ![r.msg].state = "recalled"] /\ Step(q, "attachments")
       ELSE Done(q) /\ UNCHANGED message
    /\ UNCHANGED <<disk, upload, pending, avatar, late, reused>>

\* Something still refers to the file: it stays, and the claim of this message goes.
Keep(q) ==
    /\ Step(q, "unclaim")
    /\ reused' = IF pending[request[q].file] = request[q].msg THEN reused \cup {request[q].file} ELSE reused

\* hasLiveChatFileReference counts the live attachments ...
CountAttachments(q) ==
    /\ request[q].pc = "attachments"
    /\ IF Live(request[q].file) # {} THEN Keep(q) ELSE Step(q, "avatars") /\ UNCHANGED reused
    /\ UNCHANGED <<disk, upload, pending, message, avatar, late>>

\* ... and, if there is none, the conversations that show the file.
CountAvatars(q) ==
    /\ request[q].pc = "avatars"
    /\ IF avatar = request[q].file THEN Keep(q) ELSE Step(q, "remove") /\ UNCHANGED reused
    /\ UNCHANGED <<disk, upload, pending, message, avatar, late>>

\* cleanupLocalChatAttachment; that there is no file is no error.
Remove(q) ==
    /\ request[q].pc = "remove"
    /\ disk' = disk \ {request[q].file}
    /\ Step(q, "unclaim")
    /\ UNCHANGED <<upload, pending, message, avatar, late, reused>>

\* A count or the removal fails: the claim is kept as a sign that the file is left.
RemoveFails(q) ==
    /\ request[q].pc \in {"attachments", "avatars", "remove"}
    /\ Done(q)
    /\ UNCHANGED <<disk, upload, pending, message, avatar, late, reused>>

\* DELETE ... WHERE file_url = ? AND claimed_message_id = ?; an error is ignored.
Unclaim(q) ==
    LET r == request[q] IN
    /\ r.pc = "unclaim" /\ r.file \notin UploadsLocked
    /\ pending' \in {pending, [pending EXCEPT ![r.file] = IF @ = r.msg THEN "none" ELSE @]}
    /\ Done(q)
    /\ UNCHANGED <<disk, upload, message, avatar, late, reused>>

-----------------------------------------------------------------------------
\* A transaction fails: nothing of it happened.
Rollback(q) ==
    /\ request[q].pc \in {"source", "claim", "insert", "recall"}
    /\ Done(q)
    /\ UNCHANGED <<disk, upload, pending, message, avatar, late, reused>>

\* The server stops: what has been committed stays, what was to follow is lost.
Crash ==
    /\ request' = [q \in Requests |-> Idle]
    /\ upload' = [f \in Files |-> IF upload[f] = "saved" THEN "lost" ELSE upload[f]]
    /\ UNCHANGED <<disk, pending, message, avatar, late, reused>>

Next ==
    \/ \E f \in Files : Save(f) \/ Register(f) \/ RegisterFails(f)
    \/ \E f \in Files \cup {NoFile} : SetAvatar(f)
    \/ \E q \in Requests :
         \/ \E m \in Messages, f \in Files, source \in Messages \cup {NoMessage} : BeginSend(q, m, f, source)
         \/ TakeSource(q) \/ Claim(q) \/ CommitSend(q)
         \/ \E m \in Messages : BeginRecall(q, m)
         \/ CommitRecall(q) \/ CountAttachments(q) \/ CountAvatars(q)
         \/ Remove(q) \/ RemoveFails(q) \/ Unclaim(q) \/ Rollback(q)
    \/ Crash

Spec == Init /\ [][Next]_vars

-----------------------------------------------------------------------------
(* Properties.                                                               *)

TypeOK ==
    /\ disk \subseteq Files
    /\ upload \in [Files -> {"none", "saved", "done", "lost"}]
    /\ pending \in [Files -> {"none", "free"} \cup Messages]
    /\ message \in [Messages -> {Unsent} \cup [state : {"live", "recalled"}, file : Files,
                                                source : Messages \cup {NoMessage}]]
    /\ avatar \in Files \cup {NoFile}
    /\ late \in BOOLEAN /\ reused \subseteq Files

\* The file of a message that was not recalled is there, though recalls of the
\* messages that it was forwarded from and to remove it outside any transaction.
LiveHasFile == \A m \in Messages : message[m].state = "live" => message[m].file \in disk

\* The file that the conversation shows stays there, whoever recalls messages with it,
\* unless it was chosen too late: when a recall had removed it, or had counted who
\* refers to it and was about to remove it.
AvatarHasFile == (avatar # NoFile /\ ~late) => avatar \in disk

\* An upload is claimed by one message; every other message with the file
\* forwards it.
ClaimedByOne ==
    \A m, n \in Messages :
        /\ message[m].file = message[n].file /\ message[m].file # NoFile
        /\ message[m].source = NoMessage /\ message[n].source = NoMessage
        => m = n

\* A file that is left behind is on record: no live message and no conversation
\* has it, no recall is at work on it, and its row of chat_pending_uploads names
\* its path; unless the message that claimed it was recalled while something
\* else had the file.
LeftoverIsRecorded ==
    \A f \in disk \ (reused \cup {avatar}) :
        /\ \E m \in Messages : message[m].file = f
        /\ Live(f) = {}
        /\ \A q \in Requests : request[q].file # f
        => pending[f] # "none"
=============================================================================
