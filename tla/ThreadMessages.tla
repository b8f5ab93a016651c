--------------------------- MODULE ThreadMessages ---------------------------
(***************************************************************************)
(* The messages of a thread (conversation.rs of the use cases and          *)
(* handlers, conversation_repository.rs).  The statements are those of     *)
(* module Messages on the tables thread_messages and thread_reads; access  *)
(* is the set of users with a thread_members row.  New are who may post,   *)
(* members who leave and come back, and the direct thread that is rejected *)
(* with all its rows while requests for it are in flight.                  *)
(*                                                                         *)
(* An INSERT holds the row of its thread FOR KEY SHARE until it commits,   *)
(* so that the DELETE of the thread waits for it; after the DELETE the     *)
(* foreign keys refuse every INSERT.                                       *)
(***************************************************************************)
EXTENDS Messages

CONSTANT Kinds  \* what the instance starts with

ASSUME ThreadAssumption == Kinds \subseteq {"CHANNEL", "GROUP", "DIRECT"}

VARIABLES
    kind,          \* CHANNEL, threads.kind, or GONE after a reject
    direct_status, \* threads.direct_status
    creator        \* owner_id of a group, requested_by of a direct thread

threadVars == <<kind, direct_status, creator>>
allVars == <<vars, threadVars>>

\* In a direct thread both users are members from the start.
ThreadInit ==
    /\ Init
    /\ kind \in Kinds
    /\ direct_status = IF kind = "DIRECT" THEN "PENDING" ELSE "ACTIVE"
    /\ creator \in IF kind = "CHANNEL" THEN {NoUser} ELSE Users

(***************************************************************************)
(* Type invariant; a request is bound to a user exactly while it runs.     *)
(***************************************************************************)
ThreadTypeOK ==
    /\ TypeOK
    /\ kind \in Kinds \cup {"GONE"}
    /\ direct_status \in {"PENDING", "ACTIVE"}
    /\ creator \in Users \cup {NoUser}

Exists == kind \in {"GROUP", "DIRECT"}

-----------------------------------------------------------------------------
\* find_thread_access: the receiver of a PENDING thread may not post.
MayPost(u) == direct_status = "PENDING" => u = creator

CreateThreadMessage(r, u, c) ==
    /\ Exists
    /\ MayPost(u)
    /\ CreateMessage(r, u, c)

\* Mutant: thread_id is no foreign key.
MutInsertThreadMessage(r, m) == Insert(r, m)

InsertThreadMessage(r, m) ==
    /\ Exists
    /\ Insert(r, m)

\* The foreign key is violated: not found.
InsertRefused(r) ==
    /\ ~Exists
    /\ pc[r] = "create"
    /\ Return(r)
    /\ UNCHANGED <<clock, rowVars, readVars, access, walkVars, seen, eventVars, ops, drops>>

\* edit_thread_message and delete_thread_message name a message and no
\* thread: find_thread_message_by_id ...
EditThreadMessage(r, u, m, c) == FindMessage(r, u, m, "edit", c)

DeleteThreadMessage(r, u, m) == FindMessage(r, u, m, "delete", NoContent)

\* ... require_thread_member and the author, then the write.
CheckThreadAuthor(r) == CheckAuthor(r)

UpdateThreadMessageContent(r) == UpdateMessageContent(r)

SoftDeleteThreadMessage(r) == SoftDeleteMessage(r)

\* THREAD_MESSAGE_CREATE, THREAD_MESSAGE_UPDATE and THREAD_MESSAGE_DELETE go
\* to the subscribers of the thread, whether it still exists or not.
PublishThreadCreate(r) == pc[r] = "created" /\ PublishMessage(r)

PublishThreadUpdate(r) == pc[r] = "updated" /\ PublishMessage(r)

PublishThreadDelete(r) == PublishDelete(r)

MarkThreadRead(r, u, m) == MarkChannelRead(r, u, m)

ResolveThreadLastRead(r) == ResolveLatest(r) \/ ResolveRequested(r)

\* INSERT INTO thread_reads ... ON CONFLICT DO UPDATE.
UpsertThreadRead(r) ==
    /\ Exists
    /\ UpsertRead(r)

\* A foreign key of thread_reads is violated: an internal error.
UpsertRefused(r) ==
    /\ ~Exists
    /\ pc[r] \in {"upsert", "catchup"}
    /\ seen' = [seen EXCEPT ![r] = {}]
    /\ Return(r)
    /\ UNCHANGED <<clock, rowVars, readVars, access, walkVars, eventVars, ops, drops>>

\* SUBSCRIBE_THREAD: can_access_thread, then the hub and the ack.
SubscribeThread(u) == CheckSubscribe(u) \/ Subscribe(u)

\* list_thread_messages: require_thread_member and find_anchor ...
FindThreadAnchor(u) == FindAnchor(u)

\* ... and the page.
ListThreadMessages(u, limit) == ListMessages(u, limit)

-----------------------------------------------------------------------------
(***************************************************************************)
(* The thread itself changes.                                              *)
(***************************************************************************)

\* leave_group: its owner stays.
LeaveThread(u) ==
    /\ kind = "GROUP"
    /\ u # creator
    /\ LoseAccess(u)
    /\ UNCHANGED threadVars

\* add_group_member or a join by invite.
JoinThread(u) ==
    /\ kind = "GROUP"
    /\ RegainAccess(u)
    /\ UNCHANGED threadVars

\* accept_direct_thread_request.
AcceptThread(u) ==
    /\ kind = "DIRECT"
    /\ u \in access /\ u # creator
    /\ direct_status = "PENDING"
    /\ direct_status' = "ACTIVE"
    /\ UNCHANGED <<vars, kind, creator>>

\* reject_direct_thread_request: the DELETE takes members, messages and read
\* markers with it.  No event tells the subscribers.
RejectThread(u) ==
    /\ kind = "DIRECT"
    /\ u \in access /\ u # creator
    /\ direct_status = "PENDING"
    /\ \A r \in Requests : pc[r] # "inserting"
    /\ kind' = "GONE"
    /\ status' = [m \in Ids |-> "none"]
    /\ access' = {}
    /\ last_read' = [v \in Users |-> NoMessage]
    /\ caught' = [v \in Users |-> {}]
    /\ raced' = Ids
    /\ UNCHANGED <<clock, created_at, author_id, content, localVars, walkVars, seen,
                   subs, shown, told, ops, drops, direct_status, creator>>

\* A step of a request, of a reader or of the environment.
ThreadStep ==
    \/ \E r \in Requests, u \in Users, c \in Contents : CreateThreadMessage(r, u, c)
    \/ \E r \in Requests, m \in Ids : InsertThreadMessage(r, m)
    \/ \E r \in Requests : InsertRefused(r)
    \/ \E r \in Requests : Inserted(r)
    \/ \E r \in Requests, u \in Users, m \in Ids, c \in Contents : EditThreadMessage(r, u, m, c)
    \/ \E r \in Requests, u \in Users, m \in Ids : DeleteThreadMessage(r, u, m)
    \/ \E r \in Requests : CheckThreadAuthor(r)
    \/ \E r \in Requests : UpdateThreadMessageContent(r)
    \/ \E r \in Requests : SoftDeleteThreadMessage(r)
    \/ \E r \in Requests : PublishThreadCreate(r)
    \/ \E r \in Requests : PublishThreadUpdate(r)
    \/ \E r \in Requests : PublishThreadDelete(r)
    \/ \E r \in Requests, u \in Users, m \in Ids \cup {NoMessage} : MarkThreadRead(r, u, m)
    \/ \E r \in Requests : ResolveThreadLastRead(r)
    \/ \E r \in Requests : UpsertThreadRead(r)
    \/ \E r \in Requests : UpsertRefused(r)
    \/ \E u \in Followers : SubscribeThread(u)
    \/ \E u \in Readers : FindThreadAnchor(u)
    \/ \E u \in Readers, l \in LimitArgs : ListThreadMessages(u, l)
    \/ Tick
    \/ \E r \in Requests : Drop(r)

ThreadNext ==
    \/ kind = "CHANNEL" /\ Next /\ UNCHANGED threadVars
    \/ kind # "CHANNEL" /\ ThreadStep /\ UNCHANGED threadVars
    \/ \E u \in Users : LeaveThread(u)
    \/ \E u \in Users : JoinThread(u)
    \/ \E u \in Users : AcceptThread(u)
    \/ \E u \in Users : RejectThread(u)

ThreadSpec == ThreadInit /\ [][ThreadNext]_allVars

-----------------------------------------------------------------------------
\* The rows as MessageLog sees them; author_id tells an id that was used.
textBar ==
    [m \in Ids |-> CASE status[m] = "live" -> content[m]
                     [] status[m] = "deleted" -> "gone"
                     [] status[m] = "none" /\ author_id[m] # NoUser -> "lost"
                     [] OTHER -> NoContent]

Log == INSTANCE MessageLog WITH text <- textBar, open <- kind # "GONE"

(***************************************************************************)
(* The rows behave as MessageLog says, for channels and threads: edits and *)
(* deletes that checked a message before it was deleted, or before its     *)
(* thread was rejected, change nothing, and nothing is posted in a thread  *)
(* that is gone.                                                           *)
(***************************************************************************)
ImplementsLog == Log!Spec

(***************************************************************************)
(* "only message author can edit message", "only message author can delete *)
(* thread message": whatever changes a message that is not deleted is the  *)
(* write of a request of its author, although the author was compared a    *)
(* query earlier and the write names the message only.  The one exception  *)
(* is the reject, which takes the whole thread.                            *)
(***************************************************************************)
AuthorWrites ==
    [][\A m \in Live :
           m \notin Live' \/ content'[m] # content[m] =>
               \/ kind' = "GONE"
               \/ \E r \in Requests :
                      /\ pc[r] \in {"update", "erase"} /\ pc'[r] # pc[r]
                      /\ msg[r] = m /\ who[r] = author_id[m]]_allVars
=============================================================================
