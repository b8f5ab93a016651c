------------------------------ MODULE Messages ------------------------------
(***************************************************************************)
(* The messages of one channel: create, edit, soft delete and their        *)
(* gateway events, cursor pagination and read markers (message.rs of the   *)
(* use cases and handlers, message_repository.rs).  ThreadMessages extends *)
(* this module to the messages of a thread.                                *)
(*                                                                         *)
(* Every statement commits by itself.  created_at is the time the INSERT   *)
(* started and the id is a random UUID, so rows become visible in an order *)
(* that need not be that of (created_at, id).  No code removes a row.  A   *)
(* handler is dropped at any await when its client disconnects.            *)
(***************************************************************************)
EXTENDS Integers, FiniteSets, Sequences, SequencesExt

CONSTANTS
    Users,
    NoUser,
    Ids,        \* message ids (UUIDs), ordered
    NoMessage,  \* None for a message id
    Contents,   \* message texts
    NoContent,
    LimitArgs,  \* page limits a client may ask for
    MAX_PAGE_LIMIT,
    MaxTime,    \* bound: readings of the clock
    MaxDrops,   \* bound: requests dropped half way
    MaxOps,     \* bound: edits, deletes and read requests
    Readers,    \* users who page through the channel
    Followers,  \* readers who subscribe to its events first
    Requests    \* writing HTTP requests in flight at the same time

ASSUME MessagesAssumption ==
    /\ NoUser \notin Users
    /\ Ids \subseteq Nat /\ IsFiniteSet(Ids)
    /\ NoMessage \notin Ids
    /\ NoContent \notin Contents /\ NoContent # "gone"
    /\ LimitArgs \subseteq Int
    /\ MAX_PAGE_LIMIT \in Nat \ {0}
    /\ MaxTime \in Nat \ {0}
    /\ MaxDrops \in Nat
    /\ MaxOps \in Nat
    /\ Readers \subseteq Users
    /\ Followers \subseteq Readers

VARIABLES
    clock,      \* NOW() of the database
    status,     \* id -> none, inserting (not committed), live or deleted
    created_at, \* id -> created_at
    author_id,  \* id -> author_id
    content,    \* id -> content
    last_read,  \* user -> last_read_message_id of channel_reads
    access,     \* users with VIEW_CHANNEL and SEND_MESSAGES
    pc,         \* where each writing request is
    who,        \* its user
    msg,        \* its message
    text,       \* the content it writes
    page,       \* reader -> where its walk through the pages is
    cursor,     \* reader -> next_cursor of its last page
    listed,     \* reader -> ids of its pages, in order
    base,       \* history: messages live at the reader's first page
    seen,       \* history: messages live when a read request resolved
    caught,     \* history: messages live at the user's last catch-up
    subs,       \* follower -> where its subscription is
    shown,      \* follower -> id -> what its client shows
    told,       \* id -> number of MESSAGE_DELETE events
    raced,      \* history: messages with two requests of their author at once,
                \* or a dropped one
    ops, drops  \* requests, and dropped ones, so far

rowVars    == <<status, created_at, author_id, content>>
localVars  == <<pc, who, msg, text>>
walkVars   == <<page, cursor, listed, base>>
readVars   == <<last_read, caught>>
eventVars  == <<subs, shown, told, raced>>
vars == <<clock, rowVars, readVars, access, localVars, walkVars, seen, eventVars, ops, drops>>

PCs == {"idle", "create", "inserting", "created", "edit", "delete", "update", "erase",
        "updated", "erased", "read", "latest", "upsert", "catchup"}

(***************************************************************************)
(* Type invariant; requests are bound to a user exactly while they run.    *)
(***************************************************************************)
TypeOK ==
    /\ clock \in 1 .. MaxTime
    /\ status \in [Ids -> {"none", "inserting", "live", "deleted"}]
    /\ created_at \in [Ids -> 0 .. MaxTime]
    /\ author_id \in [Ids -> Users \cup {NoUser}]
    /\ content \in [Ids -> Contents \cup {NoContent}]
    /\ last_read \in [Users -> Ids \cup {NoMessage}]
    /\ access \subseteq Users
    /\ pc \in [Requests -> PCs]
    /\ who \in [Requests -> Users \cup {NoUser}]
    /\ \A r \in Requests : pc[r] = "idle" <=> who[r] = NoUser
    /\ msg \in [Requests -> Ids \cup {NoMessage}]
    /\ text \in [Requests -> Contents \cup {NoContent}]
    /\ page \in [Readers -> {"anchor", "select", "done"}]
    /\ cursor \in [Readers -> Ids \cup {NoMessage}]
    /\ listed \in [Readers -> Seq(Ids)]
    /\ base \in [Readers -> SUBSET Ids]
    /\ seen \in [Requests -> SUBSET Ids]
    /\ caught \in [Users -> SUBSET Ids]
    /\ subs \in [Followers -> {"none", "allowed", "acked"}]
    /\ shown \in [Followers -> [Ids -> Contents \cup {NoContent, "gone"}]]
    /\ told \in [Ids -> Nat]
    /\ raced \subseteq Ids
    /\ ops \in 0 .. MaxOps
    /\ drops \in 0 .. MaxDrops

Init ==
    /\ clock = 1
    /\ status = [m \in Ids |-> "none"]
    /\ created_at = [m \in Ids |-> 0]
    /\ author_id = [m \in Ids |-> NoUser]
    /\ content = [m \in Ids |-> NoContent]
    /\ last_read = [u \in Users |-> NoMessage]
    /\ access = Users
    /\ pc = [r \in Requests |-> "idle"]
    /\ who = [r \in Requests |-> NoUser]
    /\ msg = [r \in Requests |-> NoMessage]
    /\ text = [r \in Requests |-> NoContent]
    /\ page = [u \in Readers |-> "anchor"]
    /\ cursor = [u \in Readers |-> NoMessage]
    /\ listed = [u \in Readers |-> <<>>]
    /\ base = [u \in Readers |-> {}]
    /\ seen = [r \in Requests |-> {}]
    /\ caught = [u \in Users |-> {}]
    /\ subs = [u \in Followers |-> "none"]
    /\ shown = [u \in Followers |-> [m \in Ids |-> NoContent]]
    /\ told = [m \in Ids |-> 0]
    /\ raced = {}
    /\ ops = 0
    /\ drops = 0

\* (created_at, id) of m above that of n.
Newer(m, n) ==
    \/ created_at[m] > created_at[n]
    \/ created_at[m] = created_at[n] /\ m > n

\* Rows with deleted_at IS NULL that a statement sees.
Live == {m \in Ids : status[m] = "live"}

-----------------------------------------------------------------------------
(***************************************************************************)
(* A writing request: its first query, later queries, the way out.         *)
(***************************************************************************)

Begin(r, u, label, m, c) ==
    /\ pc[r] = "idle"
    /\ pc' = [pc EXCEPT ![r] = label]
    /\ who' = [who EXCEPT ![r] = u]
    /\ msg' = [msg EXCEPT ![r] = m]
    /\ text' = [text EXCEPT ![r] = c]

Goto(r, label) ==
    /\ pc' = [pc EXCEPT ![r] = label]
    /\ UNCHANGED <<who, msg, text>>

Return(r) ==
    /\ pc' = [pc EXCEPT ![r] = "idle"]
    /\ who' = [who EXCEPT ![r] = NoUser]
    /\ msg' = [msg EXCEPT ![r] = NoMessage]
    /\ text' = [text EXCEPT ![r] = NoContent]

\* create_message: the permission check.
CreateMessage(r, u, c) ==
    /\ u \in access
    /\ Begin(r, u, "create", NoMessage, c)
    /\ UNCHANGED <<clock, rowVars, readVars, access, walkVars, seen, eventVars, ops, drops>>

\* The INSERT takes its time and id; the row is not visible yet.
Insert(r, m) ==
    /\ pc[r] = "create"
    /\ status[m] = "none" /\ author_id[m] = NoUser
    /\ status' = [status EXCEPT ![m] = "inserting"]
    /\ created_at' = [created_at EXCEPT ![m] = clock]
    /\ author_id' = [author_id EXCEPT ![m] = who[r]]
    /\ content' = [content EXCEPT ![m] = text[r]]
    /\ pc' = [pc EXCEPT ![r] = "inserting"]
    /\ msg' = [msg EXCEPT ![r] = m]
    /\ UNCHANGED <<clock, readVars, access, who, text, walkVars, seen, eventVars, ops, drops>>

\* The INSERT commits.
Inserted(r) ==
    /\ pc[r] = "inserting"
    /\ status' = [status EXCEPT ![msg[r]] = "live"]
    /\ Goto(r, "created")
    /\ UNCHANGED <<clock, created_at, author_id, content, readVars, access, walkVars, seen, eventVars, ops, drops>>

\* Request q writes message m or its event.
Writes(q, m) == msg[q] = m /\ pc[q] \notin {"idle", "read", "upsert", "catchup"}

\* edit_message, delete_message: find_message_by_id; a deleted message is
\* not found.
FindMessage(r, u, m, op, c) ==
    /\ (op = "edit") = (c # NoContent)
    /\ m \in Live
    /\ Begin(r, u, op, m, c)
    /\ raced' = IF u = author_id[m] /\ \E q \in Requests : Writes(q, m) /\ who[q] = u
                THEN raced \cup {m} ELSE raced
    /\ ops < MaxOps
    /\ ops' = ops + 1
    /\ UNCHANGED <<clock, rowVars, readVars, access, walkVars, seen, subs, shown, told, drops>>

\* Mutant: the author check is missing.
MutMayChange(r) == who[r] \in access

\* SEND_MESSAGES, and the author of the message found.
MayChange(r) == who[r] \in access /\ who[r] = author_id[msg[r]]

CheckAuthor(r) ==
    /\ pc[r] \in {"edit", "delete"}
    /\ \/ MayChange(r) /\ Goto(r, IF pc[r] = "edit" THEN "update" ELSE "erase")
       \/ ~MayChange(r) /\ Return(r)
    /\ UNCHANGED <<clock, rowVars, readVars, access, walkVars, seen, eventVars, ops, drops>>

\* update_message_content ... WHERE deleted_at IS NULL, or not found.
UpdateMessageContent(r) ==
    /\ pc[r] = "update"
    /\ \/ /\ status[msg[r]] = "live"
          /\ content' = [content EXCEPT ![msg[r]] = text[r]]
          /\ Goto(r, "updated")
       \/ /\ status[msg[r]] # "live"
          /\ Return(r)
          /\ UNCHANGED content
    /\ UNCHANGED <<clock, status, created_at, author_id, readVars, access, walkVars, seen, eventVars, ops, drops>>

\* Mutant: the delete does not ask for deleted_at IS NULL.
MutSoftDeleteMessage(r) ==
    /\ pc[r] = "erase"
    /\ status' = [status EXCEPT ![msg[r]] = "deleted"]
    /\ Goto(r, "erased")
    /\ UNCHANGED <<clock, created_at, author_id, content, readVars, access, walkVars, seen, eventVars, ops, drops>>

\* soft_delete_message ... WHERE deleted_at IS NULL, or not found.
SoftDeleteMessage(r) ==
    /\ pc[r] = "erase"
    /\ \/ /\ status[msg[r]] = "live"
          /\ status' = [status EXCEPT ![msg[r]] = "deleted"]
          /\ Goto(r, "erased")
       \/ /\ status[msg[r]] # "live"
          /\ Return(r)
          /\ UNCHANGED status
    /\ UNCHANGED <<clock, created_at, author_id, content, readVars, access, walkVars, seen, eventVars, ops, drops>>

\* The clients in the hub's index of the channel apply the event.
Apply(m, what) ==
    shown' = [u \in Followers |->
                 IF subs[u] = "acked" THEN [shown[u] EXCEPT ![m] = what] ELSE shown[u]]

\* MESSAGE_CREATE and MESSAGE_UPDATE carry the row RETURNING gave the request.
PublishMessage(r) ==
    /\ pc[r] \in {"created", "updated"}
    /\ Apply(msg[r], text[r])
    /\ Return(r)
    /\ UNCHANGED <<clock, rowVars, readVars, access, walkVars, seen, subs, told, raced, ops, drops>>

PublishDelete(r) ==
    /\ pc[r] = "erased"
    /\ Apply(msg[r], "gone")
    /\ told' = [told EXCEPT ![msg[r]] = @ + 1]
    /\ Return(r)
    /\ UNCHANGED <<clock, rowVars, readVars, access, walkVars, seen, subs, raced, ops, drops>>

-----------------------------------------------------------------------------
(***************************************************************************)
(* Read markers.                                                           *)
(***************************************************************************)

\* mark_channel_read of message m, or of the latest one (NoMessage).
MarkChannelRead(r, u, m) ==
    /\ u \in access
    /\ Begin(r, u, IF m = NoMessage THEN "latest" ELSE "read", m, NoContent)
    /\ ops < MaxOps
    /\ ops' = ops + 1
    /\ UNCHANGED <<clock, rowVars, readVars, access, walkVars, seen, eventVars, drops>>

\* ORDER BY created_at DESC, id DESC LIMIT 1.
Latest == {m \in Live : \A n \in Live : ~Newer(n, m)}

\* resolve_channel_last_read_message_id.  fetch_one finds no row in an empty
\* channel: the request fails.
ResolveLatest(r) ==
    /\ pc[r] = "latest"
    /\ \/ /\ \E m \in Latest : msg' = [msg EXCEPT ![r] = m]
          /\ pc' = [pc EXCEPT ![r] = "catchup"]
          /\ seen' = [seen EXCEPT ![r] = Live]
          /\ UNCHANGED <<who, text>>
       \/ /\ Latest = {}
          /\ Return(r)
          /\ UNCHANGED seen
    /\ UNCHANGED <<clock, rowVars, readVars, access, walkVars, eventVars, ops, drops>>

ResolveRequested(r) ==
    /\ pc[r] = "read"
    /\ \/ msg[r] \in Live /\ Goto(r, "upsert")
       \/ msg[r] \notin Live /\ Return(r)
    /\ UNCHANGED <<clock, rowVars, readVars, access, walkVars, seen, eventVars, ops, drops>>

\* INSERT INTO channel_reads ... ON CONFLICT DO UPDATE.
UpsertRead(r) ==
    /\ pc[r] \in {"upsert", "catchup"}
    /\ last_read' = [last_read EXCEPT ![who[r]] = msg[r]]
    /\ caught' = [caught EXCEPT ![who[r]] = seen[r]]
    /\ seen' = [seen EXCEPT ![r] = {}]
    /\ Return(r)
    /\ UNCHANGED <<clock, rowVars, access, walkVars, eventVars, ops, drops>>

\* Mutant: the marked message is joined only while it is not deleted.
MutUnread(u) ==
    {m \in Live : \/ last_read[u] = NoMessage
                  \/ last_read[u] \notin Live
                  \/ Newer(m, last_read[u])}

\* The rows has_unread asks for; soft-deleted markers keep their place.
Unread(u) ==
    {m \in Live : last_read[u] = NoMessage \/ Newer(m, last_read[u])}

-----------------------------------------------------------------------------
(***************************************************************************)
(* Subscriptions and pages.  A follower subscribes, waits for the ack and  *)
(* then loads the pages; events it has already received win over them.     *)
(***************************************************************************)

\* SUBSCRIBE_CHANNEL: the permission check ...
CheckSubscribe(u) ==
    /\ subs[u] = "none"
    /\ u \in access
    /\ subs' = [subs EXCEPT ![u] = "allowed"]
    /\ UNCHANGED <<clock, rowVars, readVars, access, localVars, walkVars, seen, shown, told, raced, ops, drops>>

\* ... then the hub's index and the ack, whoever lost access meanwhile.
Subscribe(u) ==
    /\ subs[u] = "allowed"
    /\ subs' = [subs EXCEPT ![u] = "acked"]
    /\ UNCHANGED <<clock, rowVars, readVars, access, localVars, walkVars, seen, shown, told, raced, ops, drops>>

\* find_anchor: the row of the cursor, deleted or not.
Anchor(m) == {n \in Ids : n = m /\ status[n] \in {"live", "deleted"}}

\* normalize_limit; a limit that is not positive is refused.
NormalizeLimit(l) == IF l > MAX_PAGE_LIMIT THEN MAX_PAGE_LIMIT ELSE l

\* The permission check, then the query for the cursor.
FindAnchor(u) ==
    /\ page[u] = "anchor"
    /\ u \in access
    /\ u \in Followers => subs[u] = "acked"
    /\ cursor[u] = NoMessage \/ Anchor(cursor[u]) # {}
    /\ page' = [page EXCEPT ![u] = "select"]
    /\ UNCHANGED <<clock, rowVars, readVars, access, localVars, cursor, listed, base, seen, eventVars, ops, drops>>

\* The rows list_messages selects, without their LIMIT ...
Selected(u) == {m \in Live : cursor[u] = NoMessage \/ Newer(cursor[u], m)}

\* ... and in their order, newest first (there is one).
Ordered(S) ==
    {s \in TupleOf(S, Cardinality(S)) :
        ToSet(s) = S /\ \A i, j \in DOMAIN s : i < j => Newer(s[i], s[j])}

\* Mutant: the cursor is the row fetched beyond the page.
MutCursor(rows, l) == rows[l + 1]

\* next_cursor: the last message of a page that has more after it.
Cursor(rows, l) == rows[l]

\* A follower adds the rows of its page it has no event for.
Merge(u, ids) ==
    shown' = [v \in Followers |->
                 IF v # u THEN shown[v]
                 ELSE [m \in Ids |-> IF shown[u][m] = NoContent /\ m \in ids
                                     THEN content[m] ELSE shown[u][m]]]

\* LIMIT limit + 1 tells whether there are more; the page is cut to limit.
ListMessages(u, arg) ==
    \E all \in Ordered(Selected(u)) :
        LET limit == NormalizeLimit(arg)
            rows  == SubSeq(all, 1, IF Len(all) > limit THEN limit + 1 ELSE Len(all))
            more  == Len(rows) > limit
            body  == IF more THEN SubSeq(rows, 1, limit) ELSE rows
        IN  /\ page[u] = "select"
            /\ arg > 0
            /\ listed' = [listed EXCEPT ![u] = @ \o body]
            /\ Merge(u, ToSet(body))
            /\ cursor' = [cursor EXCEPT ![u] = IF more THEN Cursor(rows, limit) ELSE NoMessage]
            /\ page' = [page EXCEPT ![u] = IF more THEN "anchor" ELSE "done"]
            /\ base' = [base EXCEPT ![u] = IF cursor[u] = NoMessage THEN Live ELSE @]
            /\ UNCHANGED <<clock, rowVars, readVars, access, localVars, seen, subs, told, raced, ops, drops>>

-----------------------------------------------------------------------------
(***************************************************************************)
(* The environment.                                                        *)
(***************************************************************************)

Tick ==
    /\ clock < MaxTime
    /\ clock' = clock + 1
    /\ UNCHANGED <<rowVars, readVars, access, localVars, walkVars, seen, eventVars, ops, drops>>

\* A user leaves the guild.
LoseAccess(u) ==
    /\ u \in access
    /\ access' = access \ {u}
    /\ UNCHANGED <<clock, rowVars, readVars, localVars, walkVars, seen, eventVars, ops, drops>>

\* ... and comes back.
RegainAccess(u) ==
    /\ u \notin access
    /\ access' = access \cup {u}
    /\ UNCHANGED <<clock, rowVars, readVars, localVars, walkVars, seen, eventVars, ops, drops>>

\* The client goes away: the handler stops where it is.  An INSERT under way
\* commits or not.
Drop(r) ==
    /\ pc[r] # "idle"
    /\ drops < MaxDrops
    /\ drops' = drops + 1
    /\ seen' = [seen EXCEPT ![r] = {}]
    /\ \/ UNCHANGED status /\ pc[r] # "inserting"
       \/ /\ pc[r] = "inserting"
          /\ \E s \in {"live", "none"} : status' = [status EXCEPT ![msg[r]] = s]
    /\ raced' = {m \in Ids : m \in raced \/ Writes(r, m)}
    /\ Return(r)
    /\ UNCHANGED <<clock, created_at, author_id, content, readVars, access, walkVars, subs, shown, told, ops>>

Next ==
    \/ \E r \in Requests, u \in Users, c \in Contents : CreateMessage(r, u, c)
    \/ \E r \in Requests, m \in Ids : Insert(r, m)
    \/ \E r \in Requests : Inserted(r)
    \/ \E r \in Requests, u \in Users, m \in Ids, op \in {"edit", "delete"}, c \in Contents \cup {NoContent} :
           FindMessage(r, u, m, op, c)
    \/ \E r \in Requests : CheckAuthor(r)
    \/ \E r \in Requests : UpdateMessageContent(r)
    \/ \E r \in Requests : SoftDeleteMessage(r)
    \/ \E r \in Requests : PublishMessage(r)
    \/ \E r \in Requests : PublishDelete(r)
    \/ \E r \in Requests, u \in Users, m \in Ids \cup {NoMessage} : MarkChannelRead(r, u, m)
    \/ \E r \in Requests : ResolveLatest(r)
    \/ \E r \in Requests : ResolveRequested(r)
    \/ \E r \in Requests : UpsertRead(r)
    \/ \E u \in Followers : CheckSubscribe(u)
    \/ \E u \in Followers : Subscribe(u)
    \/ \E u \in Readers : FindAnchor(u)
    \/ \E u \in Readers, l \in LimitArgs : ListMessages(u, l)
    \/ Tick
    \/ \E u \in Users : LoseAccess(u)
    \/ \E u \in Users : RegainAccess(u)
    \/ \E r \in Requests : Drop(r)

Spec == Init /\ [][Next]_vars

-----------------------------------------------------------------------------
(***************************************************************************)
(* Properties.                                                             *)
(***************************************************************************)

(***************************************************************************)
(* "Lists non-deleted messages with stable cursor pagination": a walk      *)
(* along next_cursor goes strictly back in (created_at, id), so it never   *)
(* repeats a message, and when it ends it has listed every message that    *)
(* was live from its first page to its end, whatever was created or        *)
(* deleted meanwhile.  A cursor handed out stays one: the message it names *)
(* may be deleted between two pages.                                       *)
(***************************************************************************)
StableWalk ==
    \A u \in Readers :
        /\ cursor[u] # NoMessage => Anchor(cursor[u]) # {}
        /\ \A i, j \in DOMAIN listed[u] : i < j => Newer(listed[u][i], listed[u][j])
        /\ page[u] = "done" => base[u] \cap Live \subseteq ToSet(listed[u])

(***************************************************************************)
(* Deletes that race publish MESSAGE_DELETE once between them, and only    *)
(* for a message that is no longer stored as live.                         *)
(***************************************************************************)
DeleteToldOnce ==
    \A m \in Ids : told[m] <= 1 /\ (told[m] = 1 => status[m] \notin {"inserting", "live"})

(***************************************************************************)
(* A client that subscribes, waits for the ack, loads the pages and then   *)
(* applies the events as they come shows what is stored once no request is *)
(* at work on the message, whenever it came: a row is committed before its *)
(* event, so what the pages miss the events bring.  Left out are messages  *)
(* whose author had two requests for it at a time or did not stay to the   *)
(* end; only the author check keeps other writers away.                    *)
(***************************************************************************)
Converged ==
    \A u \in Followers, m \in Ids \ raced :
        page[u] = "done" /\ (\A r \in Requests : ~Writes(r, m)) =>
            shown[u][m] \in CASE status[m] = "live" -> {content[m]}
                              [] status[m] = "deleted" -> {"gone", NoContent}
                              [] OTHER -> {NoContent}

(***************************************************************************)
(* What was live when a user caught up with the channel (a read request    *)
(* without a message) is not unread again before the user's next read      *)
(* request, whichever messages are deleted, the marked one included.       *)
(***************************************************************************)
CaughtUp == \A u \in Users : Unread(u) \cap caught[u] = {}
=============================================================================
