----------------------------- MODULE GatewayHub -----------------------------
(***************************************************************************)
(* The in-memory websocket hub of one backend instance and the session     *)
(* tasks that use it (backend/src/interfaces/ws/gateway.rs).               *)
(*                                                                         *)
(* Every hub operation takes the one tokio RwLock of the hub.  Operations  *)
(* that change the maps hold it for writing and are one step each.  A      *)
(* broadcast holds it for reading while it sends to one connection after   *)
(* the other, so several broadcasts may interleave with each other but not *)
(* with a writer.  The lock is first come, first served: a writer that     *)
(* finds it held is queued, and no broadcast begins while one is.  Between *)
(* two hub operations a session task awaits the database or Redis and      *)
(* anything may happen.                                                    *)
(*                                                                         *)
(* A map entry that the code removes when its set becomes empty is the     *)
(* empty set here.  Connection ids are fresh UUIDs: UserOf gives the user  *)
(* of the session that will own each id.  Of what a session is sent, the   *)
(* published events and the subscribe acknowledgement are kept; other      *)
(* replies (READY, HEARTBEAT_ACK, ERROR) are only the step that sends them. *)
(***************************************************************************)
EXTENDS Naturals

CONSTANTS
    Conns,      \* connection ids
    Users,      \* user ids
    UserOf,     \* the authenticated user of each connection
    Channels,   \* channel ids
    Threads,    \* thread ids
    Events,     \* realtime events under way; a delivered one is used again
    Nothing     \* "no topic, no event"

Topics == Channels \cup Threads

Global == "global"

Shutdown == "shutdown"   \* the task that runs AppState::shutdown

ASSUME HubAssumption ==
    /\ UserOf \in [Conns -> Users]
    /\ Channels \cap Threads = {}
    /\ Users \cap Topics = {}
    /\ Global \notin Users \cup Topics
    /\ Nothing \notin Users \cup Topics \cup Events \cup {Global}
    /\ Events \cap Topics = {}

VARIABLES
    \* HubState
    connections,          \* registered connections (keys of the map)
    user_connections,     \* user -> its connections
    channel_subscribers,  \* channel -> connections
    thread_subscribers,   \* thread -> connections
    subscribed_channels,  \* ConnectionState.subscribed_channels
    subscribed_threads,   \* ConnectionState.subscribed_threads
    outbox,               \* connection -> event -> times put on its sender
    \* broadcasts in flight, each holding the lock for reading
    bstate,               \* event -> "new", "sending" or "done"
    scope,                \* event -> the topic, user or Global it is for
    todo,                 \* event -> connections still to be sent to
    waiting,              \* writers queued at the lock: sessions, Shutdown
    \* session tasks
    pc,                   \* where handle_socket / handle_command is
    work,                 \* topic or event of the command in progress
    phase,                \* shutdown: "serving", "cancelled", "drained", "exited"
    \* the database, as the permission checks see it
    allowed,              \* user -> topics it may view
    \* history
    granted,              \* connection -> topics a check allowed it
    acked,                \* connection -> topics whose subscription was acked
    expected              \* event -> connections with an acked subscription

hubVars     == <<connections, user_connections, channel_subscribers,
                 thread_subscribers, subscribed_channels, subscribed_threads>>
loopVars    == <<bstate, scope, todo, expected>>
bcastVars   == <<loopVars, waiting>>
sessionVars == <<pc, work>>
vars == <<hubVars, outbox, bcastVars, sessionVars, phase, allowed, granted,
          acked>>

PCs == {"none", "greeting", "reading", "reply", "view_check",
        "subscribe_channel", "access_check", "subscribe_thread", "ack",
        "typing", "typing_allowed", "publishing", "closing", "offline",
        "done", "dropped"}

(***************************************************************************)
(* Type invariant: the shape of the hub's maps and of the session state.   *)
(***************************************************************************)
TypeOK ==
    /\ connections \subseteq Conns
    /\ user_connections \in [Users -> SUBSET Conns]
    /\ channel_subscribers \in [Channels -> SUBSET Conns]
    /\ thread_subscribers \in [Threads -> SUBSET Conns]
    /\ subscribed_channels \in [Conns -> SUBSET Channels]
    /\ subscribed_threads \in [Conns -> SUBSET Threads]
    /\ outbox \in [Conns -> [Events -> Nat]]
    /\ bstate \in [Events -> {"new", "sending", "done"}]
    /\ scope \in [Events -> Topics \cup Users \cup {Global, Nothing}]
    /\ todo \in [Events -> SUBSET Conns]
    /\ waiting \subseteq Conns \cup {Shutdown}
    /\ pc \in [Conns -> PCs]
    /\ work \in [Conns -> Topics \cup Events \cup {Nothing}]
    /\ phase \in {"serving", "cancelled", "drained", "exited"}
    /\ allowed \in [Users -> SUBSET Topics]
    /\ granted \in [Conns -> SUBSET Topics]
    /\ acked \in [Conns -> SUBSET Topics]
    /\ expected \in [Events -> SUBSET Conns]

-----------------------------------------------------------------------------
(* The lock, and sending to connections.                                   *)

Running == phase # "exited"

\* self.inner.write(): no broadcast is iterating over the maps.
WriteLockFree == \A e \in Events : bstate[e] # "sending"

\* The session is at a step that takes the lock for writing.  (Register,
\* Heartbeat and the unsubscribe commands do so too; that they may queue is
\* left out, since nothing happens to them before they have the lock.)
WantsLock(c) == pc[c] \in {"closing", "subscribe_channel", "subscribe_thread"}

\* It finds the lock held for reading.
Queue(c) ==
    /\ Running
    /\ WantsLock(c)
    /\ c \notin waiting
    /\ ~WriteLockFree
    /\ waiting' = waiting \cup {c}
    /\ UNCHANGED <<hubVars, outbox, loopVars, sessionVars, phase, allowed,
                   granted, acked>>

\* Its turn has come.
Served(w) == waiting' = waiting \ {w}

\* send_to_connection / send_event: dropped when the connection is unknown.
SendTo(c, m) ==
    outbox' = [outbox EXCEPT ![c][m] = IF c \in connections THEN @ + 1 ELSE @]

Goto(c, label) == pc' = [pc EXCEPT ![c] = label]

GotoWith(c, label, w) ==
    /\ pc' = [pc EXCEPT ![c] = label]
    /\ work' = [work EXCEPT ![c] = w]

Has(c, e) == outbox[c][e] > 0

AtMostOnce(c, e) == outbox[c][e] <= 1

-----------------------------------------------------------------------------
(* Operations of the hub that change its maps.                             *)

\* GatewayHub::register, then the presence calls of a first connection.
Register(c) ==
    /\ Running
    /\ pc[c] = "none"
    /\ WriteLockFree
    /\ connections' = connections \cup {c}
    /\ user_connections' = [user_connections EXCEPT ![UserOf[c]] = @ \cup {c}]
    /\ subscribed_channels' = [subscribed_channels EXCEPT ![c] = {}]
    /\ subscribed_threads' = [subscribed_threads EXCEPT ![c] = {}]
    /\ Goto(c, "greeting")
    /\ UNCHANGED <<channel_subscribers, thread_subscribers, outbox, bcastVars,
                   work, phase, allowed, granted, acked>>

\* READY is sent and the writer task started.
Greet(c) ==
    /\ Running
    /\ pc[c] = "greeting"
    /\ Goto(c, "reading")
    /\ UNCHANGED <<hubVars, outbox, bcastVars, work, phase, allowed, granted,
                   acked>>

\* Mutant: the whole entry is removed, without the is_empty test.
MutWithoutChannelSubscriptions(c) ==
    [ch \in Channels |-> IF ch \in subscribed_channels[c]
                         THEN {} ELSE channel_subscribers[ch]]

\* The loop over conn.subscribed_channels in unregister.
WithoutChannelSubscriptions(c) ==
    [ch \in Channels |-> IF ch \in subscribed_channels[c]
                         THEN channel_subscribers[ch] \ {c}
                         ELSE channel_subscribers[ch]]

\* The loop over conn.subscribed_threads in unregister.
WithoutThreadSubscriptions(c) ==
    [t \in Threads |-> IF t \in subscribed_threads[c]
                       THEN thread_subscribers[t] \ {c}
                       ELSE thread_subscribers[t]]

\* Mutant: only the last connection of a user is cleaned up.
MutUnregister(c) ==
    /\ Running
    /\ pc[c] = "closing"
    /\ WriteLockFree
    /\ Served(c)
    /\ c \in connections
    /\ LET rest == user_connections[UserOf[c]] \ {c} IN
       IF rest = {}
       THEN /\ connections' = connections \ {c}
            /\ user_connections' = [user_connections EXCEPT ![UserOf[c]] = rest]
            /\ Goto(c, "offline")
       ELSE /\ Goto(c, "done")
            /\ UNCHANGED <<connections, user_connections>>
    /\ UNCHANGED <<channel_subscribers, thread_subscribers,
                   subscribed_channels, subscribed_threads, outbox, loopVars,
                   work, phase, allowed, granted, acked>>

\* GatewayHub::unregister of a connection in the map.  "offline" is the wait
\* for the presence calls of the user's last connection.
Unregister(c) ==
    /\ Running
    /\ pc[c] = "closing"
    /\ WriteLockFree
    /\ Served(c)
    /\ c \in connections
    /\ connections' = connections \ {c}
    /\ channel_subscribers' = WithoutChannelSubscriptions(c)
    /\ thread_subscribers' = WithoutThreadSubscriptions(c)
    /\ LET rest == user_connections[UserOf[c]] \ {c} IN
       /\ user_connections' = [user_connections EXCEPT ![UserOf[c]] = rest]
       /\ Goto(c, IF rest = {} THEN "offline" ELSE "done")
    /\ UNCHANGED <<subscribed_channels, subscribed_threads, outbox, loopVars,
                   work, phase, allowed, granted, acked>>

\* After shutdown_all the map entry is gone: unregister returns None.
UnregisterUnknown(c) ==
    /\ Running
    /\ pc[c] = "closing"
    /\ WriteLockFree
    /\ Served(c)
    /\ c \notin connections
    /\ Goto(c, "done")
    /\ UNCHANGED <<hubVars, outbox, loopVars, work, phase, allowed, granted,
                   acked>>

\* The presence calls of the last connection return; writer.abort().
Finish(c) ==
    /\ Running
    /\ pc[c] = "offline"
    /\ Goto(c, "done")
    /\ UNCHANGED <<hubVars, outbox, bcastVars, work, phase, allowed, granted,
                   acked>>

\* Mutant: the connection's own list is not updated.
MutSubscribeChannel(c) ==
    /\ Running
    /\ pc[c] = "subscribe_channel"
    /\ WriteLockFree
    /\ Served(c)
    /\ channel_subscribers' = [channel_subscribers EXCEPT ![work[c]] = @ \cup {c}]
    /\ Goto(c, "ack")
    /\ UNCHANGED <<connections, user_connections, thread_subscribers,
                   subscribed_channels, subscribed_threads, outbox, loopVars,
                   work, phase, allowed, granted, acked>>

\* GatewayHub::subscribe_channel: the index is updated even when the
\* connection is no longer in the map.
SubscribeChannel(c) ==
    /\ Running
    /\ pc[c] = "subscribe_channel"
    /\ WriteLockFree
    /\ Served(c)
    /\ subscribed_channels' =
           [subscribed_channels EXCEPT ![c] =
               IF c \in connections THEN @ \cup {work[c]} ELSE @]
    /\ channel_subscribers' = [channel_subscribers EXCEPT ![work[c]] = @ \cup {c}]
    /\ Goto(c, "ack")
    /\ UNCHANGED <<connections, user_connections, thread_subscribers,
                   subscribed_threads, outbox, loopVars, work, phase, allowed,
                   granted, acked>>

\* Mutant: the thread lands in the list of channels.
MutSubscribeThread(c) ==
    /\ Running
    /\ pc[c] = "subscribe_thread"
    /\ WriteLockFree
    /\ Served(c)
    /\ subscribed_channels' = [subscribed_channels EXCEPT ![c] = @ \cup {work[c]}]
    /\ thread_subscribers' = [thread_subscribers EXCEPT ![work[c]] = @ \cup {c}]
    /\ Goto(c, "ack")
    /\ UNCHANGED <<connections, user_connections, channel_subscribers,
                   subscribed_threads, outbox, loopVars, work, phase,
                   allowed, granted, acked>>

\* GatewayHub::subscribe_thread.
SubscribeThread(c) ==
    /\ Running
    /\ pc[c] = "subscribe_thread"
    /\ WriteLockFree
    /\ Served(c)
    /\ subscribed_threads' =
           [subscribed_threads EXCEPT ![c] =
               IF c \in connections THEN @ \cup {work[c]} ELSE @]
    /\ thread_subscribers' = [thread_subscribers EXCEPT ![work[c]] = @ \cup {c}]
    /\ Goto(c, "ack")
    /\ UNCHANGED <<connections, user_connections, channel_subscribers,
                   subscribed_channels, outbox, loopVars, work, phase,
                   allowed, granted, acked>>

\* A session takes the next command only from its read loop.
Reads(c) ==
    /\ Running
    /\ pc[c] = "reading"

\* ClientCommand::UnsubscribeChannel and GatewayHub::unsubscribe_channel.
UnsubscribeChannel(c, ch) ==
    /\ Reads(c)
    /\ WriteLockFree
    /\ subscribed_channels' =
           [subscribed_channels EXCEPT ![c] =
               IF c \in connections THEN @ \ {ch} ELSE @]
    /\ channel_subscribers' = [channel_subscribers EXCEPT ![ch] = @ \ {c}]
    /\ acked' = [acked EXCEPT ![c] = @ \ {ch}]
    /\ UNCHANGED <<connections, user_connections, thread_subscribers,
                   subscribed_threads, outbox, bcastVars, sessionVars, phase,
                   allowed, granted>>

\* ClientCommand::UnsubscribeThread and GatewayHub::unsubscribe_thread.
UnsubscribeThread(c, t) ==
    /\ Reads(c)
    /\ WriteLockFree
    /\ subscribed_threads' =
           [subscribed_threads EXCEPT ![c] =
               IF c \in connections THEN @ \ {t} ELSE @]
    /\ thread_subscribers' = [thread_subscribers EXCEPT ![t] = @ \ {c}]
    /\ acked' = [acked EXCEPT ![c] = @ \ {t}]
    /\ UNCHANGED <<connections, user_connections, channel_subscribers,
                   subscribed_channels, outbox, bcastVars, sessionVars, phase,
                   allowed, granted>>

-----------------------------------------------------------------------------
(* Broadcasts: begin (take the read lock, look up the receivers), send to  *)
(* one connection, end.  The lookup is the only difference between them.   *)

\* Mutant: a lock that prefers readers, so no broadcast waits for a writer.
MutBegin(e, key, receivers) ==
    /\ Running
    /\ bstate[e] = "new"
    /\ bstate' = [bstate EXCEPT ![e] = "sending"]
    /\ scope' = [scope EXCEPT ![e] = key]
    /\ todo' = [todo EXCEPT ![e] = receivers]
    /\ expected' = [expected EXCEPT ![e] =
                        {c \in connections : key \in acked[c]}]
    /\ UNCHANGED waiting

\* self.inner.read(): behind every writer that is queued.
Begin(e, key, receivers) ==
    /\ Running
    /\ waiting = {}
    /\ bstate[e] = "new"
    /\ bstate' = [bstate EXCEPT ![e] = "sending"]
    /\ scope' = [scope EXCEPT ![e] = key]
    /\ todo' = [todo EXCEPT ![e] = receivers]
    /\ expected' = [expected EXCEPT ![e] =
                        {c \in connections : key \in acked[c]}]
    /\ UNCHANGED waiting

\* GatewayHub::broadcast_to_channel.
BroadcastToChannel(e, ch) ==
    /\ Begin(e, ch, channel_subscribers[ch])
    /\ UNCHANGED <<hubVars, outbox, sessionVars, phase, allowed, granted, acked>>

\* GatewayHub::broadcast_to_thread.
BroadcastToThread(e, t) ==
    /\ Begin(e, t, thread_subscribers[t])
    /\ UNCHANGED <<hubVars, outbox, sessionVars, phase, allowed, granted, acked>>

\* GatewayHub::broadcast_global.
BroadcastGlobal(e) ==
    /\ Begin(e, Global, connections)
    /\ UNCHANGED <<hubVars, outbox, sessionVars, phase, allowed, granted, acked>>

\* GatewayHub::broadcast_to_user.
BroadcastToUser(e, u) ==
    /\ Begin(e, u, user_connections[u])
    /\ UNCHANGED <<hubVars, outbox, sessionVars, phase, allowed, granted, acked>>

\* Mutant: a bounded queue, and a session that stopped reading blocks the send.
MutBroadcastSend(e, c) ==
    /\ pc[c] # "closing"
    /\ Running
    /\ bstate[e] = "sending"
    /\ c \in todo[e]
    /\ SendTo(c, e)
    /\ todo' = [todo EXCEPT ![e] = @ \ {c}]
    /\ UNCHANGED <<hubVars, bstate, scope, expected, waiting, sessionVars,
                   phase, allowed, granted, acked>>

\* One iteration of the loop of a broadcast.
BroadcastSend(e, c) ==
    /\ Running
    /\ bstate[e] = "sending"
    /\ c \in todo[e]
    /\ SendTo(c, e)
    /\ todo' = [todo EXCEPT ![e] = @ \ {c}]
    /\ UNCHANGED <<hubVars, bstate, scope, expected, waiting, sessionVars,
                   phase, allowed, granted, acked>>

\* The loop is over: the read lock is released.
BroadcastEnd(e) ==
    /\ Running
    /\ bstate[e] = "sending"
    /\ todo[e] = {}
    /\ bstate' = [bstate EXCEPT ![e] = "done"]
    /\ UNCHANGED <<hubVars, outbox, scope, todo, expected, waiting, sessionVars,
                   phase, allowed, granted, acked>>

\* The name of a delivered event is free for a later one: broadcasts go on
\* for ever.  What is remembered of the old event is forgotten.
NextEvent(e) ==
    /\ Running
    /\ bstate[e] = "done"
    /\ \A c \in Conns : pc[c] = "publishing" => work[c] # e
    /\ bstate' = [bstate EXCEPT ![e] = "new"]
    /\ scope' = [scope EXCEPT ![e] = Nothing]
    /\ expected' = [expected EXCEPT ![e] = {}]
    /\ outbox' = [c \in Conns |-> [outbox[c] EXCEPT ![e] = 0]]
    /\ UNCHANGED <<hubVars, todo, waiting, sessionVars, phase, allowed, granted,
                   acked>>

-----------------------------------------------------------------------------
(* Commands of a session task.                                             *)

\* ClientCommand::Identify, and a frame that does not parse: only a reply.
AnswerOnly(c) ==
    /\ Reads(c)
    /\ Goto(c, "reply")
    /\ UNCHANGED <<hubVars, outbox, bcastVars, work, phase, allowed, granted,
                   acked>>

\* ClientCommand::Heartbeat: touch_heartbeat takes the write lock (the time
\* it stores is never read), then the presence key is refreshed.
Heartbeat(c) ==
    /\ Reads(c)
    /\ WriteLockFree
    /\ Goto(c, "reply")
    /\ UNCHANGED <<hubVars, outbox, bcastVars, work, phase, allowed, granted,
                   acked>>

\* READY, HEARTBEAT_ACK, INVALID_COMMAND, FORBIDDEN or SUBSCRIBE_FAILED.
Reply(c) ==
    /\ Running
    /\ pc[c] = "reply"
    /\ GotoWith(c, "reading", Nothing)
    /\ UNCHANGED <<hubVars, outbox, bcastVars, phase, allowed, granted, acked>>

\* ClientCommand::SubscribeChannel starts with the permission lookup.
ReceiveSubscribeChannel(c, ch) ==
    /\ Reads(c)
    /\ GotoWith(c, "view_check", ch)
    /\ UNCHANGED <<hubVars, outbox, bcastVars, phase, allowed, granted, acked>>

\* Mutant: any answer that is not an error counts as permission.
MutViewGranted(c) ==
    /\ Running
    /\ pc[c] = "view_check"
    /\ Goto(c, "subscribe_channel")
    /\ UNCHANGED <<hubVars, outbox, bcastVars, work, phase, allowed, granted,
                   acked>>

\* channel_permissions answers: the VIEW_CHANNEL bit is set ...
ViewGranted(c) ==
    /\ Running
    /\ pc[c] = "view_check"
    /\ work[c] \in allowed[UserOf[c]]
    /\ granted' = [granted EXCEPT ![c] = @ \cup {work[c]}]
    /\ Goto(c, "subscribe_channel")
    /\ UNCHANGED <<hubVars, outbox, bcastVars, work, phase, allowed, acked>>

\* ... or it is not, or the lookup failed.
ViewRefused(c) ==
    /\ Running
    /\ pc[c] = "view_check"
    /\ Goto(c, "reply")
    /\ UNCHANGED <<hubVars, outbox, bcastVars, work, phase, allowed, granted,
                   acked>>

\* ClientCommand::SubscribeThread starts with the membership lookup.
ReceiveSubscribeThread(c, t) ==
    /\ Reads(c)
    /\ GotoWith(c, "access_check", t)
    /\ UNCHANGED <<hubVars, outbox, bcastVars, phase, allowed, granted, acked>>

\* can_access_thread answers: a member ...
AccessGranted(c) ==
    /\ Running
    /\ pc[c] = "access_check"
    /\ work[c] \in allowed[UserOf[c]]
    /\ granted' = [granted EXCEPT ![c] = @ \cup {work[c]}]
    /\ Goto(c, "subscribe_thread")
    /\ UNCHANGED <<hubVars, outbox, bcastVars, work, phase, allowed, acked>>

\* ... or not a member, or the lookup failed.
AccessRefused(c) ==
    /\ Running
    /\ pc[c] = "access_check"
    /\ Goto(c, "reply")
    /\ UNCHANGED <<hubVars, outbox, bcastVars, work, phase, allowed, granted,
                   acked>>

\* ChannelSubscribeAck / ThreadSubscribeAck, a lock acquisition of its own;
\* send_to_connection drops it when the connection is unknown.
Ack(c) ==
    /\ Running
    /\ pc[c] = "ack"
    /\ acked' = [acked EXCEPT ![c] = IF c \in connections
                                    THEN @ \cup {work[c]} ELSE @]
    /\ GotoWith(c, "reading", Nothing)
    /\ UNCHANGED <<hubVars, outbox, bcastVars, phase, allowed, granted>>

\* ClientCommand::TypingStart / ThreadTypingStart wait for the check and
\* the rate limit.
ReceiveTyping(c, t) ==
    /\ Reads(c)
    /\ GotoWith(c, "typing", t)
    /\ UNCHANGED <<hubVars, outbox, bcastVars, phase, allowed, granted, acked>>

\* Not permitted, over the limit, or the lookup failed: silently ignored.
TypingIgnored(c) ==
    /\ Running
    /\ pc[c] = "typing"
    /\ GotoWith(c, "reading", Nothing)
    /\ UNCHANGED <<hubVars, outbox, bcastVars, phase, allowed, granted, acked>>

\* Both answered: SEND_MESSAGES (not part of allowed), or membership in the
\* thread, and the rate limit.  None is looked at again.
TypingAllowed(c) ==
    /\ Running
    /\ pc[c] = "typing"
    /\ work[c] \in Threads => work[c] \in allowed[UserOf[c]]
    /\ Goto(c, "typing_allowed")
    /\ UNCHANGED <<hubVars, outbox, bcastVars, work, phase, allowed, granted,
                   acked>>

\* publish_channel_event: the local broadcast, which the session task itself
\* performs.
TypingPublish(c, e) ==
    /\ pc[c] = "typing_allowed"
    /\ work[c] \in Channels
    /\ Begin(e, work[c], channel_subscribers[work[c]])
    /\ GotoWith(c, "publishing", e)
    /\ UNCHANGED <<hubVars, outbox, phase, allowed, granted, acked>>

\* publish_thread_event.
ThreadTypingPublish(c, e) ==
    /\ pc[c] = "typing_allowed"
    /\ work[c] \in Threads
    /\ Begin(e, work[c], thread_subscribers[work[c]])
    /\ GotoWith(c, "publishing", e)
    /\ UNCHANGED <<hubVars, outbox, phase, allowed, granted, acked>>

\* The publication returns (the Redis half included).
TypingPublished(c) ==
    /\ Running
    /\ pc[c] = "publishing"
    /\ bstate[work[c]] = "done"
    /\ GotoWith(c, "reading", Nothing)
    /\ UNCHANGED <<hubVars, outbox, bcastVars, phase, allowed, granted, acked>>

\* Close frame, end of stream, socket error, 70 s without a frame, or an
\* oversized frame (whose error reply the closing session may never write).
StopReading(c) ==
    /\ Running
    /\ pc[c] = "reading"
    /\ Goto(c, "closing")
    /\ acked' = [acked EXCEPT ![c] = {}]
    /\ UNCHANGED <<hubVars, outbox, bcastVars, work, phase, allowed, granted>>

\* The shutdown branch of the select.
StopOnShutdown(c) ==
    /\ phase \in {"cancelled", "drained"}
    /\ StopReading(c)

-----------------------------------------------------------------------------
(* The database and the process.                                           *)

\* Membership changes made by HTTP requests: invisible to the hub.
ChangePermission(u, t) ==
    /\ Running
    /\ allowed' = [allowed EXCEPT ![u] = IF t \in @ THEN @ \ {t} ELSE @ \cup {t}]
    /\ UNCHANGED <<hubVars, outbox, bcastVars, sessionVars, phase, granted,
                   acked>>

\* AppState::shutdown cancels the token ...
Cancel ==
    /\ phase = "serving"
    /\ phase' = "cancelled"
    /\ UNCHANGED <<hubVars, outbox, bcastVars, sessionVars, allowed, granted,
                   acked>>

\* ... goes on to GatewayHub::shutdown_all, for which it may have to queue ...
QueueShutdown ==
    /\ phase = "cancelled"
    /\ Shutdown \notin waiting
    /\ ~WriteLockFree
    /\ waiting' = waiting \cup {Shutdown}
    /\ UNCHANGED <<hubVars, outbox, loopVars, sessionVars, phase, allowed,
                   granted, acked>>

\* ... and which clears the maps.
ShutdownAll ==
    /\ phase = "cancelled"
    /\ WriteLockFree
    /\ Served(Shutdown)
    /\ phase' = "drained"
    /\ connections' = {}
    /\ user_connections' = [u \in Users |-> {}]
    /\ channel_subscribers' = [ch \in Channels |-> {}]
    /\ thread_subscribers' = [t \in Threads |-> {}]
    /\ UNCHANGED <<subscribed_channels, subscribed_threads, outbox, loopVars,
                   sessionVars, allowed, granted, acked>>

\* main returns: the runtime drops the session tasks where they stand.
Exit ==
    /\ phase = "drained"
    /\ phase' = "exited"
    /\ pc' = [c \in Conns |-> IF pc[c] \in {"none", "done"}
                              THEN pc[c] ELSE "dropped"]
    /\ waiting' = {}
    /\ UNCHANGED <<hubVars, outbox, loopVars, work, allowed, granted, acked>>

Exited ==
    /\ phase = "exited"
    /\ UNCHANGED vars

-----------------------------------------------------------------------------
Init ==
    /\ connections = {}
    /\ user_connections = [u \in Users |-> {}]
    /\ channel_subscribers = [ch \in Channels |-> {}]
    /\ thread_subscribers = [t \in Threads |-> {}]
    /\ subscribed_channels = [c \in Conns |-> {}]
    /\ subscribed_threads = [c \in Conns |-> {}]
    /\ outbox = [c \in Conns |-> [e \in Events |-> 0]]
    /\ bstate = [e \in Events |-> "new"]
    /\ scope = [e \in Events |-> Nothing]
    /\ todo = [e \in Events |-> {}]
    /\ waiting = {}
    /\ expected = [e \in Events |-> {}]
    /\ pc = [c \in Conns |-> "none"]
    /\ work = [c \in Conns |-> Nothing]
    /\ phase = "serving"
    /\ allowed \in [Users -> SUBSET Topics]
    /\ granted = [c \in Conns |-> {}]
    /\ acked = [c \in Conns |-> {}]

\* What the client sends.
Command(c) ==
    \/ AnswerOnly(c)
    \/ Heartbeat(c)
    \/ StopReading(c)
    \/ \E ch \in Channels : ReceiveSubscribeChannel(c, ch) \/ UnsubscribeChannel(c, ch)
    \/ \E t \in Threads : ReceiveSubscribeThread(c, t) \/ UnsubscribeThread(c, t)
    \/ \E t \in Topics : ReceiveTyping(c, t)

\* What the session task does by itself once it is started.
Session(c) ==
    \/ Queue(c)
    \/ Greet(c)
    \/ Reply(c)
    \/ ViewGranted(c)
    \/ ViewRefused(c)
    \/ SubscribeChannel(c)
    \/ AccessGranted(c)
    \/ AccessRefused(c)
    \/ SubscribeThread(c)
    \/ Ack(c)
    \/ TypingIgnored(c)
    \/ TypingAllowed(c)
    \/ \E e \in Events : TypingPublish(c, e) \/ ThreadTypingPublish(c, e)
    \/ TypingPublished(c)
    \/ Unregister(c)
    \/ UnregisterUnknown(c)
    \/ Finish(c)

\* An HTTP handler, a session's presence calls or the Redis listener.
Publish(e) ==
    \/ \E ch \in Channels : BroadcastToChannel(e, ch)
    \/ \E t \in Threads : BroadcastToThread(e, t)
    \/ \E u \in Users : BroadcastToUser(e, u)
    \/ BroadcastGlobal(e)

Broadcasting(e) ==
    \/ \E c \in Conns : BroadcastSend(e, c)
    \/ BroadcastEnd(e)

Next ==
    \/ \E c \in Conns : Register(c) \/ Command(c) \/ Session(c) \/ StopOnShutdown(c)
    \/ \E e \in Events : Publish(e) \/ Broadcasting(e) \/ NextEvent(e)
    \/ \E u \in Users, t \in Topics : ChangePermission(u, t)
    \/ Cancel
    \/ QueueShutdown
    \/ ShutdownAll
    \/ Exit
    \/ Exited

Spec == Init /\ [][Next]_vars

\* The runtime keeps polling started tasks.  That the lock serves a writer is
\* not assumed: it follows from its queue.  Clients, publishers and the
\* operator owe nothing.
Fairness ==
    /\ \A c \in Conns : WF_vars(Session(c)) /\ WF_vars(StopOnShutdown(c))
    /\ \A e \in Events : WF_vars(Broadcasting(e))
    /\ WF_vars(QueueShutdown \/ ShutdownAll)
    /\ WF_vars(Exit)

FairSpec == Spec /\ Fairness

-----------------------------------------------------------------------------
(***************************************************************************)
(* The two directions of every index agree: user_connections is exactly    *)
(* the registered connections of the user, and a registered connection is  *)
(* in a topic's subscriber set iff the topic is in the connection's own    *)
(* list, which is what unregister walks to clean the index up.             *)
(***************************************************************************)
IndexesAgree ==
    /\ \A u \in Users :
           user_connections[u] = {c \in connections : UserOf[c] = u}
    /\ \A c \in connections :
           /\ \A ch \in Channels :
                  c \in channel_subscribers[ch] <=> ch \in subscribed_channels[c]
           /\ \A t \in Threads :
                  c \in thread_subscribers[t] <=> t \in subscribed_threads[c]

\* A session that is not (or no longer) registered, or has left the hub.
Outside(c) == pc[c] \in {"none", "offline", "done"}

(***************************************************************************)
(* Until shutdown_all has run, no index mentions a connection whose        *)
(* session has not registered yet or has unregistered: no closed session   *)
(* leaks an entry, whatever commands it ran and in which order.  (After    *)
(* shutdown_all a session caught between its permission check and its      *)
(* subscribe puts a stale entry into the cleared index.)                   *)
(***************************************************************************)
LiveSubscribersOnly ==
    phase \in {"serving", "cancelled"} =>
        \A c \in Conns : Outside(c) =>
            /\ c \notin connections
            /\ \A u \in Users : c \notin user_connections[u]
            /\ \A ch \in Channels : c \notin channel_subscribers[ch]
            /\ \A t \in Threads : c \notin thread_subscribers[t]

(***************************************************************************)
(* The subscribe acknowledgement is a promise: a broadcast that starts     *)
(* after the ack was queued, before the client unsubscribes or leaves,     *)
(* puts its event on that connection exactly once by the time it ends.     *)
(***************************************************************************)
AckHonoured ==
    \A e \in Events : bstate[e] = "done" =>
        \A c \in expected[e] :
            Has(c, e) /\ AtMostOnce(c, e)

(***************************************************************************)
(* Nobody receives what was never opened to them: an event of a channel or *)
(* thread is queued only on connections that a permission check allowed on *)
(* that topic, an event for a user only on that user's connections.        *)
(* (A permission withdrawn after the check does not end a subscription.)   *)
(***************************************************************************)
DeliveredInScope ==
    \A c \in Conns, e \in Events : Has(c, e) =>
        /\ scope[e] \in Topics => scope[e] \in granted[c]
        /\ scope[e] \in Users => scope[e] = UserOf[c]

-----------------------------------------------------------------------------
(* The inductive invariant behind these properties.                        *)

\* The topic or event a session works on fits the step it is at.
WorkFits ==
    \A c \in Conns :
        /\ pc[c] \in {"view_check", "subscribe_channel"} => work[c] \in Channels
        /\ pc[c] \in {"access_check", "subscribe_thread"} => work[c] \in Threads
        /\ pc[c] \in {"ack", "typing", "typing_allowed"} => work[c] \in Topics
        /\ pc[c] = "publishing" => work[c] \in Events

\* Registered sessions are exactly the active ones, until shutdown_all;
\* a session that never registered is in no subscriber set and was
\* acknowledged nothing, ever.
RegisteredIsActive ==
    /\ \A c \in connections : ~Outside(c)
    /\ phase \in {"serving", "cancelled"} =>
           \A c \in Conns : ~Outside(c) => c \in connections
    /\ \A c \in Conns : pc[c] = "none" =>
           /\ \A ch \in Channels : c \notin channel_subscribers[ch]
           /\ \A t \in Threads : c \notin thread_subscribers[t]
           /\ acked[c] = {}

\* Until shutdown_all, the subscriber sets mention registered connections.
NoStaleEntry ==
    phase \in {"serving", "cancelled"} =>
        /\ \A ch \in Channels : channel_subscribers[ch] \subseteq connections
        /\ \A t \in Threads : thread_subscribers[t] \subseteq connections

\* Every way to receive an event of a topic goes through a granted check.
SubscribersGranted ==
    /\ \A c \in Conns :
           pc[c] \in {"subscribe_channel", "subscribe_thread"} => work[c] \in granted[c]
    /\ \A ch \in Channels : \A c \in channel_subscribers[ch] : ch \in granted[c]
    /\ \A t \in Threads : \A c \in thread_subscribers[t] : t \in granted[c]

\* Sending to the rest of a broadcast keeps it in scope, and sends once.
BroadcastInScope ==
    \A e \in Events :
        /\ bstate[e] = "new" => todo[e] = {} /\ \A c \in Conns : ~Has(c, e)
        /\ \A c \in todo[e] :
               /\ ~Has(c, e)
               /\ scope[e] \in Topics => scope[e] \in granted[c]
               /\ scope[e] \in Users => scope[e] = UserOf[c]
        /\ \A c \in Conns : AtMostOnce(c, e)

\* An acknowledged topic is in the index; a broadcast still reaches every
\* connection it was expected to reach.
AckedIsSubscribed ==
    /\ \A c \in connections :
           /\ \A ch \in Channels : ch \in acked[c] => c \in channel_subscribers[ch]
           /\ \A t \in Threads : t \in acked[c] => c \in thread_subscribers[t]
           /\ pc[c] = "ack" =>
                  /\ work[c] \in Channels => c \in channel_subscribers[work[c]]
                  /\ work[c] \in Threads => c \in thread_subscribers[work[c]]
    /\ \A e \in Events :
           /\ bstate[e] = "sending" => expected[e] \subseteq connections
           /\ bstate[e] # "new" => \A c \in expected[e] : c \in todo[e] \/ Has(c, e)
           /\ bstate[e] = "done" => todo[e] = {}

Inv ==
    /\ TypeOK
    /\ IndexesAgree
    /\ WorkFits
    /\ RegisteredIsActive
    /\ NoStaleEntry
    /\ SubscribersGranted
    /\ BroadcastInScope
    /\ DeliveredInScope
    /\ AckedIsSubscribed

(***************************************************************************)
(* No writer starves: a session that wants to subscribe or to leave the    *)
(* hub, and the shutdown that wants to clear it, get the lock although     *)
(* broadcasts that overlap and follow each other for ever hold it for      *)
(* reading, unless the process exits first.                                *)
(***************************************************************************)
WritersGetLock ==
    /\ \A c \in Conns : WantsLock(c) ~> ~WantsLock(c)
    /\ phase = "cancelled" ~> phase # "cancelled"

=============================================================================
