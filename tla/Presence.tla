------------------------------ MODULE Presence ------------------------------
(***************************************************************************)
(* The presence of one user whose devices connect to several backend       *)
(* instances (handle_socket in interfaces/ws/gateway.rs, the presence      *)
(* calls of bootstrap/app_state.rs and infrastructure/redis/service.rs).   *)
(*                                                                         *)
(* The count of connections is kept by each instance's hub; the presence   *)
(* key, with its TTL, is shared in Redis; PRESENCE_UPDATE events reach the *)
(* clients of the publishing instance at once and those of the others      *)
(* through Redis pub/sub.  Every await of handle_socket between the hub    *)
(* and these calls is a place where other sessions run.                    *)
(*                                                                         *)
(* Time is counted in ticks of Tick.  The read timeout runs only while the *)
(* session waits for a frame; how long a heartbeat may take at the hub's   *)
(* lock and at Redis is not bounded by the code: PROCESSING stands for it. *)
(* Presence of different users shares nothing, so one user is enough.      *)
(***************************************************************************)
EXTENDS Naturals, Sequences

CONSTANTS
    Instances,          \* backend processes
    Conns,              \* connections of the user, each used once
    InstanceOf,         \* the instance each connection is accepted by
    Beaters,            \* connections whose client sends only heartbeats
    HEARTBEAT_TIMEOUT,  \* ticks without a frame after which a session ends
    PROCESSING,         \* ticks that handling a heartbeat takes at most
    PRESENCE_TTL,       \* life of the key, in ticks
    Faults              \* whether instances stop and Redis calls fail

ASSUME PresenceAssumption ==
    /\ InstanceOf \in [Conns -> Instances]
    /\ Beaters \subseteq Conns
    /\ HEARTBEAT_TIMEOUT \in Nat \ {0}
    /\ PROCESSING \in Nat \ {0}
    /\ PRESENCE_TTL \in Nat
    /\ PRESENCE_TTL > PROCESSING + HEARTBEAT_TIMEOUT + PROCESSING
    /\ Faults \in BOOLEAN

VARIABLES
    registered,  \* instance -> connections in its user_connections entry
    pc,          \* where each session's handle_socket is
    ttl,         \* remaining life of the key "presence:user:<id>"; 0: no key
    idle,        \* ticks the session has waited for a frame, or has been
                 \* handling a heartbeat; 0 outside its read loop
    inbox,       \* instance -> presence events its listener has not handled
    seen,        \* instance -> last presence status its clients were sent
    beaten,      \* Beaters with a heartbeat that no DEL has undone
    health       \* "faulted" once an instance stopped or a Redis call failed

vars == <<registered, pc, ttl, idle, inbox, seen, beaten, health>>

Statuses == {"ONLINE", "OFFLINE"}

PCs == {"none", "set", "online", "online_remote", "reading", "beat",
        "beat_ack", "closing", "clear", "offline", "offline_remote", "done"}

\* The session is in its read loop, where its time is measured: it waits for
\* a frame ("reading") or handles a heartbeat.
InLoop(c) == pc[c] \in {"reading", "beat", "beat_ack"}

Patience(c) == IF pc[c] = "reading" THEN HEARTBEAT_TIMEOUT ELSE PROCESSING

(***************************************************************************)
(* Type invariant of the presence state.                                   *)
(***************************************************************************)
TypeOK ==
    /\ registered \in [Instances -> SUBSET Conns]
    /\ pc \in [Conns -> PCs]
    /\ ttl \in 0 .. PRESENCE_TTL
    /\ idle \in [Conns -> Nat]
    /\ inbox \in [Instances -> Seq(Statuses)]
    /\ seen \in [Instances -> Statuses \cup {"NONE"}]
    /\ beaten \subseteq Beaters
    /\ health \in {"sound", "faulted"}

Init ==
    /\ registered = [i \in Instances |-> {}]
    /\ pc = [c \in Conns |-> "none"]
    /\ ttl = 0
    /\ idle = [c \in Conns |-> 0]
    /\ inbox = [i \in Instances |-> <<>>]
    /\ seen = [i \in Instances |-> "NONE"]
    /\ beaten = {}
    /\ health = "sound"

Goto(c, label) == pc' = [pc EXCEPT ![c] = label]

\* A Redis call may fail; the code logs it and goes on.
Fails == Faults = TRUE /\ health' = "faulted"

-----------------------------------------------------------------------------
(* A session from its registration to its read loop.                       *)

\* Hub registration: only the first connection of this instance announces.
Register(c) ==
    LET i == InstanceOf[c] IN
    /\ pc[c] = "none"
    /\ registered' = [registered EXCEPT ![i] = @ \cup {c}]
    /\ Goto(c, IF registered'[i] = {c} THEN "set" ELSE "reading")
    /\ UNCHANGED <<ttl, idle, inbox, seen, beaten, health>>

\* set_presence_state(Online): SETEX with the TTL.
SetOnline(c) ==
    /\ pc[c] = "set"
    /\ \/ ttl' = PRESENCE_TTL /\ UNCHANGED health
       \/ UNCHANGED ttl /\ Fails
    /\ Goto(c, "online")
    /\ UNCHANGED <<registered, idle, inbox, seen, beaten>>

\* publish_presence_event, first half: broadcast_global on this instance.
PublishLocal(c, at, status, next) ==
    /\ pc[c] = at
    /\ seen' = [seen EXCEPT ![InstanceOf[c]] = status]
    /\ Goto(c, next)
    /\ UNCHANGED <<registered, ttl, idle, inbox, beaten, health>>

\* Second half: Redis PUBLISH.  The publisher's own listener drops the echo.
PublishRemote(c, at, status, next) ==
    /\ pc[c] = at
    /\ \/ /\ inbox' = [i \in Instances |-> IF i = InstanceOf[c] THEN inbox[i]
                                           ELSE Append(inbox[i], status)]
          /\ UNCHANGED health
       \/ UNCHANGED inbox /\ Fails
    /\ Goto(c, next)
    /\ UNCHANGED <<registered, ttl, idle, seen, beaten>>

AnnounceOnline(c) ==
    \/ PublishLocal(c, "online", "ONLINE", "online_remote")
    \/ PublishRemote(c, "online_remote", "ONLINE", "reading")

-----------------------------------------------------------------------------
(* The read loop.                                                          *)

\* ClientCommand::Heartbeat arrives and waits in touch_heartbeat for the
\* hub's lock (the time stored there is never read).
Heartbeat(c) ==
    /\ pc[c] = "reading"
    /\ Goto(c, "beat")
    /\ idle' = [idle EXCEPT ![c] = 0]
    /\ UNCHANGED <<registered, ttl, inbox, seen, beaten, health>>

\* Mutant: the heartbeat is acknowledged but does not renew the key.
MutRenewKey(c) ==
    /\ pc[c] = "beat"
    /\ Goto(c, "beat_ack")
    /\ beaten' = beaten \cup ({c} \cap Beaters)
    /\ UNCHANGED <<registered, ttl, idle, inbox, seen, health>>

\* set_presence_state(Online): SETEX renews the key, whatever its state.
RenewKey(c) ==
    /\ pc[c] = "beat"
    /\ Goto(c, "beat_ack")
    /\ \/ /\ ttl' = PRESENCE_TTL
          /\ beaten' = beaten \cup ({c} \cap Beaters)
          /\ UNCHANGED health
       \/ UNCHANGED ttl /\ beaten' = beaten \ {c} /\ Fails
    /\ UNCHANGED <<registered, idle, inbox, seen>>

\* HEARTBEAT_ACK is queued; the next read starts with the whole timeout.
HeartbeatAck(c) ==
    /\ pc[c] = "beat_ack"
    /\ Goto(c, "reading")
    /\ idle' = [idle EXCEPT ![c] = 0]
    /\ UNCHANGED <<registered, ttl, inbox, seen, beaten, health>>

\* Any other frame restarts the read timeout and leaves the key alone.
OtherFrame(c) ==
    /\ pc[c] = "reading"
    /\ c \notin Beaters
    /\ idle' = [idle EXCEPT ![c] = 0]
    /\ UNCHANGED <<registered, pc, ttl, inbox, seen, beaten, health>>

\* The loop ends: the client closes, the socket fails or the timeout fires.
StopReading(c) ==
    /\ pc[c] = "reading"
    /\ Goto(c, "closing")
    /\ idle' = [idle EXCEPT ![c] = 0]
    /\ beaten' = beaten \ {c}
    /\ UNCHANGED <<registered, ttl, inbox, seen, health>>

\* Mutant: the set is tested for emptiness before the removal.
MutUnregister(c) ==
    LET i == InstanceOf[c] IN
    /\ pc[c] = "closing"
    /\ registered' = [registered EXCEPT ![i] = @ \ {c}]
    /\ Goto(c, IF registered[i] = {} THEN "clear" ELSE "done")
    /\ UNCHANGED <<ttl, idle, inbox, seen, beaten, health>>

\* Hub unregistration.  After shutdown_all the connection is unknown and
\* the session ends without a word.
Unregister(c) ==
    LET i == InstanceOf[c] IN
    /\ pc[c] = "closing"
    /\ registered' = [registered EXCEPT ![i] = @ \ {c}]
    /\ Goto(c, IF registered[i] = {c} THEN "clear" ELSE "done")
    /\ UNCHANGED <<ttl, idle, inbox, seen, beaten, health>>

\* set_presence_state(Offline): DEL of the key.
ClearKey(c) ==
    /\ pc[c] = "clear"
    /\ \/ ttl' = 0 /\ beaten' = {} /\ UNCHANGED health
       \/ UNCHANGED <<ttl, beaten>> /\ Fails
    /\ Goto(c, "offline")
    /\ UNCHANGED <<registered, idle, inbox, seen>>

AnnounceOffline(c) ==
    \/ PublishLocal(c, "offline", "OFFLINE", "offline_remote")
    \/ PublishRemote(c, "offline_remote", "OFFLINE", "done")

-----------------------------------------------------------------------------
(* The listener, the clock, and instances that stop.                       *)

\* dispatch_event of a PRESENCE_UPDATE from another instance.
Deliver(i) ==
    /\ inbox[i] # <<>>
    /\ seen' = [seen EXCEPT ![i] = Head(inbox[i])]
    /\ inbox' = [inbox EXCEPT ![i] = Tail(@)]
    /\ UNCHANGED <<registered, pc, ttl, idle, beaten, health>>

\* No session is slower than it may be: before more time passes, a read
\* timeout that is due fires and a heartbeat at its limit is dealt with.
Punctual == \A c \in Conns : InLoop(c) => idle[c] < Patience(c)

Waiting == idle' = [c \in Conns |-> IF InLoop(c) THEN idle[c] + 1 ELSE idle[c]]

\* Mutant: SET instead of SETEX, the key has no expiry.
MutTickNoExpiry ==
    /\ Punctual
    /\ Waiting
    /\ UNCHANGED <<registered, pc, ttl, inbox, seen, beaten, health>>

\* Time passes; the key loses life.
Tick ==
    /\ Punctual
    /\ ttl' = IF ttl > 0 THEN ttl - 1 ELSE 0
    /\ Waiting
    /\ UNCHANGED <<registered, pc, inbox, seen, beaten, health>>

\* AppState::shutdown: the hub is cleared under the sessions' feet.
ShutdownAll(i) ==
    /\ Fails
    /\ registered' = [registered EXCEPT ![i] = {}]
    /\ UNCHANGED <<pc, ttl, idle, inbox, seen, beaten>>

\* The process ends, in order or not: its sessions are gone where they stand.
Stop(i) ==
    /\ Fails
    /\ registered' = [registered EXCEPT ![i] = {}]
    /\ pc' = [c \in Conns |-> IF InstanceOf[c] = i /\ pc[c] # "none"
                              THEN "done" ELSE pc[c]]
    /\ inbox' = [inbox EXCEPT ![i] = <<>>]
    /\ seen' = [seen EXCEPT ![i] = "NONE"]
    /\ beaten' = {c \in beaten : InstanceOf[c] # i}
    /\ idle' = [c \in Conns |-> IF InstanceOf[c] = i THEN 0 ELSE idle[c]]
    /\ UNCHANGED ttl

-----------------------------------------------------------------------------
Session(c) ==
    \/ SetOnline(c)
    \/ AnnounceOnline(c)
    \/ RenewKey(c)
    \/ HeartbeatAck(c)
    \/ Unregister(c)
    \/ ClearKey(c)
    \/ AnnounceOffline(c)

Next ==
    \/ \E c \in Conns : \/ Register(c) \/ Session(c) \/ Heartbeat(c)
                        \/ OtherFrame(c) \/ StopReading(c)
    \/ \E i \in Instances : Deliver(i) \/ ShutdownAll(i) \/ Stop(i)
    \/ Tick

Spec == Init /\ [][Next]_vars

\* Started tasks are polled, time passes, and a session whose read timeout is
\* due sees a frame or ends.
Fairness ==
    /\ \A c \in Conns : WF_vars(Session(c))
    /\ \A c \in Conns : WF_vars(idle[c] = HEARTBEAT_TIMEOUT
                                /\ (Heartbeat(c) \/ StopReading(c)))
    /\ \A i \in Instances : WF_vars(Deliver(i))
    /\ WF_vars(Tick)

FairSpec == Spec /\ Fairness

-----------------------------------------------------------------------------
Connected(c) == c \in registered[InstanceOf[c]]

\* No session is between the hub and the end of its presence calls, and no
\* event is on its way.
Settled ==
    /\ \A c \in Conns : pc[c] \in {"none", "reading", "done"}
    /\ \A i \in Instances : inbox[i] = <<>>

(***************************************************************************)
(* Whatever the order in which the devices come and go on whichever        *)
(* instances, once all is quiet and nobody is connected, the key is gone   *)
(* and no client was last told ONLINE (no instance stopped, no Redis call  *)
(* failed): the unregistration that empties an instance's set runs after   *)
(* every ONLINE of that instance.                                          *)
(***************************************************************************)
NoGhostOnline ==
    Settled /\ health = "sound" /\ (\A i \in Instances : registered[i] = {}) =>
        /\ ttl = 0
        /\ \A i \in Instances : seen[i] # "ONLINE"

(***************************************************************************)
(* PRESENCE_TTL outlives HEARTBEAT_TIMEOUT: while a client that sends      *)
(* heartbeats is connected, the key it renewed does not expire before the  *)
(* next one renews it, although that may arrive as late as the read        *)
(* timeout allows, after an ack that was slow and before a SETEX that is   *)
(* (another session's DEL aside).                                          *)
(***************************************************************************)
KeyOutlivesTimeout ==
    \A c \in beaten : InLoop(c) => ttl > 0

\* Inductive form: the key lost no more life than has passed since the SETEX.
KeyAge ==
    /\ \A c \in Conns : /\ InLoop(c) => idle[c] <= Patience(c)
                        /\ ~InLoop(c) => idle[c] = 0
    /\ \A c \in beaten :
          /\ InLoop(c)
          /\ pc[c] = "beat_ack" => ttl + idle[c] >= PRESENCE_TTL
          /\ pc[c] = "reading" => ttl + idle[c] + PROCESSING >= PRESENCE_TTL
          /\ pc[c] = "beat" =>
                ttl + idle[c] + PROCESSING + HEARTBEAT_TIMEOUT >= PRESENCE_TTL

(***************************************************************************)
(* "TTL for fail-safe offline detection": when the sessions are gone for   *)
(* good, the key goes too, even if the instances crashed, were shut down   *)
(* or could not reach Redis.                                               *)
(***************************************************************************)
KeyIsFailSafe ==
    <>[](\A c \in Conns : pc[c] \in {"none", "done"}) => <>[](ttl = 0)

(***************************************************************************)
(* A stale DEL is repaired: a session that stays connected, with a client  *)
(* that sends heartbeats, keeps bringing the key back (Redis reachable).   *)
(***************************************************************************)
HeartbeatRepairs ==
    \A c \in Beaters : <>[]InLoop(c) => []<>(ttl > 0) \/ <>(health = "faulted")

(***************************************************************************)
(* Offline is published only after the last connection closes: once all is *)
(* quiet, a user with a connection was last announced ONLINE everywhere.   *)
(* The code does not guarantee it: see the violation run.                  *)
(***************************************************************************)
ConnectedIsOnline ==
    Settled /\ health = "sound" /\ (\E c \in Conns : Connected(c)) =>
        \A i \in Instances : seen[i] = "ONLINE"

=============================================================================
