# Sagiton: TLA+ models of the backend

Sagiton is a chat backend (`backend/src`, Rust, axum, PostgreSQL, Redis). Clients
use an HTTP API and a websocket gateway. Several backend instances may run at
once; they share the database and exchange events through Redis pub/sub.

This directory holds a TLA+ model of each part that has state of its own, the TLC
runs that check it on small instances, and TLAPS proofs of their safety
properties for every size. `PROJECT.json` lists components, runs, the lines each definition
models, findings, hazards and theorems.

    tlc -workers 2 -config MCGuild.cfg MCGuild        # one run
    tlapm GatewayHubProofs.tla                        # the proofs of one module

## 1. The system

| part | state | operations | interacts with |
|---|---|---|---|
| gateway hub (`interfaces/ws/gateway.rs`) | maps of connections, users and subscribers behind one RwLock | register, unregister, subscribe, unsubscribe, broadcast, shutdown | session tasks, handlers and the Redis listener call it; permission checks read the database |
| presence (`gateway.rs`, `app_state.rs`, `redis/service.rs`) | a per-user Redis key with a TTL; the hub's count of connections | set and announce ONLINE, renew, delete and announce OFFLINE | hub, fan-out |
| event fan-out (`app_state.rs`, `redis/service.rs`, `main.rs`) | the listener task of each instance, its Redis connection | publish, receive, dispatch, reconnect, shut down | called by every handler, feeds the hub |
| friends and direct threads (`friendship_repository.rs`, `conversation_repository.rs`) | `friend_requests`, `friends`, `threads` | request, accept, reject; open, accept, reject, post | accepting friendship activates the thread |
| refresh sessions (`auth.rs`, `auth_repository.rs`) | `user_sessions` | login, refresh (rotation), logout | none |
| guilds (`guild_channel_repository.rs`) | `guilds`, `guild_members`, `member_roles`, `guild_invites`, `channels` | create, join, leave, invite, create channel, resolve permissions | every channel operation asks it for permissions |
| group threads (`conversation_repository.rs`) | `threads`, `thread_members`, `group_invites` | create, add, leave, invite, join | thread messages ask it for membership |
| messages (`message.rs`, `message_repository.rs`) | `messages`, `channel_reads` | create, edit, soft delete, list pages, mark read, `has_unread` | publishes through the fan-out |
| thread messages (`conversation.rs`, `conversation_repository.rs`) | `thread_messages`, `thread_reads` | the same for groups and direct threads | membership, the status of a direct thread, and its rejection, which deletes the rows |
| rate limiter (`redis/service.rs`) | a counter key per user and topic | allow | guards message creation and subscriptions |

The hard behaviours are the same everywhere. A handler is a sequence of awaits
(database, Redis, lock), between which any other handler runs, on this instance
or another one. Most database work is single statements on the pool, so a check
and the write it justifies are different transactions. A handler is dropped at an
await when its client disconnects, and Redis may fail at any call. The order in
which events are published is not tied to the order in which rows are written.

## 2. Modules

`X.tla` is a specification, `MCX.tla` its small instances, `XProofs.tla` its
theorems (`RedisKeysProofs.tla` those of Presence and RateLimiter). Every module has
one action per step between two awaits; waiting for a lock is part of the step
behind it, except where the wait matters (`Queue` in GatewayHub, row locks). `Mut...`
operators are mutations of the definition that follows them; the specifications
do not use them. Database statements outside a transaction are one step.
Transactions run at READ COMMITTED: their writes appear at the commit, row locks
(FOR UPDATE, the FOR KEY SHARE of a foreign key) are predicates over the requests
that hold them. An early return that changes nothing is a guard that does not
hold, or a `Return`.

**GatewayHub.** The maps of `HubState` are variables of the same name; a missing
entry is the empty set. Operations under the write lock are one step; a
broadcast (`todo`) sends to one connection per step and excludes writers until
it is done. tokio's RwLock is fair, and that is in the model rather than in a
fairness condition: a writer that finds readers joins `waiting`, and no broadcast
begins while somebody is there. `pc` follows a session through register, READY,
commands (permission check, subscribe, ack are three steps; the two checks of a
typing event and its broadcast are two), close and unregister; `phase` is the
shutdown. `outbox` counts how often the hub has put an event on a connection's
sender; the writer task sends a prefix of it and is not modelled. An event that has
been delivered stands for the next one (`NextEvent`), so broadcasts never run out.
Permissions change at any time (`allowed`).

**Presence.** One user with devices on several instances. Each await of
`handle_socket` between hub, key and publication is a step; `inbox` is the
Redis stream to each instance, `seen` the last status its clients were told. A
heartbeat is three steps: its frame arrives (the hub's lock), SETEX, ack. Time is
counted in ticks. The read timeout of 70 s is around `stream.next()` only, so the
time a heartbeat takes at the lock and at Redis comes on top of it; `idle` counts
both, each up to its limit (`Patience`). The code sets no limit on the second: that
is the constant `PROCESSING`.

**Fanout.** One event is a handler that broadcasts locally and then publishes
(an acceptance publishes twice); the listener subscribes topic by topic, so it
can lose events in between, drops its own instance's envelopes and dispatches the
rest. Recipients stand for the sessions of a user on every instance. `owed` are
the events Redis handed to the session of an instance that some recipient there
still waits for.

**DirectContract, DirectThreads.** `DirectContract` is what the pair may rely on,
each transition at one instant: friendship by accepting a request that stands at
that moment, a thread that only the one who was asked answers, ACTIVE by that
answer or by friendship. Who acted is part of the contract: `answered` is who
answered a friend request, `party` who opened or answered the thread, and both are
mapped to histories of the requests that committed (`answered`, `tconsent`).
`DirectThreads` is the tables under any number of concurrent requests. Thread ids count upwards, so a request may hold the id of a
thread that was rejected meanwhile. `crossed` remembers threads whose INSERT and
the accept of the pair's friendship did not see each other. `askedBar`,
`threadBar` and `byBar` map the committed rows to the contract.

**SessionChain, RefreshSessions.** `SessionChain` is the promise: each login has
at most one working token, exchanged for a fresh one, gone for good after
logout. `RefreshSessions` is the table with its rotation transaction and the
expiry checked at the two places the code checks it. `headBar` and `issuedBar`
map one to the other.

**Guild.** Members, the default role that carries the permissions (no code writes
`channel_overrides`, so they are empty), invites, channel positions and the
two-query permission check. `torn` remembers leaves that stopped half way,
`crossed` the users who joined while a leave of theirs was in flight.

**GroupThreads.** Owner, members and invites of one group; a join holds the
thread row from its first query to its commit.

**Messages.** The messages of one channel, ordered by `(created_at, id)`: an
INSERT takes its time when it starts and becomes visible later, so rows appear
out of order and timestamps tie. A reader walks along `next_cursor` while
requests create and delete; read markers and `has_unread` are as the queries
compute them. A follower is a reader that subscribes first (permission check and
hub are two steps), waits for the ack, loads the pages and applies the events as
they are published; `shown` is what its client shows.

**MessageLog, ThreadMessages.** `ThreadMessages` extends `Messages` to threads:
`kind` says whether the instance is a channel, a group or a direct thread, the
statements are those of `Messages` on other tables, and added are who may post in
a PENDING thread, members who leave and return, the accept, and the reject that
deletes the thread with its messages and markers under requests in flight (the
foreign keys then refuse their INSERTs). `MessageLog` is what all three promise:
a message is posted once, edited while it is there, removed for good, and
nothing is posted once the thread is dissolved. `textBar` maps rows to it.

**RateLimiter.** INCR and EXPIRE as two commands on one key; a command may fail
before Redis applies it (`FailOpen`) or after (`ReplyLost`: counted, allowed, and
no EXPIRE follows). Times are ages, so
runs are not bounded in time. `granted` is the history of the last `window_secs`
seconds: a grant is known by its key (how many have expired since) and by the
value INCR returned, and has an age.

## 3. Runs

| run | instance | checks |
|---|---|---|
| `hub_channel` | 2 connections of a user, 1 channel, 1 event that repeats | `IndexesAgree`: both directions of every index agree. `LiveSubscribersOnly`: no closed session is left in an index. `AckHonoured`: after the ack every broadcast arrives exactly once. `DeliveredInScope`: only after a check allowed it |
| `hub_lock` | 1 session, a second user, 1 thread, 2 events that repeat, the shutdown | `WritersGetLock`: a session that subscribes or closes, and the shutdown, get the lock although broadcasts overlap and follow each other for ever. `Inv`: the inductive invariant of the proofs, which holds the four properties above and the type invariant, on the thread and user paths |
| `presence` | 3 devices on 2 instances, crashes and Redis failures | `NoGhostOnline`: all gone and quiet means offline everywhere. `KeyOutlivesTimeout`: the key does not expire between heartbeats. `KeyIsFailSafe`: it goes when the sessions are gone. `HeartbeatRepairs`: a heartbeating session brings it back |
| `presence_two_instances` | 2 devices on 2 instances | **violated** `ConnectedIsOnline` |
| `fanout` | 2 instances, a presence update and an acceptance, 1 failure | `AtMostOnce`: one copy where the event is published, one per publication elsewhere. `CausalOrder`, `LocalDelivery`. `DeliversUntilShutdown`: the listener comes back after every failure and whatever reached its session is handed to everyone it is for. `StopsOnShutdown` |
| `direct_threads` | 3 requests, a thread and its successor | `ImplementsContract`: every commit is a transition of `DirectContract`, by the user who may make it, so friendship and an active thread need both users, nobody answers the own request or thread, and an accept never uses a friend request that was declined while it ran. `ReceiverWaits`: no message from the receiver of a pending thread. `FriendsActive`: friends have an active thread. `ActiveForever` |
| `refresh_sessions` | 4 tokens, 3 requests | `OneHead`, `LogoutFinal`, `ImplementsChain` |
| `guild` | 3 users, 2 requests, 1 invite, 3 channel names | `RoleFollowsMembership`: members have access and others no role. `InviteCap`, `PositionsGapFree`. `AccessWasHeld`: what a check grants, the user held at one moment of it |
| `group_threads` | 3 users, 2 invites, 3 requests | `OwnerIsMember`, `InviteCap`, `UseAdmits`, `Admission` |
| `pages` | a channel, 3 messages, a reader who leaves and returns, 2 times, 2 writers, limits 0 to 3 with a maximum of 2 | `StableWalk`: no message skipped or repeated, no cursor refused. `CaughtUp`: what was read does not turn unread |
| `message_writes` | a channel, a group or a direct thread, 2 users, 1 message, 2 requests, 2 edits, deletes or reads, 1 dropped | `Converged`: a client that subscribes and then loads the page ends with what is stored. `DeleteToldOnce`. `ImplementsLog`: the rows implement `MessageLog`. `AuthorWrites`: only its author changes a message |
| `rate_limit` | limit 2, window 3, 2 requests, 1 failure | `AtMostTwice`: twice the limit in any window. `DeniedForRecentUse`: a denial only when the limit was used within the window. `AllowedAgain`: unless an EXPIRE was lost or never sent, a client is allowed again and again |

**Bounds.** Two or three requests, because the races are between a check and a
write of one request and the commit of another, with a third to take effect in
between; where two are enough for a race, a request slot is used again. Invites
have small limits, so the last use is contended. Two instances show all of
fan-out: a third is a copy of the second. Three messages with limits 1 and 2 give
three pages, or a full and a partial one. `MaxThreads` leaves the last thread
unrejected, so that ids stay finite. `MaxFaults` and `MaxDrops` bound how often
something fails, not where; `MaxOps` bounds the edits, deletes and read requests
of a run. `message_writes` has one message: no write reads another row, and the
order of several messages is what `pages` is about.
`hub_channel` has any number of broadcasts, one at a time: two that overlap share
nothing but the lock, which `hub_lock` is about. `hub_lock` has one session because
liveness with two is out of TLC's reach: the starvation needs one waiting writer and
two readers that take turns, and the shutdown is a second writer. `Inv`, and with it
the four properties of `hub_channel`, is proved for any number of sessions and of
broadcasts that overlap.
`presence` has a timeout of 1, processing of 1 and a TTL of 4, the shortest that
satisfies the assumption.
Deadlock is not checked in the runs whose bounded inputs run out.

**Exceptions in the properties.** Some hazards the code does not guard against.
The property then names the outcome and says that nothing else leads there:
- `RoleFollowsMembership` leaves out leaves that stopped half way (`torn`) and users
  whose own join committed during their own leave (`crossed`);
- `FriendsActive` leaves out a thread that was inserted PENDING while the accept of
  the friendship committed (`crossed`);
- `Converged` leaves out messages for which their author had two requests at the
  same time or a dropped one, and rejected threads (`raced`);
- `AllowedAgain` and `DeniedForRecentUse` leave out keys whose EXPIRE was lost or
  came late (`lost`, `late`);
- `LiveSubscribersOnly` ends at `shutdown_all`, after which a session caught before
  its subscribe leaves an entry in the cleared index of a process that exits;
- `DeliveredInScope` allows a permission that was withdrawn after the check,
  `CausalOrder` a local event that overtakes one from elsewhere, `PositionsGapFree`
  a position that two creations share, `DeleteToldOnce` an event that was never
  published.

Section 5 says more of the first four.

**Fairness.** Hub: weak fairness of the steps of started sessions, of the loop of
each broadcast and of the shutdown. That a writer gets the lock is not assumed: it
is what `WritersGetLock` shows of the queue. Presence: weak fairness of a session's
own steps, of due timeouts, of event delivery and of time; none on clients or faults.
Fan-out: weak fairness of the listener's steps, of the `select!` branch that stops
it and of the hub's shutdown. Its connect and its subscriptions are assumed to
answer or fail in the end: `run_pubsub_session` awaits them outside of the `select!`
(`redis/service.rs:116-134`), so a Redis that accepts a connection and never answers
would hold up `StopsOnShutdown`. Rate limiter: time passes, requests finish, the
client asks again.

The type invariants are proved; that of Guild is also checked by a run of its own
name, that of GatewayHub within `Inv`.

## 4. Proofs

All proved for arbitrary constants, the type invariants included; the theorems
are listed in `PROJECT.json`. Every safety property the passing runs check, the
three refinements and the action properties included, is proved, with one
restriction (`StableWalk`, below).

The proofs have one shape. A property of a request in flight is about something
it has read and acts on later, so by itself it is not inductive. The inductive
invariant adds the *support* of each position in a handler: what is still true of
what the request has read, and which other requests keep it true (a row lock, a
foreign key, an author check, an id that is not used again). One lemma per action,
or per group of actions that differ in what they leave alone, shows that it is
preserved; each property follows from the invariant.

The assumptions on the constants are in the modules that declare them. Those that
the proofs use beyond types: `PRESENCE_TTL > PROCESSING + HEARTBEAT_TIMEOUT + PROCESSING`
(with the code's 90 s and 70 s: a heartbeat is handled in less than 10 s), the
placeholders (`NoUser`, `NoMessage`, `NoContent`, "gone") are not values,
the ids of a run of Messages are finitely many, and the limit and the window of the
rate limiter are positive.

*GatewayHubProofs.* `Inv` is needed because each property speaks of the end of a
chain of steps. `WorkFits` ties the topic in hand to the step;
`RegisteredIsActive` and `NoStaleEntry` tie the maps to the session's position;
`SubscribersGranted` and `BroadcastInScope` carry the permission check from
subscribe to delivery; `AckedIsSubscribed` carries the ack to the broadcast.
Results: `Invariance`, `TypeCorrect`, `IndexConsistency`, `NoLeak`, `AckPromise`,
`DeliveryScope`.

*RedisKeysProofs*, the two keys with a time to live (`RateLimiter` shares no name
with `Presence`, so that one module extends both). `KeyLife`: the key
outlives the gap between two SETEX, from `KeyAge` (the key has lost no more life
than has passed since: an ack, a wait and a SETEX, each within its limit) and the
assumption on the TTL. `NoGhost`: nobody stays online after
the last session has gone, while nothing fails. `GhostInv` says for each sign of
being online what will take it back. `HubSupport` ties a session's position to the
hub's maps. `KeyDue`: while the key lives, some session is registered or has its
DEL still to do. `EventsDue`: when the last event on its way to an instance is
ONLINE, a session elsewhere is registered or has an OFFLINE still to publish
(`RemoteDue`); when nothing is on its way and its clients were last told ONLINE,
such a session exists there or on the instance itself (`LocalDue`). Only the last
event of a stream counts, whoever sent it, because every sender that is not due
any more has ended with an OFFLINE.

`TwiceTheLimit` and `DenialsAreDue`, of the rate limiter, follow from `LimiterInv`.
`ExpireSupport`: only the request that created the key sends EXPIRE, and the key
has no expiry until it does. `CountedInv` is shared by the two steps that count.
`GrantsDiffer`: no two grants share key and value.
`TwoKeys`: grants are of the key there is now or the one before it, and those of
the one before leave the window by the time this key expires. `GrantsKept`: unless
its EXPIRE came late, every grant of a key stays in the window as long as the key.
Counting is then an injection: of the grants into 1 .. 2 * limit, by key and value,
and of 1 .. limit into the grants of a full counter. No sum is taken, and no
induction.

*DirectThreadsProofs.* `Support` says what a request has read that stays true
until it writes: friendship is never withdrawn, a locked row is still the pair's
thread, a thread id is never reused, and what an accept or an INSERT in flight
still owes to `FriendsActive`; the friend request an accept has locked stays
PENDING or ACCEPTED until its commit, and an ACCEPTED one means friends. Results:
`Consent` (the same for the history of who acted), `NoEarlyMessage`,
`FriendsHaveActive`, `AcceptIsAnswered`, `ActiveIsForever` and `ContractHolds`, the rows implement `DirectContract`. The
last goes action by action: seven of them write a row and are one transition each
(`UpsertAsks`, `RejectDeclines`, `AcceptBefriends`, `InsertOpens`,
`AnswersThread`), the others only read (`OthersStutter`). `AcceptBefriends` is
where the row lock counts: without it the request could be declined before the
commit. An accept of an ACCEPTED request is `Activate` or nothing.

*RefreshSessionsProofs.* Rows and requests in flight determine that the row a
rotation locks is the only live row of its login. Results: `SingleHead`,
`LogoutIsFinal`, `NoReuse` and `Refinement` (the table implements
`SessionChain`; `TheOne` isolates the CHOOSE of the mapping).

*GroupThreadsProofs.* `JoinSupport`: joins exclude each other, so the use a join
has checked is still left when it commits. `RequestSupport`: owner checks cannot
go stale because the owner never changes. `Fresh`: nothing happens before the
group exists. Results: `OwnerStaysMember`, `InviteLimit`, `UsePerMember`,
`NoOtherWayIn`.

*FanoutProofs.* `Inv` counts copies. `LocalCount`: on the publishing instance the
recipients the handler has come to (`Served`) have one copy each; that nobody
else puts one there needs `Honest`, envelopes name their origin, so that echo
suppression drops all of them. `RemoteCount`: elsewhere, the copies received and
those still in the stream are no more than the publications Redis has answered.
`AppendOccurrences` and `TailOccurrences` are the two facts about counting in
sequences. Results: `DeliveredLocally`, `NoDuplicates`, `TypeCorrect`.
`CausalDelivery` needs `CausalInv`: what is seen or in a stream has begun
(`Started`), an event is before another only if it is done and the other has begun
(`BeforeFits`), streams hold no event behind one that it came before
(`StreamOrder`), and nothing that is still in a stream came before something
received from elsewhere (`ReadInOrder`).

*GuildProofs.* `RowLock`: a join by invite holds the guild row alone, so the use it
has checked is left when it commits (`UseSupport`). `LeaveSupport`: a user who is a
member while a leave of theirs is between its statements is in `crossed`.
`HeldSupport`: whoever the roles there are now would grant access held it at some
moment of the check. `PositionSupport`: all positions below the one a creation has
read are taken, and none is ever given up, which leaves no gap whatever two
creations read. Results: `TypeCorrect`, `RolesOfMembers`,
`NoStaleGrant`, `InviteLimit`, `NoGaps`.

*ThreadMessagesProofs*, of the specification that holds channels, groups and direct
threads. `LogInv` is about the rows: `RequestSupport` and `WriteSupport` (a request
past its check holds an id that was taken, of its own user), `InsertSupport` (each
uncommitted row has one request, and none outlives a rejected thread: the foreign
key holds the reject back) and `DeleteSupport` (one request at most has erased a
message and not told). From it:
- `Refinement`, the rows implement `MessageLog`. `RowSteps` reduces every action
  to one of five changes of the rows, or none, and each of those is a step of the
  log under `textBar`;
- `ToldOnce`;
- `OnlyAuthors`, from `WriteSupport`: the author compared before the write is still
  the author of the row written, because an id is never taken twice;
- `StaysRead`, with `ReadSupport`: a marker found as the newest message is above
  everything that was live then, and the deletion of a row does not move it;
- `WalksAreStable`, with `WalkSupport`: what was live at the first page and is not
  listed is below the cursor, and the cursor is the oldest listed. `PageShape` and
  `Order` are the facts about a page, a prefix of the sorted rows, and about the
  order of `(created_at, id)`. The theorem ends where a direct thread is rejected:
  the anchor of a cursor is deleted with it, the walk is then answered as not
  found, and "no cursor is refused" is false by design (`NothingRepeated` shows
  that the rest of `StableWalk` stays true then). Channels and groups, and the
  channel of the run, never come there;
- `FollowersConverge`, with `ViewInv`: a message that is not `raced` has one
  writer at a time (`SoleWriter`), whose event carries what is stored
  (`TellsStored`); so a subscribed client shows what is stored or the writer still
  has the event to publish (`ShownIsStored`, `LiveIsShown`).

Only model-checked: all liveness (`WritersGetLock`, `KeyIsFailSafe`,
`HeartbeatRepairs`, `DeliversUntilShutdown`, `StopsOnShutdown`, `AllowedAgain`),
which is outside the prover's reach.

## 5. Findings

`presence_two_instances` shows the one disagreement between code and
documentation that has a run of its own: the refcount of "multi device" presence
is per instance, the key and the OFFLINE event are global, so closing the last
device on one instance takes a user offline who is still connected to another.

Behaviours of the models that a maintainer should know of:

- *Presence on one instance.* `unregister` releases the hub before the DEL and the
  OFFLINE: a device that reconnects in between is announced ONLINE first and
  OFFLINE last (`ConnectedIsOnline` fails with both devices on one instance too).
  `HeartbeatRepairs` shows that the key comes back; the announcement does not.
- *Direct threads.* `CreateDirect` reads the friends row before it inserts. When
  `AcceptFriendCommit` comes between the read and `InsertPending`, the pair are
  friends with a PENDING thread; the receiver can still accept it. `FriendsActive`
  shows that this is the only way.
- *ThreadAccepted.* It is published once per user, and each publication is
  dispatched to both users on the other instances, who see it twice
  (`AtMostOnce` allows two copies there).
- *Guild.* A leave deletes membership and roles in two statements. A join of the
  same user that commits between them loses its role: a member who may neither
  view nor send (`crossed`). A leave that is interrupted between them leaves a role
  row, on which the next join fails (`torn`); leaving again removes it.
- *Groups.* The cap of 30 members is checked at creation; `AddGroupMember` and
  joins by invite exceed it.
- *Rate limiter.* The window is fixed, not "rolling" as `app_state.rs:243` says:
  twice the limit passes within `window_secs` (`AtMostTwice` is tight). An EXPIRE
  that fails, or whose handler is dropped, or an INCR whose reply is lost, leaves a
  counter that denies for good.
- *Messages.* Events of two writers of one message can be published in the wrong
  order (`raced`). Read markers move back when two devices race; a message that
  commits late can be below a marker without ever having been unread. Marking an
  empty channel or thread read without naming a message fails (`fetch_one` finds
  no row).
- *Thread messages.* Rejecting a direct thread, and leaving a group, publish
  nothing and do not unsubscribe: clients keep showing a thread that is gone, and
  a former member still receives events. Marking a thread read that was rejected
  meanwhile violates a foreign key and is answered as an internal error, where
  posting is answered as not found. Read markers survive a leave and a return.
- *Login.* Registration stores the e-mail address in lower case; login compares
  what was typed.

## 6. Not modelled

Passwords and access tokens (stateless cryptography), DTOs, router and OpenAPI
document, configuration, telemetry, metrics, health checks, migrations (their
constraints are in the guards), error formatting. Registration is one INSERT
decided by unique constraints, and profiles, friend lists, thread lists and guild
lists are single SELECTs: no step has a state in between. Content and name
validation only refuses requests. The hub's writer task and replies other than
the ack are left out. Physical deletion of users, guilds or channels has no code.

## 7. Plan

Done: hub, presence, direct threads, refresh sessions, guild, fan-out, group
threads, messages, thread messages, rate limiter, in this order, all with proofs;
abstract specifications of the pair of users, of refresh sessions and of message
logs. What is left without a model has no state of its own (section 6).

To compose, if the instances can be kept small: `Fanout` with `Messages` (a
follower on another instance), `Guild` with `GatewayHub` (subscriptions that
outlive a membership). An abstract invite ledger that both `Guild` and
`GroupThreads` implement would state `InviteCap` once for both.
