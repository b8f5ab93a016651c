-------------------------------- MODULE Fanout --------------------------------
(***************************************************************************)
(* Fan-out of events over several instances: AppState::publish_*_event     *)
(* broadcasts to the local hub and then publishes to Redis; the pub/sub    *)
(* listener of every instance drops its own instance's envelopes (echo     *)
(* suppression) and dispatches the others to its hub; it reconnects after  *)
(* failures and stops on shutdown (app_state.rs, redis/service.rs).        *)
(*                                                                         *)
(* Every recipient of an event has one session on every instance; what a   *)
(* hub does with its sessions is module GatewayHub's.  Redis (external)    *)
(* appends a publication to the stream of each subscribed connection and   *)
(* forgets it otherwise.                                                   *)
(***************************************************************************)
EXTENDS Naturals, Sequences, FiniteSets

CONSTANTS
    Instances,
    Events,        \* events published by HTTP handlers or sessions
    Kind,          \* event -> "channel", "thread", "user", "presence", "accepted"
    Origins,       \* the ways events are spread over the instances
    MaxFaults      \* bound: failed connections, disconnects, failed PUBLISHes

ASSUME FanoutAssumption ==
    /\ Kind \in [Events -> {"channel", "thread", "user", "presence", "accepted"}]
    /\ Origins \subseteq [Events -> Instances]
    /\ MaxFaults \in Nat

\* The Redis channel of an event, in the order the listener subscribes.
Topic(e) ==
    CASE Kind[e] = "channel"  -> 1
      [] Kind[e] = "thread"   -> 2
      [] Kind[e] = "presence" -> 4
      [] OTHER                -> 3

Recipients == {"client", "requester", "receiver"}

\* publish_*_event is called once per entry, with its recipients:
\* ThreadAccepted is published to the requester and then to the receiver; a
\* presence update is for everybody.
Calls(e) ==
    CASE Kind[e] = "accepted" -> <<{"requester"}, {"receiver"}>>
      [] Kind[e] = "presence" -> <<Recipients>>
      [] OTHER                -> <<{"client"}>>

\* dispatch_event: the sessions an event received from Redis is meant for.
Targets(e) == UNION {Calls(e)[k] : k \in DOMAIN Calls(e)}

VARIABLES
    pc,        \* event -> next step of its publication: "local", "redis", "done"
    call,      \* event -> index of the publication under way
    origin,    \* event -> instance that publishes it
    listener,  \* instance -> loop, connected, listening, backoff or stopped
    subs,      \* instance -> number of subscriptions made
    stream,    \* instance -> envelopes not read yet
    got,       \* instance -> recipient -> events its session received
    hub,       \* instances whose hub still has sessions
    cancelled, \* instances whose shutdown token is cancelled
    faults,
    owed,      \* history: instance -> events its session has yet to hand on
    before     \* history: <<d, e>>: d was published entirely before e began

eventVars == <<pc, call, origin, before>>
redisVars == <<listener, subs, stream, owed>>
vars == <<eventVars, redisVars, got, hub, cancelled, faults>>

Envelopes == [origin : Instances, event : Events]

(***************************************************************************)
(* Type invariant; a listener that is not subscribed has nothing to read.  *)
(***************************************************************************)
TypeOK ==
    /\ pc \in [Events -> {"local", "redis", "done"}]
    /\ call \in [Events -> 1 .. 2]
    /\ origin \in [Events -> Instances]
    /\ listener \in [Instances -> {"loop", "connected", "listening", "backoff", "stopped"}]
    /\ subs \in [Instances -> 0 .. 4]
    /\ \A i \in Instances : listener[i] = "connected" => subs[i] < 4
    /\ stream \in [Instances -> Seq(Envelopes)]
    /\ \A i \in Instances : subs[i] = 0 => stream[i] = <<>>
    /\ got \in [Instances -> [Recipients -> Seq(Events)]]
    /\ owed \in [Instances -> SUBSET Events]
    /\ hub \subseteq Instances
    /\ cancelled \subseteq Instances
    /\ faults \in 0 .. MaxFaults
    /\ before \subseteq Events \X Events

Init ==
    /\ pc = [e \in Events |-> "local"]
    /\ call = [e \in Events |-> 1]
    /\ origin \in Origins
    /\ listener = [i \in Instances |-> "loop"]
    /\ subs = [i \in Instances |-> 0]
    /\ stream = [i \in Instances |-> <<>>]
    /\ owed = [i \in Instances |-> {}]
    /\ got = [i \in Instances |-> [q \in Recipients |-> <<>>]]
    /\ hub = Instances
    /\ cancelled = {}
    /\ faults = 0
    /\ before = {}

\* The hub of instance i hands e to the sessions of the recipients Q.
Broadcast(i, Q, e) ==
    got' = IF i \in hub
           THEN [got EXCEPT ![i] = [q \in Recipients |->
                    IF q \in Q THEN Append(@[q], e) ELSE @[q]]]
           ELSE got

Occurrences(s, e) == Cardinality({k \in DOMAIN s : s[k] = e})

\* How often the session of q on instance i received e.
Copies(i, q, e) == Occurrences(got[i][q], e)

\* Events for which some session on instance i is still waiting.
Awaited(i) == {e \in Events : origin[e] # i /\ \E q \in Targets(e) : Copies(i, q, e) = 0}

-----------------------------------------------------------------------------
(* Publishing.                                                             *)

\* The local hub first.
PublishLocal(e) ==
    /\ pc[e] = "local"
    /\ Broadcast(origin[e], Calls(e)[call[e]], e)
    /\ pc' = [pc EXCEPT ![e] = "redis"]
    /\ before' = IF call[e] = 1
                 THEN before \cup {<<d, e>> : d \in {x \in Events : pc[x] = "done"}}
                 ELSE before
    /\ UNCHANGED <<call, origin, redisVars, hub, cancelled, faults>>

\* The call returns: the next publication of the handler, or the end.
NextCall(e) ==
    /\ call' = [call EXCEPT ![e] = IF @ < Len(Calls(e)) THEN @ + 1 ELSE @]
    /\ pc' = [pc EXCEPT ![e] = IF call[e] < Len(Calls(e)) THEN "local" ELSE "done"]

\* PUBLISH: every connection subscribed to the topic gets the envelope.
Deliver(e) ==
    LET I == {i \in Instances : subs[i] >= Topic(e)}
    IN  /\ stream' = [i \in Instances |->
                         IF i \in I THEN Append(stream[i], [origin |-> origin[e], event |-> e])
                         ELSE stream[i]]
        /\ owed' = [i \in Instances |-> IF i \in I THEN owed[i] \cup ({e} \cap Awaited(i)) ELSE owed[i]]

PublishRedis(e) ==
    /\ pc[e] = "redis"
    /\ Deliver(e)
    /\ NextCall(e)
    /\ UNCHANGED <<origin, before, listener, subs, got, hub, cancelled, faults>>

\* Mutant: a Redis error ends the handler.
MutPublishFails(e) ==
    /\ pc[e] = "redis"
    /\ faults < MaxFaults
    /\ faults' = faults + 1
    /\ pc' = [pc EXCEPT ![e] = "done"]
    /\ UNCHANGED <<call, origin, before, redisVars, got, hub, cancelled>>

\* No connection or no answer: a warning, and the handler goes on.
PublishFails(e) ==
    /\ pc[e] = "redis"
    /\ faults < MaxFaults
    /\ faults' = faults + 1
    /\ NextCall(e)
    /\ UNCHANGED <<origin, before, redisVars, got, hub, cancelled>>

-----------------------------------------------------------------------------
(* run_pubsub_listener.                                                    *)

Goto(i, label, n, s) ==
    /\ listener' = [listener EXCEPT ![i] = label]
    /\ subs' = [subs EXCEPT ![i] = n]
    /\ stream' = [stream EXCEPT ![i] = s]
    /\ owed' = [owed EXCEPT ![i] = IF n = 0 THEN {} ELSE @]

\* Loop head: get_async_pubsub succeeds.
Connect(i) ==
    /\ listener[i] = "loop"
    /\ i \notin cancelled
    /\ Goto(i, "connected", 0, <<>>)
    /\ UNCHANGED <<eventVars, got, hub, cancelled, faults>>

\* One of the four subscriptions; after the last the stream is read.
Subscribe(i) ==
    /\ listener[i] = "connected"
    /\ Goto(i, IF subs[i] = 3 THEN "listening" ELSE "connected", subs[i] + 1, stream[i])
    /\ UNCHANGED <<eventVars, got, hub, cancelled, faults>>

\* The connection cannot be made, a subscription fails or the stream ends:
\* what was not read is lost, and the listener backs off.
SessionFails(i) ==
    /\ listener[i] \in {"loop", "connected", "listening"}
    /\ listener[i] = "loop" => i \notin cancelled
    /\ faults < MaxFaults
    /\ faults' = faults + 1
    /\ Goto(i, "backoff", 0, <<>>)
    /\ UNCHANGED <<eventVars, got, hub, cancelled>>

\* The backoff delay is over.
Retry(i) ==
    /\ listener[i] = "backoff"
    /\ Goto(i, "loop", 0, <<>>)
    /\ UNCHANGED <<eventVars, got, hub, cancelled, faults>>

\* Mutant: no echo suppression.
MutReceive(i) ==
    /\ listener[i] = "listening"
    /\ stream[i] # <<>>
    /\ Broadcast(i, Targets(Head(stream[i]).event), Head(stream[i]).event)
    /\ stream' = [stream EXCEPT ![i] = Tail(@)]
    /\ UNCHANGED <<eventVars, listener, subs, owed, hub, cancelled, faults>>

\* Mutant: a task is spawned for every envelope, and any of them runs first.
MutReceiveAny(i) ==
    /\ listener[i] = "listening"
    /\ \E k \in DOMAIN stream[i] :
          /\ LET m == stream[i][k] IN
                 IF m.origin = i THEN UNCHANGED got
                 ELSE Broadcast(i, Targets(m.event), m.event)
          /\ stream' = [stream EXCEPT ![i] = SubSeq(@, 1, k - 1) \o SubSeq(@, k + 1, Len(@))]
    /\ UNCHANGED <<eventVars, listener, subs, owed, hub, cancelled, faults>>

\* Mutant: dispatch_event serves one of the two users of ThreadAccepted.
MutReceiveOne(i) ==
    /\ listener[i] = "listening"
    /\ stream[i] # <<>>
    /\ LET m == Head(stream[i]) IN
           IF m.origin = i THEN UNCHANGED got ELSE Broadcast(i, Calls(m.event)[1], m.event)
    /\ stream' = [stream EXCEPT ![i] = Tail(@)]
    /\ UNCHANGED <<eventVars, listener, subs, hub, cancelled, faults>>
    /\ owed' = [owed EXCEPT ![i] = @ \cap Awaited(i)']

\* The next envelope: dropped when it is this instance's own, dispatched
\* otherwise.
Receive(i) ==
    /\ listener[i] = "listening"
    /\ stream[i] # <<>>
    /\ LET m == Head(stream[i]) IN
           IF m.origin = i THEN UNCHANGED got ELSE Broadcast(i, Targets(m.event), m.event)
    /\ stream' = [stream EXCEPT ![i] = Tail(@)]
    /\ UNCHANGED <<eventVars, listener, subs, hub, cancelled, faults>>
    /\ owed' = [owed EXCEPT ![i] = @ \cap Awaited(i)']

\* Mutant: the token is not selected on while reading.
MutStop(i) ==
    /\ i \in cancelled
    /\ listener[i] \in {"loop", "backoff"}
    /\ Goto(i, "stopped", 0, <<>>)
    /\ UNCHANGED <<eventVars, got, hub, cancelled, faults>>

\* The token is seen at the loop head, while reading and while backing off,
\* not while connecting or subscribing.
Stop(i) ==
    /\ i \in cancelled
    /\ listener[i] \in {"loop", "listening", "backoff"}
    /\ Goto(i, "stopped", 0, <<>>)
    /\ UNCHANGED <<eventVars, got, hub, cancelled, faults>>

-----------------------------------------------------------------------------
\* AppState::shutdown: the token, then the hub.
Cancel(i) ==
    /\ i \notin cancelled
    /\ cancelled' = cancelled \cup {i}
    /\ UNCHANGED <<eventVars, redisVars, got, hub, faults>>

ShutdownHub(i) ==
    /\ i \in cancelled \cap hub
    /\ hub' = hub \ {i}
    /\ UNCHANGED <<eventVars, redisVars, got, cancelled, faults>>

Publish(e) == PublishLocal(e) \/ PublishRedis(e) \/ PublishFails(e)

Listen(i) == Connect(i) \/ Subscribe(i) \/ Retry(i) \/ Receive(i) \/ Stop(i)

Next ==
    \/ \E e \in Events : Publish(e)
    \/ \E i \in Instances : Listen(i) \/ SessionFails(i) \/ Cancel(i) \/ ShutdownHub(i)

Spec == Init /\ [][Next]_vars

\* Listeners are tokio tasks that run when they can; the token wins the
\* select! eventually even when envelopes keep coming.  Publishers owe nothing.
FairSpec ==
    /\ Spec
    /\ \A i \in Instances : WF_vars(Listen(i)) /\ WF_vars(Stop(i)) /\ WF_vars(ShutdownHub(i))

-----------------------------------------------------------------------------
(***************************************************************************)
(* "..._event_once": an event reaches the sessions it is for, and no       *)
(* others, once on the instance that publishes it and at most once per     *)
(* publication elsewhere, whatever is interleaved, lost or reconnected     *)
(* (echo suppression).  ThreadAccepted has two publications, and each is   *)
(* dispatched to both users on the other instances.                        *)
(***************************************************************************)
AtMostOnce ==
    \A i \in Instances, e \in Events, q \in Recipients :
        /\ q \notin Targets(e) => Copies(i, q, e) = 0
        /\ i = origin[e] => Copies(i, q, e) <= 1
        /\ Copies(i, q, e) <= Len(Calls(e))

(***************************************************************************)
(* Redis decides nothing about local delivery: an event whose handler is   *)
(* done reached each of its recipients on its own instance exactly once,   *)
(* although Redis may have failed at any point (unless the instance is     *)
(* shutting down).                                                         *)
(***************************************************************************)
LocalDelivery ==
    \A e \in Events : pc[e] = "done" /\ origin[e] \in hub =>
        \A q \in Targets(e) : Copies(origin[e], q, e) = 1

(***************************************************************************)
(* An event published entirely before another one (a message and the edit  *)
(* its author sends after the answer) is never seen after it.  The one     *)
(* exception is the instance that publishes the later event when the       *)
(* earlier came from elsewhere: its own hub is served before its stream.   *)
(***************************************************************************)
CausalOrder ==
    \A i \in Instances, q \in Recipients :
        \A j, k \in DOMAIN got[i][q] :
            LET d == got[i][q][k]
                e == got[i][q][j]
            IN  <<d, e>> \in before /\ (origin[e] = i => origin[d] = i) => k <= j

(***************************************************************************)
(* Until its instance shuts down the listener always comes back, wherever  *)
(* its session failed (connecting, subscribing or reading), and catches    *)
(* up: whatever the other instances published while it was subscribed has  *)
(* reached every session it is for, both users of a ThreadAccepted         *)
(* included.                                                               *)
(***************************************************************************)
DeliversUntilShutdown ==
    \A i \in Instances :
        []<>(i \in cancelled \/ (listener[i] = "listening" /\ owed[i] = {}))

(***************************************************************************)
(* Once the token is cancelled, the listener that shutdown() waits for     *)
(* stops, whatever it is doing, and the hub is emptied.                    *)
(***************************************************************************)
StopsOnShutdown ==
    \A i \in Instances :
        i \in cancelled ~> listener[i] = "stopped" /\ i \notin hub
=============================================================================
