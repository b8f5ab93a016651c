-------------------------- MODULE RedisKeysProofs ---------------------------
(***************************************************************************)
(* The two Redis keys with a time to live: the presence key of a user and  *)
(* the counter of the rate limiter.                                        *)
(*                                                                         *)
(* The presence key outlives the read timeout, for every TTL longer than   *)
(* the timeout and two heartbeats' processing, and nobody stays online     *)
(* when all devices have gone, for any number of devices and instances.    *)
(*                                                                         *)
(* The counter grants at most twice its limit in a window and denies only  *)
(* for recent use, for every limit, window and number of requests.         *)
(***************************************************************************)
EXTENDS Presence, RateLimiter, FiniteSetTheorems, TLAPS

\* What is taken from one summand is added to the other.
LEMMA TickSum ==
    ASSUME NEW t \in Nat, NEW u \in Nat, NEW n \in Nat, u + 1 >= t
    PROVE  u + (n + 1) >= t + n
  OBVIOUS

\* The last event of a stream is the one that was published last.
LEMMA LastAppended ==
    ASSUME NEW s \in Seq(Statuses), NEW e \in Statuses
    PROVE  /\ Append(s, e) \in Seq(Statuses)
           /\ Append(s, e) # <<>> /\ Append(s, e)[Len(Append(s, e))] = e
  OBVIOUS

USE PresenceAssumption

KeyInv == TypeOK /\ KeyAge

\* Initially no session has sent a heartbeat.
LEMMA InitKey == Init => KeyInv
<1> SUFFICES ASSUME Init PROVE KeyInv
  OBVIOUS
<1>1. <<>> \in Seq(Statuses)
  OBVIOUS
<1>2. TypeOK
  BY <1>1 DEF Init, TypeOK, PCs
<1>3. KeyAge
  BY DEF Init, KeyAge, InLoop, Patience
<1> QED
  BY <1>2, <1>3 DEF KeyInv

\* A step of a session that is not in its read loop: the time of all stays,
\* and the key loses its life only together with the record of heartbeats.
LEMMA OutsideKey ==
    ASSUME TypeOK, KeyAge, NEW c \in Conns, TypeOK',
           pc[c] \notin {"reading", "beat", "beat_ack"},
           pc'[c] \notin {"beat", "beat_ack"},
           \A d \in Conns \ {c} : pc'[d] = pc[d],
           idle' = idle,
           \/ ttl' >= ttl /\ beaten' = beaten
           \/ beaten' = {}
    PROVE  KeyAge'
<1>1. ~InLoop(c) /\ c \notin beaten /\ idle[c] = 0 /\ pc'[c] \notin {"beat", "beat_ack"}
  BY DEF InLoop, KeyAge
<1>2. \A d \in Conns \ {c} : (InLoop(d)' <=> InLoop(d)) /\ Patience(d)' = Patience(d)
  BY DEF InLoop, Patience
<1>3. Patience(c)' \in Nat /\ idle' = idle
  BY DEF Patience
<1>4. \A d \in Conns : (InLoop(d)' => idle'[d] <= Patience(d)') /\ (~InLoop(d)' => idle'[d] = 0)
  <2> TAKE d \in Conns
  <2>1. CASE d = c
    BY <1>1, <1>3, <2>1
  <2>2. CASE d # c
    BY <1>2, <1>3, <2>2 DEF KeyAge
  <2> QED
    BY <2>1, <2>2
<1>5. ASSUME NEW d \in beaten'
      PROVE  /\ InLoop(d)'
             /\ pc'[d] = "beat_ack" => ttl' + idle'[d] >= PRESENCE_TTL
             /\ pc'[d] = "reading" => ttl' + idle'[d] + PROCESSING >= PRESENCE_TTL
             /\ pc'[d] = "beat" =>
                   ttl' + idle'[d] + PROCESSING + HEARTBEAT_TIMEOUT >= PRESENCE_TTL
  <2>1. d \in beaten /\ ttl' >= ttl
    OBVIOUS
  <2>2. d \in Conns /\ d # c /\ pc'[d] = pc[d] /\ InLoop(d)
    BY <1>1, <2>1 DEF TypeOK, KeyAge
  <2>3. /\ ttl \in Nat /\ ttl' \in Nat /\ idle[d] \in Nat
        /\ PRESENCE_TTL \in Nat /\ PROCESSING \in Nat /\ HEARTBEAT_TIMEOUT \in Nat
    BY <2>2 DEF TypeOK
  <2>4. /\ pc[d] = "beat_ack" => ttl + idle[d] >= PRESENCE_TTL
        /\ pc[d] = "reading" => ttl + idle[d] + PROCESSING >= PRESENCE_TTL
        /\ pc[d] = "beat" =>
              ttl + idle[d] + PROCESSING + HEARTBEAT_TIMEOUT >= PRESENCE_TTL
    BY <2>1 DEF KeyAge
  <2> QED
    BY <1>2, <1>3, <2>1, <2>2, <2>3, <2>4
<1> QED
  BY <1>4, <1>5 DEF KeyAge

\* A session waits for its next frame, starts to handle a heartbeat, or ends
\* its read loop: its time starts anew.
LEMMA InLoopKey ==
    ASSUME KeyInv, NEW c \in Conns,
           idle' = [idle EXCEPT ![c] = 0],
           \/ pc[c] = "reading" /\ pc' = [pc EXCEPT ![c] = "beat"] /\ beaten' = beaten
           \/ pc[c] = "reading" /\ c \notin Beaters /\ pc' = pc /\ beaten' = beaten
           \/ pc[c] = "reading" /\ pc' = [pc EXCEPT ![c] = "closing"] /\ beaten' = beaten \ {c}
           \/ pc[c] = "beat_ack" /\ pc' = [pc EXCEPT ![c] = "reading"] /\ beaten' = beaten,
           UNCHANGED <<registered, ttl, inbox, seen, health>>
    PROVE  KeyInv'
<1>1. TypeOK'
  BY DEF KeyInv, TypeOK, PCs
<1>2. idle'[c] = 0 /\ \A d \in Conns \ {c} : idle'[d] = idle[d] /\ pc'[d] = pc[d]
  BY DEF KeyInv, TypeOK
<1>3. \A d \in Conns : (InLoop(d)' => idle'[d] <= Patience(d)') /\ (~InLoop(d)' => idle'[d] = 0)
  BY <1>2 DEF KeyInv, TypeOK, KeyAge, InLoop, Patience
<1>4. ASSUME NEW d \in beaten'
      PROVE  /\ InLoop(d)'
             /\ pc'[d] = "beat_ack" => ttl' + idle'[d] >= PRESENCE_TTL
             /\ pc'[d] = "reading" => ttl' + idle'[d] + PROCESSING >= PRESENCE_TTL
             /\ pc'[d] = "beat" =>
                   ttl' + idle'[d] + PROCESSING + HEARTBEAT_TIMEOUT >= PRESENCE_TTL
  <2>1. d \in Conns /\ d \in beaten /\ d \in Beaters
    BY <1>1 DEF KeyInv, TypeOK
  <2>2. CASE d # c
    BY <1>2, <2>1, <2>2 DEF KeyInv, KeyAge, InLoop
  <2>3. CASE d = c
    <3>1. ttl \in Nat /\ idle[c] \in Nat /\ PRESENCE_TTL \in Nat
          /\ PROCESSING \in Nat /\ HEARTBEAT_TIMEOUT \in Nat
      BY DEF KeyInv, TypeOK
    <3>2. pc[c] = "reading" => idle[c] <= HEARTBEAT_TIMEOUT
      BY DEF KeyInv, KeyAge, InLoop, Patience
    <3>3. pc[c] = "beat_ack" => idle[c] <= PROCESSING
      BY DEF KeyInv, KeyAge, InLoop, Patience
    <3>4. CASE pc[c] = "reading" /\ pc' = [pc EXCEPT ![c] = "beat"]
      <4>1. pc'[c] = "beat"
        BY <3>4 DEF KeyInv, TypeOK
      <4>2. ttl + idle[c] + PROCESSING >= PRESENCE_TTL
        BY <2>1, <2>3, <3>4 DEF KeyInv, KeyAge
      <4>3. ttl' + idle'[c] + PROCESSING + HEARTBEAT_TIMEOUT >= PRESENCE_TTL
        BY <1>2, <3>1, <3>2, <3>4, <4>2
      <4> QED
        BY <2>3, <4>1, <4>3 DEF InLoop
    <3>5. CASE pc[c] = "beat_ack"
      <4>1. pc'[c] = "reading"
        BY <3>5 DEF KeyInv, TypeOK
      <4>2. ttl + idle[c] >= PRESENCE_TTL
        BY <2>1, <2>3, <3>5 DEF KeyInv, KeyAge
      <4>3. ttl' + idle'[c] + PROCESSING >= PRESENCE_TTL
        BY <1>2, <3>1, <3>3, <3>5, <4>2
      <4> QED
        BY <2>3, <4>1, <4>3 DEF InLoop
    <3> QED
      BY <2>1, <2>3, <3>4, <3>5
  <2> QED
    BY <2>2, <2>3
<1> QED
  BY <1>1, <1>3, <1>4 DEF KeyInv, KeyAge

\* SETEX gives the key its whole life.
LEMMA RenewKeyInv ==
    ASSUME KeyInv, NEW c \in Conns, RenewKey(c)
    PROVE  KeyInv'
<1> USE DEF KeyInv
<1>1. /\ pc[c] = "beat" /\ pc' = [pc EXCEPT ![c] = "beat_ack"]
      /\ UNCHANGED <<registered, idle, inbox, seen>>
      /\ \/ ttl' = PRESENCE_TTL /\ beaten' = beaten \cup ({c} \cap Beaters) /\ UNCHANGED health
         \/ ttl' = ttl /\ beaten' = beaten \ {c} /\ health' = "faulted"
  BY DEF RenewKey, Goto, Fails
<1>2. TypeOK'
  BY <1>1 DEF TypeOK, PCs
<1>3. pc'[c] = "beat_ack" /\ \A d \in Conns \ {c} : pc'[d] = pc[d]
  BY <1>1 DEF TypeOK
<1>4. \A d \in Conns : (InLoop(d)' => idle'[d] <= Patience(d)') /\ (~InLoop(d)' => idle'[d] = 0)
  BY <1>1, <1>3 DEF KeyAge, InLoop, Patience
<1>5. ASSUME NEW d \in beaten'
      PROVE  /\ InLoop(d)'
             /\ pc'[d] = "beat_ack" => ttl' + idle'[d] >= PRESENCE_TTL
             /\ pc'[d] = "reading" => ttl' + idle'[d] + PROCESSING >= PRESENCE_TTL
             /\ pc'[d] = "beat" =>
                   ttl' + idle'[d] + PROCESSING + HEARTBEAT_TIMEOUT >= PRESENCE_TTL
  <2>1. d \in Conns /\ idle[d] \in Nat /\ ttl \in 0 .. PRESENCE_TTL
    BY <1>2 DEF TypeOK
  <2>2. CASE ttl' = PRESENCE_TTL /\ beaten' = beaten \cup ({c} \cap Beaters)
    <3>1. InLoop(d)'
      BY <1>3, <2>1, <2>2 DEF InLoop, KeyAge
    <3>2. /\ ttl' + idle'[d] >= PRESENCE_TTL
          /\ ttl' + idle'[d] + PROCESSING >= PRESENCE_TTL
          /\ ttl' + idle'[d] + PROCESSING + HEARTBEAT_TIMEOUT >= PRESENCE_TTL
      BY <1>1, <2>1, <2>2
    <3> QED
      BY <3>1, <3>2
  <2>3. CASE ttl' = ttl /\ beaten' = beaten \ {c}
    <3>1. d \in beaten /\ d # c /\ pc'[d] = pc[d] /\ idle'[d] = idle[d]
      BY <1>1, <1>3, <2>1, <2>3
    <3> QED
      BY <2>3, <3>1 DEF KeyAge, InLoop
  <2> QED
    BY <1>1, <2>2, <2>3
<1> QED
  BY <1>2, <1>4, <1>5 DEF KeyAge

\* What the key loses in a tick is added to the time of every session in its
\* read loop.
LEMMA TickKey ==
    ASSUME KeyInv, Tick
    PROVE  KeyInv'
<1> USE DEF KeyInv
<1>1. UNCHANGED <<registered, pc, inbox, seen, beaten, health>>
  BY DEF Tick
<1>2. /\ ttl \in 0 .. PRESENCE_TTL /\ ttl' \in 0 .. PRESENCE_TTL /\ ttl' + 1 >= ttl
      /\ PRESENCE_TTL \in Nat /\ PROCESSING \in Nat /\ HEARTBEAT_TIMEOUT \in Nat
  BY DEF Tick, TypeOK
<1>3. \A c \in Conns : /\ idle[c] \in Nat
                       /\ InLoop(c) => idle'[c] = idle[c] + 1
                       /\ ~InLoop(c) => idle'[c] = idle[c]
  BY DEF Tick, Waiting, TypeOK
<1>4. idle' \in [Conns -> Nat]
  BY DEF Tick, Waiting, TypeOK
<1>5. TypeOK'
  BY <1>1, <1>2, <1>4 DEF TypeOK
<1>6. \A c \in Conns : (InLoop(c)' <=> InLoop(c)) /\ Patience(c)' = Patience(c)
  BY <1>1 DEF InLoop, Patience
<1>7. \A c \in Conns : Patience(c) \in Nat
  BY <1>2 DEF Patience
<1>8. \A c \in Conns : InLoop(c) => idle[c] < Patience(c)
  BY DEF Tick, Punctual
<1>9. \A c \in Conns : (InLoop(c)' => idle'[c] <= Patience(c)') /\ (~InLoop(c)' => idle'[c] = 0)
  <2> TAKE c \in Conns
  <2>1. CASE InLoop(c)
    BY <1>3, <1>6, <1>7, <1>8, <2>1
  <2>2. CASE ~InLoop(c)
    <3>1. idle[c] = 0
      BY <2>2 DEF KeyAge
    <3> QED
      BY <1>3, <1>6, <2>2, <3>1
  <2> QED
    BY <2>1, <2>2
<1>10. /\ ttl \in Nat /\ ttl' \in Nat
       /\ PRESENCE_TTL \in Nat /\ PROCESSING \in Nat /\ HEARTBEAT_TIMEOUT \in Nat
  BY <1>2
<1>11. \A n \in Nat : ttl' + (n + 1) >= ttl + n
  BY <1>2, <1>10, TickSum
<1>12. \A c \in beaten' :
          /\ InLoop(c)'
          /\ pc'[c] = "beat_ack" => ttl' + idle'[c] >= PRESENCE_TTL
          /\ pc'[c] = "reading" => ttl' + idle'[c] + PROCESSING >= PRESENCE_TTL
          /\ pc'[c] = "beat" =>
                ttl' + idle'[c] + PROCESSING + HEARTBEAT_TIMEOUT >= PRESENCE_TTL
  <2> TAKE c \in beaten'
  <2>1. c \in Conns /\ c \in beaten /\ InLoop(c)
    BY <1>1, <1>5 DEF TypeOK, KeyAge
  <2>2. idle'[c] = idle[c] + 1 /\ idle[c] \in Nat
    BY <1>3, <2>1
  <2>3. /\ pc[c] = "beat_ack" => ttl + idle[c] >= PRESENCE_TTL
        /\ pc[c] = "reading" => ttl + idle[c] + PROCESSING >= PRESENCE_TTL
        /\ pc[c] = "beat" =>
              ttl + idle[c] + PROCESSING + HEARTBEAT_TIMEOUT >= PRESENCE_TTL
    BY <2>1 DEF KeyAge
  <2>4. pc'[c] = pc[c]
    BY <1>1
  <2>5. InLoop(c)'
    BY <1>6, <2>1
  <2>6. PICK n \in Nat : n = idle[c]
    BY <2>2
  <2>7. idle'[c] = n + 1 /\ ttl' + (n + 1) >= ttl + n
    BY <1>11, <2>2, <2>6
  <2> QED
    BY <1>10, <2>3, <2>4, <2>5, <2>6, <2>7
<1> QED
  BY <1>5, <1>9, <1>12 DEF KeyAge

\* A session's own step keeps the type and the key's age.
LEMMA SessionKey ==
    ASSUME KeyInv, NEW c \in Conns, Session(c)
    PROVE  KeyInv'
<1> USE DEF KeyInv, Goto, Fails, PCs
<1>1. CASE SetOnline(c)
  <2>1. TypeOK'
    BY <1>1 DEF SetOnline, TypeOK
  <2>2. /\ pc[c] = "set" /\ pc'[c] = "online" /\ \A d \in Conns \ {c} : pc'[d] = pc[d]
        /\ idle' = idle /\ beaten' = beaten /\ ttl' >= ttl
    BY <1>1 DEF SetOnline, TypeOK
  <2> QED
    BY <2>1, <2>2, OutsideKey
<1>2. ASSUME NEW at \in PCs, NEW next \in PCs, NEW status \in Statuses,
             at \notin {"reading", "beat", "beat_ack"}, next \notin {"beat", "beat_ack"},
             PublishLocal(c, at, status, next)
      PROVE  KeyInv'
  <2>1. TypeOK'
    BY <1>2 DEF PublishLocal, TypeOK
  <2>2. /\ pc[c] = at /\ pc'[c] = next /\ \A d \in Conns \ {c} : pc'[d] = pc[d]
        /\ idle' = idle /\ beaten' = beaten /\ ttl' >= ttl
    BY <1>2 DEF PublishLocal, TypeOK
  <2> QED
    BY <1>2, <2>1, <2>2, OutsideKey
<1>3. ASSUME NEW at \in PCs, NEW next \in PCs, NEW status \in Statuses,
             at \notin {"reading", "beat", "beat_ack"}, next \notin {"beat", "beat_ack"},
             PublishRemote(c, at, status, next)
      PROVE  KeyInv'
  <2>1. inbox' \in [Instances -> Seq(Statuses)]
    <3>1. \A i \in Instances : inbox[i] \in Seq(Statuses)
      BY DEF TypeOK
    <3>2. \A i \in Instances : Append(inbox[i], status) \in Seq(Statuses)
      BY <1>3, <3>1, LastAppended
    <3>3. CASE inbox' = inbox
      BY <3>3 DEF TypeOK
    <3>4. CASE inbox' = [i \in Instances |-> IF i = InstanceOf[c] THEN inbox[i]
                                             ELSE Append(inbox[i], status)]
      BY <3>1, <3>2, <3>4
    <3> QED
      BY <1>3, <3>3, <3>4 DEF PublishRemote
  <2>2. pc' \in [Conns -> PCs] /\ idle' = idle
    BY <1>3 DEF PublishRemote, TypeOK
  <2>3. TypeOK'
    BY <1>3, <2>1, <2>2 DEF PublishRemote, TypeOK
  <2>4. /\ pc[c] = at /\ pc'[c] = next /\ \A d \in Conns \ {c} : pc'[d] = pc[d]
        /\ idle' = idle /\ beaten' = beaten /\ ttl' >= ttl
    BY <1>3 DEF PublishRemote, TypeOK
  <2> QED
    BY <1>3, <2>3, <2>4, OutsideKey
<1>4. CASE Unregister(c)
  <2>1. TypeOK'
    BY <1>4 DEF Unregister, TypeOK
  <2>2. /\ pc[c] = "closing" /\ pc'[c] \in {"clear", "done"}
        /\ \A d \in Conns \ {c} : pc'[d] = pc[d]
        /\ idle' = idle /\ beaten' = beaten /\ ttl' >= ttl
    BY <1>4 DEF Unregister, TypeOK
  <2> QED
    BY <2>1, <2>2, OutsideKey
<1>5. CASE ClearKey(c)
  <2>1. TypeOK'
    BY <1>5 DEF ClearKey, TypeOK
  <2>2. /\ pc[c] = "clear" /\ pc'[c] = "offline" /\ \A d \in Conns \ {c} : pc'[d] = pc[d]
        /\ idle' = idle
        /\ (ttl' >= ttl /\ beaten' = beaten) \/ beaten' = {}
    BY <1>5 DEF ClearKey, TypeOK
  <2> QED
    BY <2>1, <2>2, OutsideKey
<1>6. CASE AnnounceOnline(c)
  BY <1>2, <1>3, <1>6 DEF AnnounceOnline, Statuses
<1>7. CASE AnnounceOffline(c)
  BY <1>2, <1>3, <1>7 DEF AnnounceOffline, Statuses
<1>8. CASE RenewKey(c)
  BY <1>8, RenewKeyInv
<1>9. CASE HeartbeatAck(c)
  BY <1>9, InLoopKey DEF HeartbeatAck, TypeOK
<1> QED
  BY <1>1, <1>4, <1>5, <1>6, <1>7, <1>8, <1>9 DEF Session

\* Every step keeps the key's age within the time of the sessions.
LEMMA NextKey == KeyInv /\ [Next]_vars => KeyInv'
<1> SUFFICES ASSUME KeyInv, [Next]_vars PROVE KeyInv'
  OBVIOUS
<1> USE DEF KeyInv, Goto, Fails, PCs
<1>1. ASSUME NEW c \in Conns, Register(c) PROVE KeyInv'
  <2>1. TypeOK'
    BY <1>1 DEF Register, TypeOK
  <2>2. /\ pc[c] = "none" /\ pc'[c] \in {"set", "reading"}
        /\ \A d \in Conns \ {c} : pc'[d] = pc[d]
        /\ idle' = idle /\ beaten' = beaten /\ ttl' >= ttl
    BY <1>1 DEF Register, TypeOK
  <2> QED
    BY <2>1, <2>2, OutsideKey
<1>2. ASSUME NEW c \in Conns, Heartbeat(c) PROVE KeyInv'
  BY <1>2, InLoopKey DEF Heartbeat, TypeOK
<1>3. ASSUME NEW c \in Conns, OtherFrame(c) PROVE KeyInv'
  BY <1>3, InLoopKey DEF OtherFrame, TypeOK
<1>4. ASSUME NEW c \in Conns, StopReading(c) PROVE KeyInv'
  BY <1>4, InLoopKey DEF StopReading, TypeOK
<1>5. ASSUME NEW i \in Instances, Deliver(i) PROVE KeyInv'
  <2>1. Head(inbox[i]) \in Statuses /\ Tail(inbox[i]) \in Seq(Statuses)
    BY <1>5 DEF Deliver, TypeOK
  <2>2. TypeOK'
    BY <1>5, <2>1 DEF Deliver, TypeOK
  <2> QED
    BY <1>5, <2>2 DEF Deliver, KeyAge, InLoop, Patience
<1>6. ASSUME NEW i \in Instances, ShutdownAll(i) PROVE KeyInv'
  BY <1>6 DEF ShutdownAll, TypeOK, KeyAge, InLoop, Patience
<1>7. ASSUME NEW i \in Instances, Stop(i) PROVE KeyInv'
  <2>1. TypeOK'
    BY <1>7 DEF Stop, TypeOK, Statuses
  <2>2. KeyAge'
    BY <1>7 DEF Stop, TypeOK, KeyAge, InLoop, Patience
  <2> QED
    BY <2>1, <2>2
<1>8. CASE Tick
  BY <1>8, TickKey
<1>9. CASE UNCHANGED vars
  BY <1>9 DEF vars, TypeOK, KeyAge, InLoop, Patience
<1> QED
  BY <1>1, <1>2, <1>3, <1>4, <1>5, <1>6, <1>7, <1>8, <1>9, SessionKey DEF Next

\* The key of a connected client that sends heartbeats does not expire
\* between two of them.
THEOREM KeyLife == Spec => []KeyOutlivesTimeout
<1>1. KeyInv => KeyOutlivesTimeout
  BY DEF KeyInv, TypeOK, KeyAge, KeyOutlivesTimeout, InLoop, Patience
<1> QED
  BY <1>1, InitKey, NextKey, PTL DEF Spec

-----------------------------------------------------------------------------
(* Nobody stays online.                                                    *)

\* A session that has begun and not unregistered is in the hub of its
\* instance, and so are only those of that instance.
HubSupport ==
    /\ \A i \in Instances : \A c \in registered[i] : InstanceOf[c] = i
    /\ \A c \in Conns :
          pc[c] \in {"set", "online", "online_remote", "reading", "beat", "beat_ack", "closing"} =>
              Connected(c)

\* The key has a session that will delete it.
KeyDue == ttl > 0 => \E c \in Conns : Connected(c) \/ pc[c] = "clear"

\* An OFFLINE is to come for the clients of instance i, from another
\* instance or from a session of its own.
RemoteDue(i) ==
    \E c \in Conns :
        InstanceOf[c] # i /\ (Connected(c) \/ pc[c] \in {"clear", "offline", "offline_remote"})

LocalDue(i) ==
    \E c \in Conns : InstanceOf[c] = i /\ (Connected(c) \/ pc[c] \in {"clear", "offline"})

\* An ONLINE that is the last event of its instance has an OFFLINE to come.
EventsDue ==
    \A i \in Instances :
        /\ inbox[i] # <<>> /\ inbox[i][Len(inbox[i])] = "ONLINE" => RemoteDue(i)
        /\ inbox[i] = <<>> /\ seen[i] = "ONLINE" => RemoteDue(i) \/ LocalDue(i)

\* As long as no instance stopped and no call failed.
GhostInv == health = "sound" => HubSupport /\ KeyDue /\ EventsDue

\* What is due stays due while nobody unregisters or goes offline.
LEMMA DueStays ==
    ASSUME \A c \in Conns : Connected(c) => Connected(c)',
           \A c \in Conns : pc[c] \in {"clear", "offline", "offline_remote"} => pc'[c] = pc[c]
    PROVE  /\ (\E c \in Conns : Connected(c) \/ pc[c] = "clear") =>
                  \E c \in Conns : Connected(c)' \/ pc'[c] = "clear"
           /\ \A i \in Instances : RemoteDue(i) => RemoteDue(i)'
           /\ \A i \in Instances : LocalDue(i) => LocalDue(i)'
  BY DEF RemoteDue, LocalDue, Connected

\* A session registers: it is in the hub from now on.
LEMMA RegisterGhost ==
    ASSUME TypeOK, HubSupport, KeyDue, EventsDue, NEW c \in Conns, Register(c)
    PROVE  HubSupport' /\ KeyDue' /\ EventsDue'
<1>1. /\ \A d \in Conns : Connected(d) => Connected(d)'
      /\ Connected(c)'
  BY DEF Register, Connected, TypeOK
<1>2. /\ pc'[c] \in {"set", "reading"} /\ pc[c] = "none"
      /\ \A d \in Conns \ {c} : pc'[d] = pc[d]
  BY DEF Register, Goto, TypeOK
<1>3. HubSupport'
  <2>1. \A i \in Instances : \A d \in registered'[i] : InstanceOf[d] = i
    BY DEF Register, HubSupport, TypeOK
  <2>2. \A d \in Conns :
            pc'[d] \in {"set", "online", "online_remote", "reading", "beat", "beat_ack", "closing"} =>
                Connected(d)'
    BY <1>1, <1>2 DEF HubSupport
  <2> QED
    BY <2>1, <2>2 DEF HubSupport
<1>4. UNCHANGED <<ttl, inbox, seen>>
  BY DEF Register
<1>5. KeyDue'
  BY <1>1, <1>2, <1>4, DueStays DEF KeyDue
<1>6. EventsDue'
  BY <1>1, <1>2, <1>4, DueStays DEF EventsDue
<1> QED
  BY <1>3, <1>5, <1>6

\* A session in the hub stays there: it sets the key, announces ONLINE,
\* reads or stops to read.
LEMMA OnlineGhost ==
    ASSUME TypeOK, HubSupport, KeyDue, EventsDue, NEW c \in Conns, Connected(c),
           UNCHANGED registered,
           pc[c] \notin {"clear", "offline", "offline_remote"},
           \A d \in Conns \ {c} : pc'[d] = pc[d],
           pc'[c] \in {"online", "online_remote", "reading", "beat", "beat_ack", "closing"},
           \/ UNCHANGED <<inbox, seen>>
           \/ seen' = [seen EXCEPT ![InstanceOf[c]] = "ONLINE"] /\ UNCHANGED inbox
           \/ /\ inbox' = [i \in Instances |-> IF i = InstanceOf[c] THEN inbox[i]
                                               ELSE Append(inbox[i], "ONLINE")]
              /\ UNCHANGED seen
    PROVE  HubSupport' /\ KeyDue' /\ EventsDue'
<1>1. \A d \in Conns : Connected(d)' <=> Connected(d)
  BY DEF Connected
<1>2. HubSupport'
  BY <1>1 DEF HubSupport
<1>3. KeyDue'
  BY <1>1 DEF KeyDue
<1>4. \A i \in Instances : /\ RemoteDue(i) => RemoteDue(i)'
                           /\ LocalDue(i) => LocalDue(i)'
  BY <1>1, DueStays
<1>5. \A i \in Instances : /\ i = InstanceOf[c] => LocalDue(i)'
                           /\ i # InstanceOf[c] => RemoteDue(i)'
  BY <1>1 DEF LocalDue, RemoteDue
<1>6. EventsDue'
  <2> SUFFICES ASSUME NEW i \in Instances
               PROVE  /\ inbox'[i] # <<>> /\ inbox'[i][Len(inbox'[i])] = "ONLINE" => RemoteDue(i)'
                      /\ inbox'[i] = <<>> /\ seen'[i] = "ONLINE" => RemoteDue(i)' \/ LocalDue(i)'
    BY DEF EventsDue
  <2>1. CASE i # InstanceOf[c]
    BY <1>5, <2>1
  <2>2. CASE i = InstanceOf[c]
    <3>1. inbox'[i] = inbox[i]
      BY <2>2 DEF TypeOK
    <3> QED
      BY <1>4, <1>5, <2>2, <3>1 DEF EventsDue
  <2> QED
    BY <2>1, <2>2
<1> QED
  BY <1>2, <1>3, <1>6

\* The session that leaves the hub empty has it all to undo.
LEMMA UnregisterGhost ==
    ASSUME TypeOK, HubSupport, KeyDue, EventsDue, NEW c \in Conns, Unregister(c)
    PROVE  HubSupport' /\ KeyDue' /\ EventsDue'
<1>1. PICK j \in Instances : j = InstanceOf[c]
  OBVIOUS
<1>2. /\ pc[c] = "closing" /\ c \in registered[j]
      /\ registered'[j] = registered[j] \ {c}
      /\ \A i \in Instances \ {j} : registered'[i] = registered[i]
      /\ pc'[c] \in {"clear", "done"}
      /\ registered[j] = {c} => pc'[c] = "clear"
      /\ \A d \in Conns \ {c} : pc'[d] = pc[d]
      /\ UNCHANGED <<ttl, inbox, seen>>
  BY <1>1 DEF Unregister, Goto, TypeOK, HubSupport, Connected
<1>3. \A d \in Conns \ {c} : Connected(d)' <=> Connected(d)
  <2> TAKE d \in Conns \ {c}
  <2>1. CASE InstanceOf[d] = j
    BY <1>2, <2>1 DEF Connected
  <2>2. CASE InstanceOf[d] # j
    BY <1>2, <2>2 DEF Connected
  <2> QED
    BY <2>1, <2>2
<1>4. PICK d \in Conns : InstanceOf[d] = j /\ (Connected(d)' \/ pc'[d] = "clear")
  <2>1. CASE registered[j] = {c}
    BY <1>1, <1>2, <2>1
  <2>2. CASE registered[j] # {c}
    <3>1. PICK d \in registered[j] : d # c
      BY <1>2, <2>2
    <3>2. d \in Conns /\ InstanceOf[d] = j
      BY <3>1 DEF HubSupport, TypeOK
    <3>3. Connected(d)'
      BY <1>3, <3>1, <3>2 DEF Connected
    <3> QED
      BY <3>2, <3>3
  <2> QED
    BY <2>1, <2>2
<1>5. HubSupport'
  <2>1. \A i \in Instances : \A e \in registered'[i] : InstanceOf[e] = i
    <3> TAKE i \in Instances
    <3>1. registered'[i] \subseteq registered[i]
      BY <1>2
    <3> QED
      BY <3>1 DEF HubSupport
  <2>2. \A e \in Conns :
            pc'[e] \in {"set", "online", "online_remote", "reading", "beat", "beat_ack", "closing"} =>
                Connected(e)'
    BY <1>2, <1>3 DEF HubSupport
  <2> QED
    BY <2>1, <2>2 DEF HubSupport
<1>6. KeyDue'
  BY <1>4 DEF KeyDue
<1>7. ASSUME NEW i \in Instances
      PROVE  /\ RemoteDue(i) => RemoteDue(i)'
             /\ LocalDue(i) => LocalDue(i)'
  <2>1. ASSUME NEW e \in Conns, e # c
        PROVE  (Connected(e) => Connected(e)') /\ pc'[e] = pc[e]
    BY <1>2, <1>3, <2>1
  <2>2. CASE i = j
    <3>1. LocalDue(i)'
      BY <1>4, <2>2 DEF LocalDue
    <3>2. RemoteDue(i) => RemoteDue(i)'
      BY <1>1, <2>1, <2>2 DEF RemoteDue
    <3> QED
      BY <3>1, <3>2
  <2>3. CASE i # j
    <3>1. RemoteDue(i)'
      BY <1>4, <2>3 DEF RemoteDue
    <3>2. LocalDue(i) => LocalDue(i)'
      BY <1>1, <2>1, <2>3 DEF LocalDue
    <3> QED
      BY <3>1, <3>2
  <2> QED
    BY <2>2, <2>3
<1>8. EventsDue'
  BY <1>2, <1>7 DEF EventsDue
<1> QED
  BY <1>5, <1>6, <1>8

\* It deletes the key and announces OFFLINE.
LEMMA OfflineGhost ==
    ASSUME TypeOK, HubSupport, KeyDue, EventsDue, NEW c \in Conns, UNCHANGED registered,
           \A d \in Conns \ {c} : pc'[d] = pc[d],
           \/ /\ pc[c] = "clear" /\ pc'[c] = "offline" /\ ttl' = 0 /\ UNCHANGED <<inbox, seen>>
           \/ /\ pc[c] = "offline" /\ pc'[c] = "offline_remote"
              /\ seen' = [seen EXCEPT ![InstanceOf[c]] = "OFFLINE"]
              /\ UNCHANGED <<ttl, inbox>>
           \/ /\ pc[c] = "offline_remote" /\ pc'[c] = "done"
              /\ inbox' = [i \in Instances |-> IF i = InstanceOf[c] THEN inbox[i]
                                               ELSE Append(inbox[i], "OFFLINE")]
              /\ UNCHANGED <<ttl, seen>>
    PROVE  HubSupport' /\ KeyDue' /\ EventsDue'
<1>1. \A d \in Conns : Connected(d)' <=> Connected(d)
  BY DEF Connected
<1>2. HubSupport'
  BY <1>1 DEF HubSupport
<1>3. KeyDue'
  <2>1. CASE pc[c] = "clear"
    BY <2>1 DEF KeyDue
  <2>2. CASE pc[c] # "clear"
    <3>1. ttl' = ttl /\ \A d \in Conns : pc[d] = "clear" => pc'[d] = "clear"
      BY <2>2
    <3> QED
      BY <1>1, <3>1 DEF KeyDue
  <2> QED
    BY <2>1, <2>2
<1>4. EventsDue'
  <2> SUFFICES ASSUME NEW i \in Instances
               PROVE  /\ inbox'[i] # <<>> /\ inbox'[i][Len(inbox'[i])] = "ONLINE" => RemoteDue(i)'
                      /\ inbox'[i] = <<>> /\ seen'[i] = "ONLINE" => RemoteDue(i)' \/ LocalDue(i)'
    BY DEF EventsDue
  <2>1. CASE pc[c] = "clear"
    <3>1. /\ RemoteDue(i) => RemoteDue(i)'
          /\ LocalDue(i) => LocalDue(i)'
      BY <1>1, <2>1 DEF RemoteDue, LocalDue
    <3> QED
      BY <2>1, <3>1 DEF EventsDue
  <2>2. CASE pc[c] = "offline"
    <3>1. /\ RemoteDue(i) => RemoteDue(i)'
          /\ i # InstanceOf[c] => (LocalDue(i) => LocalDue(i)')
      BY <1>1, <2>2 DEF RemoteDue, LocalDue
    <3>2. CASE i = InstanceOf[c]
      <4>1. seen'[i] = "OFFLINE" /\ inbox' = inbox
        BY <2>2, <3>2 DEF TypeOK
      <4> QED
        BY <3>1, <4>1 DEF EventsDue
    <3>3. CASE i # InstanceOf[c]
      <4>1. seen'[i] = seen[i] /\ inbox' = inbox
        BY <2>2, <3>3 DEF TypeOK
      <4> QED
        BY <3>1, <3>3, <4>1 DEF EventsDue
    <3> QED
      BY <3>2, <3>3
  <2>3. CASE pc[c] = "offline_remote"
    <3>1. CASE i = InstanceOf[c]
      <4>1. /\ RemoteDue(i) => RemoteDue(i)'
            /\ LocalDue(i) => LocalDue(i)'
        BY <1>1, <2>3, <3>1 DEF RemoteDue, LocalDue
      <4>2. seen'[i] = seen[i] /\ inbox'[i] = inbox[i]
        BY <2>3, <3>1
      <4> QED
        BY <4>1, <4>2 DEF EventsDue
    <3>2. CASE i # InstanceOf[c]
      <4>1. inbox'[i] = Append(inbox[i], "OFFLINE") /\ inbox[i] \in Seq(Statuses)
        BY <2>3, <3>2 DEF TypeOK
      <4>2. inbox'[i] # <<>> /\ inbox'[i][Len(inbox'[i])] = "OFFLINE"
        BY <4>1, LastAppended DEF Statuses
      <4> QED
        BY <4>2
    <3> QED
      BY <3>1, <3>2
  <2> QED
    BY <2>1, <2>2, <2>3
<1> QED
  BY <1>2, <1>3, <1>4

\* An event is delivered: what is due for it is due for what clients see.
LEMMA DeliverGhost ==
    ASSUME TypeOK, HubSupport, KeyDue, EventsDue, NEW j \in Instances, Deliver(j)
    PROVE  HubSupport' /\ KeyDue' /\ EventsDue'
<1>1. UNCHANGED <<registered, pc, ttl>>
  BY DEF Deliver
<1>2. HubSupport' /\ KeyDue'
  BY <1>1 DEF HubSupport, KeyDue, Connected
<1>3. \A i \in Instances : (RemoteDue(i)' <=> RemoteDue(i)) /\ (LocalDue(i)' <=> LocalDue(i))
  BY <1>1 DEF RemoteDue, LocalDue, Connected
<1>4. EventsDue'
  <2> SUFFICES ASSUME NEW i \in Instances
               PROVE  /\ inbox'[i] # <<>> /\ inbox'[i][Len(inbox'[i])] = "ONLINE" => RemoteDue(i)
                      /\ inbox'[i] = <<>> /\ seen'[i] = "ONLINE" => RemoteDue(i) \/ LocalDue(i)
    BY <1>3 DEF EventsDue
  <2>1. CASE i # j
    <3>1. inbox'[i] = inbox[i] /\ seen'[i] = seen[i]
      BY <2>1 DEF Deliver, TypeOK
    <3> QED
      BY <3>1 DEF EventsDue
  <2>2. CASE i = j
    <3> DEFINE s == inbox[j]
    <3>1. s \in Seq(Statuses) /\ s # <<>> /\ inbox'[i] = Tail(s) /\ seen'[i] = Head(s)
      BY <2>2 DEF Deliver, TypeOK
    <3>2. s[Len(s)] = "ONLINE" => RemoteDue(i)
      BY <2>2, <3>1 DEF EventsDue
    <3> HIDE DEF s
    <3>3. Tail(s) # <<>> => Tail(s)[Len(Tail(s))] = s[Len(s)]
      BY <3>1
    <3>4. Tail(s) = <<>> => Head(s) = s[Len(s)]
      <4>1. PICK n \in Nat : n = Len(s)
        BY <3>1
      <4>2. n > 1 => Tail(s) # <<>>
        <5> HAVE n > 1
        <5>1. 1 \in DOMAIN Tail(s)
          BY <3>1, <4>1
        <5>2. DOMAIN <<>> = {}
          OBVIOUS
        <5> QED
          BY <5>1, <5>2
      <4>3. n # 0 /\ Head(s) = s[1]
        BY <3>1, <4>1
      <4> QED
        BY <4>1, <4>2, <4>3
    <3> QED
      BY <3>1, <3>2, <3>3, <3>4
  <2> QED
    BY <2>1, <2>2
<1> QED
  BY <1>2, <1>4

LEMMA GhostNext == TypeOK /\ GhostInv /\ [Next]_vars => GhostInv'
<1> SUFFICES ASSUME TypeOK, GhostInv, [Next]_vars, health' = "sound"
             PROVE  HubSupport' /\ KeyDue' /\ EventsDue'
  BY DEF GhostInv
<1>1. ASSUME health = "sound" PROVE HubSupport /\ KeyDue /\ EventsDue
  BY <1>1 DEF GhostInv
<1>2. ASSUME NEW c \in Conns, Register(c) PROVE HubSupport' /\ KeyDue' /\ EventsDue'
  BY <1>1, <1>2, RegisterGhost DEF Register
<1>3. ASSUME NEW c \in Conns, SetOnline(c) PROVE HubSupport' /\ KeyDue' /\ EventsDue'
  <2>1. /\ health = "sound" /\ pc[c] = "set" /\ pc'[c] = "online"
        /\ UNCHANGED <<registered, inbox, seen>>
        /\ \A d \in Conns \ {c} : pc'[d] = pc[d]
    BY <1>3 DEF SetOnline, Goto, Fails, TypeOK
  <2>2. Connected(c)
    BY <1>1, <2>1 DEF HubSupport
  <2> QED
    BY <1>1, <2>1, <2>2, OnlineGhost
<1>4. ASSUME NEW c \in Conns, AnnounceOnline(c) PROVE HubSupport' /\ KeyDue' /\ EventsDue'
  <2>1. CASE PublishLocal(c, "online", "ONLINE", "online_remote")
    <3>1. /\ health = "sound" /\ pc[c] = "online" /\ pc'[c] = "online_remote"
          /\ UNCHANGED <<registered, inbox>> /\ seen' = [seen EXCEPT ![InstanceOf[c]] = "ONLINE"]
          /\ \A d \in Conns \ {c} : pc'[d] = pc[d]
      BY <2>1 DEF PublishLocal, Goto, TypeOK
    <3>2. Connected(c)
      BY <1>1, <3>1 DEF HubSupport
    <3> QED
      BY <1>1, <3>1, <3>2, OnlineGhost
  <2>2. CASE PublishRemote(c, "online_remote", "ONLINE", "reading")
    <3>1. /\ health = "sound" /\ pc[c] = "online_remote" /\ pc'[c] = "reading"
          /\ UNCHANGED <<registered, seen>>
          /\ inbox' = [i \in Instances |-> IF i = InstanceOf[c] THEN inbox[i]
                                           ELSE Append(inbox[i], "ONLINE")]
          /\ \A d \in Conns \ {c} : pc'[d] = pc[d]
      BY <2>2 DEF PublishRemote, Goto, Fails, TypeOK
    <3>2. Connected(c)
      BY <1>1, <3>1 DEF HubSupport
    <3> QED
      BY <1>1, <3>1, <3>2, OnlineGhost
  <2> QED
    BY <1>4, <2>1, <2>2 DEF AnnounceOnline
<1>5. ASSUME NEW c \in Conns, Heartbeat(c) \/ OtherFrame(c) \/ StopReading(c)
      PROVE  HubSupport' /\ KeyDue' /\ EventsDue'
  <2>1. /\ health = "sound" /\ pc[c] = "reading" /\ pc'[c] \in {"reading", "beat", "closing"}
        /\ UNCHANGED <<registered, inbox, seen>>
        /\ \A d \in Conns \ {c} : pc'[d] = pc[d]
    BY <1>5 DEF Heartbeat, OtherFrame, StopReading, Goto, Fails, TypeOK
  <2>2. Connected(c)
    BY <1>1, <2>1 DEF HubSupport
  <2> QED
    BY <1>1, <2>1, <2>2, OnlineGhost
<1>6. ASSUME NEW c \in Conns, Unregister(c) PROVE HubSupport' /\ KeyDue' /\ EventsDue'
  BY <1>1, <1>6, UnregisterGhost DEF Unregister
<1>7. ASSUME NEW c \in Conns, ClearKey(c) PROVE HubSupport' /\ KeyDue' /\ EventsDue'
  <2>1. /\ health = "sound" /\ pc[c] = "clear" /\ pc'[c] = "offline" /\ ttl' = 0
        /\ UNCHANGED <<registered, inbox, seen>>
        /\ \A d \in Conns \ {c} : pc'[d] = pc[d]
    BY <1>7 DEF ClearKey, Goto, Fails, TypeOK
  <2> QED
    BY <1>1, <2>1, OfflineGhost
<1>8. ASSUME NEW c \in Conns, AnnounceOffline(c) PROVE HubSupport' /\ KeyDue' /\ EventsDue'
  <2>1. CASE PublishLocal(c, "offline", "OFFLINE", "offline_remote")
    <3>1. /\ health = "sound" /\ pc[c] = "offline" /\ pc'[c] = "offline_remote"
          /\ UNCHANGED <<registered, ttl, inbox>>
          /\ seen' = [seen EXCEPT ![InstanceOf[c]] = "OFFLINE"]
          /\ \A d \in Conns \ {c} : pc'[d] = pc[d]
      BY <2>1 DEF PublishLocal, Goto, TypeOK
    <3> QED
      BY <1>1, <3>1, OfflineGhost
  <2>2. CASE PublishRemote(c, "offline_remote", "OFFLINE", "done")
    <3>1. /\ health = "sound" /\ pc[c] = "offline_remote" /\ pc'[c] = "done"
          /\ UNCHANGED <<registered, ttl, seen>>
          /\ inbox' = [i \in Instances |-> IF i = InstanceOf[c] THEN inbox[i]
                                           ELSE Append(inbox[i], "OFFLINE")]
          /\ \A d \in Conns \ {c} : pc'[d] = pc[d]
      BY <2>2 DEF PublishRemote, Goto, Fails, TypeOK
    <3> QED
      BY <1>1, <3>1, OfflineGhost
  <2> QED
    BY <1>8, <2>1, <2>2 DEF AnnounceOffline
<1>9. ASSUME NEW i \in Instances, Deliver(i) PROVE HubSupport' /\ KeyDue' /\ EventsDue'
  BY <1>1, <1>9, DeliverGhost DEF Deliver
<1>10. ASSUME Tick \/ UNCHANGED vars PROVE HubSupport' /\ KeyDue' /\ EventsDue'
  <2>1. /\ health = "sound" /\ UNCHANGED <<registered, pc, inbox, seen>>
        /\ ttl' > 0 => ttl > 0
    BY <1>10 DEF Tick, vars, TypeOK
  <2> QED
    BY <1>1, <2>1 DEF HubSupport, KeyDue, EventsDue, RemoteDue, LocalDue, Connected
<1>11. ASSUME NEW i \in Instances, ShutdownAll(i) \/ Stop(i) PROVE FALSE
  BY <1>11 DEF ShutdownAll, Stop, Fails
<1>12. ASSUME NEW c \in Conns, RenewKey(c) \/ HeartbeatAck(c)
       PROVE  HubSupport' /\ KeyDue' /\ EventsDue'
  <2>1. /\ health = "sound" /\ pc[c] \in {"beat", "beat_ack"}
        /\ pc'[c] \in {"beat_ack", "reading"}
        /\ UNCHANGED <<registered, inbox, seen>>
        /\ \A d \in Conns \ {c} : pc'[d] = pc[d]
    BY <1>12 DEF RenewKey, HeartbeatAck, Goto, Fails, TypeOK
  <2>2. Connected(c)
    BY <1>1, <2>1 DEF HubSupport
  <2> QED
    BY <1>1, <2>1, <2>2, OnlineGhost
<1> QED
  BY <1>2, <1>3, <1>4, <1>5, <1>6, <1>7, <1>8, <1>9, <1>10, <1>11, <1>12 DEF Next, Session

\* Once all is quiet and nobody is connected, the key is gone and no client
\* was last told ONLINE, unless an instance stopped or a Redis call failed.
THEOREM NoGhost == Spec => []NoGhostOnline
<1>1. Init => GhostInv
  <2> SUFFICES ASSUME Init PROVE HubSupport /\ KeyDue /\ EventsDue
    BY DEF GhostInv
  <2>1. HubSupport /\ KeyDue
    BY DEF Init, HubSupport, KeyDue
  <2>2. EventsDue
    BY DEF Init, EventsDue
  <2> QED
    BY <2>1, <2>2
<1>2. KeyInv => TypeOK
  BY DEF KeyInv
<1>3. TypeOK /\ GhostInv => NoGhostOnline
  <2> SUFFICES ASSUME TypeOK, GhostInv, Settled, health = "sound",
                      \A i \in Instances : registered[i] = {}
               PROVE  ttl = 0 /\ \A i \in Instances : seen[i] # "ONLINE"
    BY DEF NoGhostOnline
  <2>1. KeyDue /\ EventsDue
    BY DEF GhostInv
  <2>2. \A c \in Conns : ~Connected(c) /\ pc[c] \notin {"clear", "offline", "offline_remote"}
    BY DEF Connected, Settled
  <2>3. ttl = 0
    BY <2>1, <2>2 DEF KeyDue, TypeOK
  <2>4. \A i \in Instances : ~RemoteDue(i) /\ ~LocalDue(i) /\ inbox[i] = <<>>
    BY <2>2 DEF RemoteDue, LocalDue, Settled
  <2> QED
    BY <2>1, <2>3, <2>4 DEF EventsDue
<1> QED
  BY <1>1, <1>2, <1>3, InitKey, NextKey, GhostNext, PTL DEF Spec

-----------------------------------------------------------------------------
(***************************************************************************)
(* The counter of the rate limiter.                                        *)
(***************************************************************************)

USE RateLimiterAssumption

\* Only the request that created the key sends EXPIRE, and the key is there
\* without an expiry until it does.
ExpireSupport ==
    /\ count = 0 => counter_ttl = 0
    /\ \A r \in Requests : stage[r] = "expire" => count # 0 /\ counter_ttl = 0
    /\ \A q, r \in Requests : stage[q] = "expire" /\ stage[r] = "expire" => q = r

\* No two grants have the same key and the same value of INCR, and those of
\* the key there is now are among its counts.
GrantsDiffer ==
    /\ \A g, h \in granted : g.key = h.key /\ g.n = h.n => g = h
    /\ \A g \in granted : g.key = 0 => g.n <= count

\* Grants of the key before this one leave the window when this one expires.
TwoKeys ==
    \A g \in granted :
        /\ g.key \in {0, 1}
        /\ g.key = 1 /\ counter_ttl > 0 => g.age + counter_ttl >= window_secs

\* The grants of a key whose EXPIRE was in time stay in the window as long
\* as the key.
GrantsKept ==
    ~late => \A k \in 1 .. limit : k <= count =>
        \E g \in granted :
            /\ g.key = 0 /\ g.n = k
            /\ counter_ttl = 0 => g.age = 0
            /\ counter_ttl > 0 => g.age + counter_ttl <= window_secs

LimiterInv == LimiterTypeOK /\ ExpireSupport /\ GrantsDiffer /\ TwoKeys /\ GrantsKept

\* INCR on a key below the limit.
LEMMA IncrCases ==
    ASSUME LimiterInv, NEW r \in Requests, Incr(r)
    PROVE  /\ UNCHANGED <<counter_ttl, faults, lost, late>>
           /\ stage[r] = "incr"
           /\ \/ count > limit /\ count' = count /\ granted' = granted
              \/ count = limit /\ count' = count + 1 /\ granted' = granted
              \/ /\ count < limit /\ count' = count + 1
                 /\ granted' = granted \cup {[key |-> 0, n |-> count + 1, age |-> 0]}
           /\ \/ count = 0 /\ stage' = [stage EXCEPT ![r] = "expire"] /\ UNCHANGED outcome
              \/ count # 0 /\ stage' = [stage EXCEPT ![r] = "idle"]
                 /\ \E o \in {"allowed", "denied"} : outcome' = [outcome EXCEPT ![r] = o]
<1>1. /\ count \in Nat /\ limit \in Nat /\ limit >= 1
  BY DEF LimiterInv, LimiterTypeOK
<1>2. UNCHANGED <<counter_ttl, faults, lost, late>> /\ stage[r] = "incr"
  BY DEF Incr
<1>3. CASE count > limit
  <2>1. count' = count /\ granted' = granted
    BY <1>1, <1>3 DEF Incr
  <2>2. stage' = [stage EXCEPT ![r] = "idle"] /\ outcome' = [outcome EXCEPT ![r] = "denied"]
    BY <1>1, <1>3 DEF Incr, Answer
  <2> QED
    BY <1>1, <1>2, <1>3, <2>1, <2>2
<1>4. CASE count = limit
  <2>1. count' = count + 1 /\ granted' = granted
    BY <1>1, <1>4 DEF Incr
  <2>2. stage' = [stage EXCEPT ![r] = "idle"] /\ outcome' = [outcome EXCEPT ![r] = "denied"]
    BY <1>1, <1>4 DEF Incr, Answer
  <2> QED
    BY <1>1, <1>2, <1>4, <2>1, <2>2
<1>5. CASE count < limit
  <2>1. /\ count' = count + 1
        /\ granted' = granted \cup {[key |-> 0, n |-> count + 1, age |-> 0]}
    BY <1>1, <1>5 DEF Incr, Grant
  <2>2. CASE count = 0
    <3>1. stage' = [stage EXCEPT ![r] = "expire"] /\ outcome' = outcome
      BY <1>1, <1>5, <2>2 DEF Incr
    <3> QED
      BY <1>2, <1>5, <2>1, <2>2, <3>1
  <2>3. CASE count # 0
    <3>1. stage' = [stage EXCEPT ![r] = "idle"] /\ outcome' = [outcome EXCEPT ![r] = "allowed"]
      BY <1>1, <1>5, <2>3 DEF Incr, Answer
    <3> QED
      BY <1>2, <1>5, <2>1, <2>3, <3>1
  <2> QED
    BY <2>2, <2>3
<1> QED
  BY <1>1, <1>3, <1>4, <1>5

\* A counted request, whatever it answers, moves the count, the grant and its
\* own stage together.
LEMMA CountedInv ==
    ASSUME LimiterInv, NEW r \in Requests, stage[r] = "incr",
           UNCHANGED <<counter_ttl, late>>,
           \/ count > limit /\ count' = count /\ granted' = granted
           \/ count = limit /\ count' = count + 1 /\ granted' = granted
           \/ /\ count < limit /\ count' = count + 1
              /\ granted' = granted \cup {[key |-> 0, n |-> count + 1, age |-> 0]},
           \/ count = 0 /\ stage' = [stage EXCEPT ![r] = "expire"]
           \/ stage' = [stage EXCEPT ![r] = "idle"],
           outcome' = outcome \/ \E o \in {"open", "allowed", "denied"} :
                                    outcome' = [outcome EXCEPT ![r] = o],
           faults' \in 0 .. MaxFaults, lost' \in BOOLEAN
    PROVE  LimiterInv'
<1> DEFINE new == [key |-> 0, n |-> count + 1, age |-> 0]
<1>1. /\ count \in 0 .. limit + 1 /\ limit \in Nat /\ limit >= 1
      /\ window_secs \in Nat /\ window_secs >= 1 /\ counter_ttl \in 0 .. window_secs
      /\ stage \in [Requests -> {"idle", "incr", "expire"}]
      /\ outcome \in [Requests -> {"none", "open", "allowed", "denied"}]
      /\ granted \subseteq Grants
  BY DEF LimiterInv, LimiterTypeOK
<1>2. late \in BOOLEAN
  BY DEF LimiterInv, LimiterTypeOK
<1>3. \A g \in granted : g.key \in Nat /\ g.n \in 1 .. limit /\ g.age \in Nat
  BY <1>1 DEF Grants, Ages
<1>4. UNCHANGED <<counter_ttl, late>>
  OBVIOUS
<1>5. \/ count >= limit /\ count' >= count /\ count' \in 0 .. limit + 1 /\ granted' = granted
      \/ count < limit /\ count' = count + 1 /\ granted' = granted \cup {new}
  BY <1>1
<1>6. /\ count' # 0
      /\ \/ count = 0 /\ stage' = [stage EXCEPT ![r] = "expire"]
         \/ stage' = [stage EXCEPT ![r] = "idle"]
  BY <1>1, <1>5
<1>7. LimiterTypeOK'
  <2>1. stage' \in [Requests -> {"idle", "incr", "expire"}]
    BY <1>1, <1>6
  <2>2. outcome' \in [Requests -> {"none", "open", "allowed", "denied"}]
    BY <1>1
  <2>3. count' \in 0 .. limit + 1 /\ granted' \subseteq Grants
    <3>1. count < limit => new \in Grants
      BY <1>1 DEF Grants, Ages
    <3> QED
      BY <1>1, <1>5, <3>1
  <2> QED
    BY <1>1, <1>2, <1>4, <2>1, <2>2, <2>3 DEF LimiterTypeOK
<1>8. ExpireSupport'
  <2> USE DEF LimiterInv, ExpireSupport
  <2>1. \A q \in Requests : stage'[q] = "expire" => (q = r /\ count = 0) \/ (q # r /\ stage[q] = "expire")
    BY <1>1, <1>6
  <2>2. \A q \in Requests : stage'[q] = "expire" => counter_ttl = 0
    BY <2>1
  <2>3. \A p, q \in Requests : stage'[p] = "expire" /\ stage'[q] = "expire" => p = q
    BY <2>1
  <2> QED
    BY <1>4, <1>6, <2>2, <2>3
<1>9. GrantsDiffer'
  <2>1. CASE granted' = granted /\ count' >= count
    BY <1>1, <1>3, <1>5, <2>1 DEF LimiterInv, GrantsDiffer
  <2>2. CASE count' = count + 1 /\ granted' = granted \cup {new}
    <3>1. new.key = 0 /\ new.n = count + 1
      OBVIOUS
    <3> HIDE DEF new
    <3>2. \A g \in granted : g.key = 0 => g.n < new.n
      BY <1>1, <1>3, <3>1 DEF LimiterInv, GrantsDiffer
    <3>3. \A g \in granted : ~(g.key = new.key /\ g.n = new.n)
      BY <1>3, <3>1, <3>2
    <3>4. \A g, h \in granted' : g.key = h.key /\ g.n = h.n => g = h
      BY <2>2, <3>3 DEF LimiterInv, GrantsDiffer
    <3>5. \A g \in granted' : g.key = 0 => g.n <= count'
      BY <1>1, <1>3, <2>2, <3>1, <3>2
    <3> QED
      BY <3>4, <3>5 DEF GrantsDiffer
  <2> QED
    BY <1>5, <2>1, <2>2
<1>10. TwoKeys'
  <2>1. new.key = 0
    OBVIOUS
  <2> HIDE DEF new
  <2> QED
    BY <1>4, <1>5, <2>1 DEF LimiterInv, TwoKeys
<1>11. GrantsKept'
  <2> SUFFICES ASSUME ~late, NEW k \in 1 .. limit, k <= count'
               PROVE  \E g \in granted' :
                          /\ g.key = 0 /\ g.n = k
                          /\ counter_ttl = 0 => g.age = 0
                          /\ counter_ttl > 0 => g.age + counter_ttl <= window_secs
    BY <1>4 DEF GrantsKept
  <2>1. CASE k <= count
    <3>1. PICK g \in granted : /\ g.key = 0 /\ g.n = k
                               /\ counter_ttl = 0 => g.age = 0
                               /\ counter_ttl > 0 => g.age + counter_ttl <= window_secs
      BY <2>1 DEF LimiterInv, GrantsKept
    <3>2. g \in granted'
      BY <1>5
    <3> QED
      BY <3>1, <3>2
  <2>2. CASE k > count
    <3>1. k = count + 1 /\ new \in granted'
      BY <1>1, <1>5, <2>2
    <3>2. new.key = 0 /\ new.n = k /\ new.age = 0
      BY <3>1
    <3> HIDE DEF new
    <3>3. new.age + counter_ttl <= window_secs
      BY <1>1, <3>2
    <3> QED
      BY <3>1, <3>2, <3>3
  <2> QED
    BY <1>1, <2>1, <2>2
<1> QED
  BY <1>7, <1>8, <1>9, <1>10, <1>11 DEF LimiterInv

LEMMA IncrInv ==
    ASSUME LimiterInv, NEW r \in Requests, Incr(r)
    PROVE  LimiterInv'
<1>1. faults' \in 0 .. MaxFaults
  BY IncrCases DEF LimiterInv, LimiterTypeOK
<1>2. lost' \in BOOLEAN
  BY DEF Incr, LimiterInv, LimiterTypeOK
<1>3. /\ stage[r] = "incr" /\ UNCHANGED <<counter_ttl, late>>
      /\ \/ count > limit /\ count' = count /\ granted' = granted
         \/ count = limit /\ count' = count + 1 /\ granted' = granted
         \/ /\ count < limit /\ count' = count + 1
            /\ granted' = granted \cup {[key |-> 0, n |-> count + 1, age |-> 0]}
      /\ \/ count = 0 /\ stage' = [stage EXCEPT ![r] = "expire"]
         \/ stage' = [stage EXCEPT ![r] = "idle"]
      /\ outcome' = outcome \/ \E o \in {"open", "allowed", "denied"} :
                                   outcome' = [outcome EXCEPT ![r] = o]
  BY IncrCases
<1> QED
  BY <1>1, <1>2, <1>3, CountedInv

\* A request whose reply is lost has been counted all the same.
LEMMA ReplyLostInv ==
    ASSUME LimiterInv, NEW r \in Requests, ReplyLost(r)
    PROVE  LimiterInv'
<1>1. /\ count \in Nat /\ limit \in Nat /\ limit >= 1
      /\ faults \in 0 .. MaxFaults /\ MaxFaults \in Nat
  BY DEF LimiterInv, LimiterTypeOK
<1>2. faults' \in 0 .. MaxFaults
  <2>1. faults < MaxFaults /\ faults' = faults + 1
    BY DEF ReplyLost
  <2> QED
    BY <1>1, <2>1
<1>3. lost' \in BOOLEAN
  BY DEF ReplyLost
<1>4. /\ stage[r] = "incr" /\ UNCHANGED <<counter_ttl, late>>
      /\ stage' = [stage EXCEPT ![r] = "idle"]
      /\ outcome' = [outcome EXCEPT ![r] = "open"]
  BY DEF ReplyLost, Answer
<1>5. CASE count > limit
  <2>1. count' = count /\ granted' = granted
    BY <1>1, <1>5 DEF ReplyLost
  <2> QED
    BY <1>2, <1>3, <1>4, <1>5, <2>1, CountedInv
<1>6. CASE count = limit
  <2>1. count' = count + 1 /\ granted' = granted
    BY <1>1, <1>6 DEF ReplyLost
  <2> QED
    BY <1>2, <1>3, <1>4, <1>6, <2>1, CountedInv
<1>7. CASE count < limit
  <2>1. /\ count' = count + 1
        /\ granted' = granted \cup {[key |-> 0, n |-> count + 1, age |-> 0]}
    BY <1>1, <1>7 DEF ReplyLost, Grant
  <2> QED
    BY <1>2, <1>3, <1>4, <1>7, <2>1, CountedInv
<1> QED
  BY <1>1, <1>5, <1>6, <1>7

\* EXPIRE reaches a key that has had none.
LEMMA ExpireInv ==
    ASSUME LimiterInv, NEW r \in Requests, Expire(r)
    PROVE  LimiterInv'
<1>1. /\ stage[r] = "expire" /\ counter_ttl' = window_secs /\ stage' = [stage EXCEPT ![r] = "idle"]
      /\ outcome' = [outcome EXCEPT ![r] = "allowed"]
      /\ UNCHANGED <<count, granted, faults, lost, late>>
  BY DEF Expire, Answer
<1>2. /\ window_secs \in Nat /\ window_secs >= 1
      /\ stage \in [Requests -> {"idle", "incr", "expire"}]
      /\ outcome \in [Requests -> {"none", "open", "allowed", "denied"}]
      /\ \A g \in granted : g.age \in Nat
  BY DEF LimiterInv, LimiterTypeOK, Grants, Ages
<1>3. /\ count # 0 /\ counter_ttl = 0
      /\ \A q \in Requests : stage[q] = "expire" => q = r
  BY <1>1 DEF LimiterInv, ExpireSupport
<1>4. LimiterTypeOK'
  <2>1. /\ stage' \in [Requests -> {"idle", "incr", "expire"}]
        /\ outcome' \in [Requests -> {"none", "open", "allowed", "denied"}]
        /\ counter_ttl' \in 0 .. window_secs
    BY <1>1, <1>2
  <2> QED
    BY <1>1, <2>1 DEF LimiterInv, LimiterTypeOK
<1>5. ExpireSupport'
  <2>1. \A q \in Requests : stage'[q] # "expire"
    BY <1>1, <1>2, <1>3
  <2> QED
    BY <1>1, <1>3, <2>1 DEF ExpireSupport
<1>6. GrantsDiffer'
  BY <1>1 DEF LimiterInv, GrantsDiffer
<1>7. TwoKeys'
  BY <1>1, <1>2 DEF LimiterInv, TwoKeys
<1>8. GrantsKept'
  <2> SUFFICES ASSUME ~late, NEW k \in 1 .. limit, k <= count
               PROVE  \E g \in granted : /\ g.key = 0 /\ g.n = k
                                         /\ g.age + window_secs <= window_secs
    BY <1>1, <1>2 DEF GrantsKept
  <2>1. PICK g \in granted : g.key = 0 /\ g.n = k /\ g.age = 0
    BY <1>3 DEF LimiterInv, GrantsKept
  <2> QED
    BY <1>2, <2>1
<1> QED
  BY <1>4, <1>5, <1>6, <1>7, <1>8 DEF LimiterInv

\* A connection, a failure and a lost EXPIRE change no key.
LEMMA OtherInv ==
    ASSUME LimiterInv, UNCHANGED <<count, counter_ttl, granted, late>>,
           NEW r \in Requests,
           stage' = [stage EXCEPT ![r] = "idle"] \/ stage' = [stage EXCEPT ![r] = "incr"],
           outcome' = outcome \/ \E o \in {"open", "allowed"} : outcome' = [outcome EXCEPT ![r] = o],
           faults' \in 0 .. MaxFaults, lost' \in BOOLEAN
    PROVE  LimiterInv'
<1>1. /\ stage \in [Requests -> {"idle", "incr", "expire"}]
      /\ outcome \in [Requests -> {"none", "open", "allowed", "denied"}]
  BY DEF LimiterInv, LimiterTypeOK
<1>2. LimiterTypeOK'
  <2>1. stage' \in [Requests -> {"idle", "incr", "expire"}]
    BY <1>1
  <2>2. outcome' \in [Requests -> {"none", "open", "allowed", "denied"}]
    BY <1>1
  <2> QED
    BY <2>1, <2>2 DEF LimiterInv, LimiterTypeOK
<1>3. ExpireSupport'
  <2>1. \A q \in Requests : stage'[q] = "expire" => stage[q] = "expire"
    BY <1>1
  <2> QED
    BY <2>1 DEF LimiterInv, ExpireSupport
<1>4. GrantsDiffer' /\ TwoKeys' /\ GrantsKept'
  BY DEF LimiterInv, GrantsDiffer, TwoKeys, GrantsKept
<1> QED
  BY <1>2, <1>3, <1>4 DEF LimiterInv

\* What is a second older, and where it comes from.
LEMMA AgedShape ==
    ASSUME LimiterTypeOK, NEW d \in Nat, granted' = Aged(d)
    PROVE  /\ \A g \in granted' : \E h \in granted :
                  h.age + 1 < window_secs /\ g = [key |-> h.key + d, n |-> h.n, age |-> h.age + 1]
           /\ \A h \in granted : h.age + 1 < window_secs =>
                  [key |-> h.key + d, n |-> h.n, age |-> h.age + 1] \in granted'
           /\ granted' \subseteq Grants
           /\ \A h \in granted : h.key \in Nat /\ h.n \in 1 .. limit /\ h.age \in Nat
<1>1. window_secs \in Nat /\ window_secs >= 1 /\ limit \in Nat
  OBVIOUS
<1>2. \A h \in granted : h.key \in Nat /\ h.n \in 1 .. limit /\ h.age \in Nat
  BY <1>1 DEF LimiterTypeOK, Grants, Ages
<1>3. \A h \in granted : h.age + 1 \in Ages <=> h.age + 1 < window_secs
  BY <1>1, <1>2 DEF Ages
<1>4. \A g \in granted' : \E h \in granted :
          h.age + 1 < window_secs /\ g = [key |-> h.key + d, n |-> h.n, age |-> h.age + 1]
  BY <1>3 DEF Aged
<1>5. \A h \in granted : h.age + 1 < window_secs =>
          [key |-> h.key + d, n |-> h.n, age |-> h.age + 1] \in granted'
  BY <1>3 DEF Aged
<1>6. granted' \subseteq Grants
  <2> SUFFICES ASSUME NEW g \in granted' PROVE g \in Grants
    OBVIOUS
  <2>1. PICK h \in granted :
            h.age + 1 < window_secs /\ g = [key |-> h.key + d, n |-> h.n, age |-> h.age + 1]
    BY <1>4
  <2>2. h.key + d \in Nat /\ h.n \in 1 .. limit /\ h.age + 1 \in Ages
    BY <1>2, <1>3, <2>1
  <2> QED
    BY <2>1, <2>2 DEF Grants
<1> QED
  BY <1>2, <1>4, <1>5, <1>6

\* A second passes.
LEMMA TickInv ==
    ASSUME LimiterInv, Second
    PROVE  LimiterInv'
<1>1. /\ window_secs \in Nat /\ window_secs >= 1 /\ limit \in Nat /\ limit >= 1
      /\ count \in 0 .. limit + 1 /\ counter_ttl \in 0 .. window_secs
  BY DEF LimiterInv, LimiterTypeOK
<1>2. /\ UNCHANGED <<stage, outcome, faults, lost>>
      /\ late' = (count' > 0 /\ (late \/ counter_ttl = 0))
      /\ counter_ttl = 0 => counter_ttl' = 0
      /\ counter_ttl # 0 => counter_ttl' = counter_ttl - 1
      /\ counter_ttl = 1 => count' = 0
      /\ counter_ttl # 1 => count' = count
  BY <1>1 DEF Second
<1>3. PICK d \in {0, 1} : /\ granted' = Aged(d)
                          /\ counter_ttl = 1 <=> d = 1
  BY DEF Second
<1>4. LimiterTypeOK
  BY DEF LimiterInv
<1>5. /\ \A g \in granted' : \E h \in granted :
             h.age + 1 < window_secs /\ g = [key |-> h.key + d, n |-> h.n, age |-> h.age + 1]
      /\ \A h \in granted : h.age + 1 < window_secs =>
             [key |-> h.key + d, n |-> h.n, age |-> h.age + 1] \in granted'
      /\ granted' \subseteq Grants
      /\ \A h \in granted : h.key \in Nat /\ h.n \in 1 .. limit /\ h.age \in Nat
  BY <1>3, <1>4, AgedShape
<1>6. \A g \in granted' : \E h \in granted :
          h.age + 1 < window_secs /\ g.key = h.key + d /\ g.n = h.n /\ g.age = h.age + 1
          /\ g = [key |-> h.key + d, n |-> h.n, age |-> h.age + 1]
  BY <1>5
<1>7. LimiterTypeOK'
  <2>1. late' \in BOOLEAN
    BY <1>2
  <2>2. counter_ttl' \in 0 .. window_secs /\ count' \in 0 .. limit + 1
    BY <1>1, <1>2
  <2> QED
    BY <1>2, <1>4, <1>5, <2>1, <2>2 DEF LimiterTypeOK
<1>8. ExpireSupport'
  BY <1>1, <1>2 DEF LimiterInv, ExpireSupport
<1>9. GrantsDiffer'
  <2>1. ASSUME NEW g \in granted', NEW k \in granted', g.key = k.key, g.n = k.n PROVE g = k
    <3>1. PICK h \in granted : /\ g.key = h.key + d /\ g.n = h.n
                               /\ g = [key |-> h.key + d, n |-> h.n, age |-> h.age + 1]
      BY <1>6
    <3>2. PICK i \in granted : /\ k.key = i.key + d /\ k.n = i.n
                               /\ k = [key |-> i.key + d, n |-> i.n, age |-> i.age + 1]
      BY <1>6
    <3>3. h.key = i.key /\ h.n = i.n
      <4>1. h.key \in Nat /\ i.key \in Nat /\ d \in Nat
        BY <1>5
      <4>2. h.key + d = i.key + d /\ h.n = i.n
        BY <2>1, <3>1, <3>2
      <4> QED
        BY <4>1, <4>2
    <3>4. h = i
      BY <3>3 DEF LimiterInv, GrantsDiffer
    <3> QED
      BY <3>1, <3>2, <3>4
  <2>2. ASSUME NEW g \in granted', g.key = 0 PROVE g.n <= count'
    <3>1. PICK h \in granted : g.key = h.key + d /\ g.n = h.n
      BY <1>6
    <3>2. h.key = 0 /\ d = 0
      BY <1>3, <1>5, <2>2, <3>1
    <3> QED
      BY <1>2, <1>3, <3>1, <3>2 DEF LimiterInv, GrantsDiffer
  <2> QED
    BY <2>1, <2>2 DEF GrantsDiffer
<1>10. TwoKeys'
  <2> SUFFICES ASSUME NEW g \in granted'
               PROVE  /\ g.key \in {0, 1}
                      /\ g.key = 1 /\ counter_ttl' > 0 => g.age + counter_ttl' >= window_secs
    BY DEF TwoKeys
  <2>1. PICK h \in granted :
            h.age + 1 < window_secs /\ g.key = h.key + d /\ g.n = h.n /\ g.age = h.age + 1
    BY <1>6
  <2>2. /\ h.key \in {0, 1} /\ h.age \in Nat
        /\ h.key = 1 /\ counter_ttl > 0 => h.age + counter_ttl >= window_secs
    BY <1>5 DEF LimiterInv, TwoKeys
  <2>3. CASE d = 1
    <3>1. counter_ttl = 1 /\ counter_ttl' = 0
      BY <1>2, <1>3, <2>3
    <3>2. h.key = 0
      BY <1>1, <2>1, <2>2, <3>1
    <3> QED
      BY <2>1, <2>3, <3>1, <3>2
  <2>4. CASE d = 0
    <3>1. g.key = h.key
      BY <2>1, <2>2, <2>4
    <3>2. ASSUME g.key = 1, counter_ttl' > 0 PROVE g.age + counter_ttl' >= window_secs
      <4>1. counter_ttl > 0 /\ counter_ttl' = counter_ttl - 1
        BY <1>1, <1>2, <3>2
      <4> QED
        BY <1>1, <2>1, <2>2, <3>1, <3>2, <4>1
    <3> QED
      BY <2>2, <3>1, <3>2
  <2> QED
    BY <2>3, <2>4
<1>11. GrantsKept'
  <2> SUFFICES ASSUME ~late', NEW k \in 1 .. limit, k <= count'
               PROVE  \E g \in granted' :
                          /\ g.key = 0 /\ g.n = k
                          /\ counter_ttl' = 0 => g.age = 0
                          /\ counter_ttl' > 0 => g.age + counter_ttl' <= window_secs
    BY DEF GrantsKept
  <2>1. count' > 0
    BY <1>1, <1>2
  <2>2. ~late /\ counter_ttl # 0
    BY <1>2, <2>1, Zenon
  <2>3. counter_ttl > 1 /\ count' = count /\ d = 0 /\ counter_ttl' = counter_ttl - 1
    BY <1>1, <1>2, <1>3, <2>1, <2>2
  <2>4. PICK h \in granted : h.key = 0 /\ h.n = k /\ h.age + counter_ttl <= window_secs
    BY <1>1, <2>2, <2>3 DEF LimiterInv, GrantsKept
  <2>5. h.age \in Nat /\ h.age + 1 < window_secs
    BY <1>1, <1>5, <2>3, <2>4
  <2>6. PICK g \in granted' : g = [key |-> h.key + d, n |-> h.n, age |-> h.age + 1]
    BY <1>5, <2>5
  <2>7. g.key = 0 /\ g.n = k /\ g.age = h.age + 1
    BY <2>3, <2>4, <2>6
  <2> QED
    BY <1>1, <2>3, <2>4, <2>5, <2>7
<1> QED
  BY <1>7, <1>8, <1>9, <1>10, <1>11 DEF LimiterInv

LEMMA LimiterStep ==
    ASSUME LimiterInv, [LimiterNext]_limiterVars
    PROVE  LimiterInv'
<1>1. ASSUME NEW r \in Requests, Connect(r) PROVE LimiterInv'
  <2>1. /\ stage' = [stage EXCEPT ![r] = "incr"]
        /\ UNCHANGED <<count, counter_ttl, outcome, granted, late>>
    BY <1>1 DEF Connect
  <2>2. faults' \in 0 .. MaxFaults /\ lost' \in BOOLEAN
    BY <1>1 DEF Connect, LimiterInv, LimiterTypeOK
  <2> QED
    BY <2>1, <2>2, OtherInv
<1>2. ASSUME NEW r \in Requests, FailOpen(r) \/ ExpireFails(r) PROVE LimiterInv'
  <2>1. /\ stage' = [stage EXCEPT ![r] = "idle"]
        /\ \E o \in {"open", "allowed"} : outcome' = [outcome EXCEPT ![r] = o]
        /\ UNCHANGED <<count, counter_ttl, granted, late>>
    BY <1>2 DEF FailOpen, ExpireFails, Answer
  <2>2. faults' \in 0 .. MaxFaults
    <3>1. faults \in 0 .. MaxFaults /\ faults < MaxFaults /\ faults' = faults + 1 /\ MaxFaults \in Nat
      BY <1>2 DEF FailOpen, ExpireFails, LimiterInv, LimiterTypeOK
    <3> QED
      BY <3>1
  <2>3. lost' \in BOOLEAN
    BY <1>2 DEF FailOpen, ExpireFails, LimiterInv, LimiterTypeOK
  <2> QED
    BY <2>1, <2>2, <2>3, OtherInv
<1>3. CASE UNCHANGED limiterVars
  BY <1>3 DEF limiterVars, LimiterInv, LimiterTypeOK, ExpireSupport, GrantsDiffer, TwoKeys, GrantsKept
<1> QED
  BY <1>1, <1>2, <1>3, IncrInv, ReplyLostInv, ExpireInv, TickInv DEF LimiterNext

LEMMA LimiterStart == ASSUME LimiterInit PROVE LimiterInv
<1>1. LimiterTypeOK
  <2>1. lost \in BOOLEAN /\ late \in BOOLEAN
    BY DEF LimiterInit
  <2>2. /\ count \in 0 .. limit + 1 /\ counter_ttl \in 0 .. window_secs
        /\ faults \in 0 .. MaxFaults /\ granted \subseteq Grants
    BY DEF LimiterInit
  <2>3. /\ stage \in [Requests -> {"idle", "incr", "expire"}]
        /\ outcome \in [Requests -> {"none", "open", "allowed", "denied"}]
    BY DEF LimiterInit
  <2> QED
    BY <2>1, <2>2, <2>3 DEF LimiterTypeOK
<1>2. ExpireSupport
  BY DEF LimiterInit, ExpireSupport
<1>3. GrantsDiffer /\ TwoKeys
  BY DEF LimiterInit, GrantsDiffer, TwoKeys
<1>4. GrantsKept
  BY DEF LimiterInit, GrantsKept
<1> QED
  BY <1>1, <1>2, <1>3, <1>4 DEF LimiterInv

\* The inductive invariant of the rate limiter.
THEOREM LimiterInvariance == LimiterSpec => []LimiterInv
<1>1. LimiterInit => LimiterInv
  BY LimiterStart
<1>2. LimiterInv /\ [LimiterNext]_limiterVars => LimiterInv'
  BY LimiterStep
<1> QED
  BY <1>1, <1>2, PTL DEF LimiterSpec

-----------------------------------------------------------------------------
(* Counting: a set with an injection into, or from, an interval.           *)

\* Grants are no more than the values of INCR of two keys.
LEMMA GrantsBounded ==
    ASSUME LimiterInv
    PROVE  IsFiniteSet(granted) /\ Cardinality(granted) <= 2 * limit
<1> DEFINE place == [g \in granted |-> IF g.key = 0 THEN g.n ELSE limit + g.n]
<1>1. limit \in Nat
  OBVIOUS
<1>2. \A g \in granted : g.key \in {0, 1} /\ g.n \in 1 .. limit
  BY DEF LimiterInv, TwoKeys, LimiterTypeOK, Grants
<1>3. \A g \in granted : place[g] \in 1 .. 2 * limit
  BY <1>1, <1>2
<1>4. ASSUME NEW g \in granted, NEW h \in granted, place[g] = place[h] PROVE g = h
  <2>1. g.key = h.key /\ g.n = h.n
    BY <1>1, <1>2, <1>4
  <2> QED
    BY <2>1 DEF LimiterInv, GrantsDiffer
<1>5. place \in Injection(granted, 1 .. 2 * limit)
  BY <1>3, <1>4 DEF Injection, IsInjective
<1>6. IsFiniteSet(1 .. 2 * limit) /\ Cardinality(1 .. 2 * limit) = 2 * limit
  BY <1>1, FS_Interval
<1> QED
  BY <1>5, <1>6, FS_Injection

\* A counter at the limit has a grant for each value.
LEMMA GrantsRecent ==
    ASSUME LimiterInv, count >= limit, ~late
    PROVE  Cardinality(granted) >= limit
<1> DEFINE grant == [k \in 1 .. limit |-> CHOOSE g \in granted : g.n = k]
<1>1. limit \in Nat /\ count \in Nat
  BY DEF LimiterInv, LimiterTypeOK
<1>2. \A k \in 1 .. limit : \E g \in granted : g.n = k
  BY <1>1 DEF LimiterInv, GrantsKept
<1>3. \A k \in 1 .. limit : grant[k] \in granted /\ grant[k].n = k
  BY <1>2
<1>4. grant \in Injection(1 .. limit, granted)
  <2> HIDE DEF grant
  <2>1. \A j, k \in 1 .. limit : grant[j] = grant[k] => j = k
    BY <1>3
  <2>2. grant \in [1 .. limit -> granted]
    BY <1>3 DEF grant
  <2> QED
    BY <2>1, <2>2 DEF Injection, IsInjective
<1>5. Cardinality(1 .. limit) = limit
  BY <1>1, FS_Interval
<1>6. IsFiniteSet(granted)
  BY GrantsBounded
<1>7. Cardinality(1 .. limit) <= Cardinality(granted)
  BY <1>4, <1>6, FS_Injection
<1> QED
  BY <1>5, <1>7

(***************************************************************************)
(* For every limit and every window: never more than twice the limit is    *)
(* granted within window_secs seconds, wherever INCR, EXPIRE and failures  *)
(* fall (RateLimiter::allow).                                              *)
(***************************************************************************)
THEOREM TwiceTheLimit == LimiterSpec => []AtMostTwice
<1>1. LimiterInv => AtMostTwice
  BY GrantsBounded DEF AtMostTwice, InWindow
<1> QED
  BY <1>1, LimiterInvariance, PTL

(***************************************************************************)
(* A client is denied only when the limit was granted to it within the     *)
(* last window_secs seconds, unless the EXPIRE of the key was late.        *)
(***************************************************************************)
THEOREM DenialsAreDue == LimiterSpec => []DeniedForRecentUse
<1>1. LimiterInv => DeniedForRecentUse
  BY GrantsRecent DEF DeniedForRecentUse, InWindow
<1> QED
  BY <1>1, LimiterInvariance, PTL
=============================================================================
