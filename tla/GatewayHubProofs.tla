-------------------------- MODULE GatewayHubProofs --------------------------
(***************************************************************************)
(* Proofs about GatewayHub: its invariant Inv is inductive for any number  *)
(* of connections, users, topics and events.  One lemma per step that does *)
(* something to the hub, one for all the steps that only move a session.   *)
(***************************************************************************)
EXTENDS GatewayHub, TLAPS

\* Inv holds initially: the hub is empty and nothing was published.
LEMMA InitInv == Init => Inv
<1> USE HubAssumption DEF Init, Topics, PCs, Has, AtMostOnce, Outside
<1> SUFFICES ASSUME Init PROVE Inv
  OBVIOUS
<1>1. TypeOK /\ IndexesAgree /\ WorkFits
  BY DEF TypeOK, IndexesAgree, WorkFits
<1>2. RegisteredIsActive /\ NoStaleEntry /\ SubscribersGranted
  BY DEF RegisteredIsActive, NoStaleEntry, SubscribersGranted
<1>3. BroadcastInScope /\ DeliveredInScope /\ AckedIsSubscribed
  BY DEF BroadcastInScope, DeliveredInScope, AckedIsSubscribed
<1> QED
  BY <1>1, <1>2, <1>3 DEF Inv

\* A step that only moves session c, without registering, subscribing or
\* leaving, and takes up no topic it does not fit, keeps Inv.
LEMMA QuietStep ==
    ASSUME Inv, NEW c \in Conns, NEW label \in PCs,
           NEW w \in Topics \cup Events \cup {Nothing},
           pc' = [pc EXCEPT ![c] = label],
           work' = [work EXCEPT ![c] = w],
           waiting' \subseteq Conns \cup {Shutdown},
           UNCHANGED <<hubVars, outbox, loopVars, phase, granted, acked,
                       allowed>>,
           pc[c] # "none",
           label \notin {"none", "subscribe_channel", "subscribe_thread",
                         "ack", "publishing"},
           label = "view_check" => w \in Channels,
           label = "access_check" => w \in Threads,
           label \in {"typing", "typing_allowed"} => w \in Topics,
           label \in {"offline", "done"} => c \notin connections,
           pc[c] \in {"offline", "done"} => label \in {"offline", "done"}
    PROVE  Inv'
<1> USE DEF Inv, hubVars, loopVars
<1>1. TypeOK'
  BY DEF TypeOK
<1>2. IndexesAgree' /\ NoStaleEntry'
  BY DEF IndexesAgree, NoStaleEntry
<1>3. WorkFits'
  BY DEF WorkFits, TypeOK
<1>4. RegisteredIsActive'
  BY DEF RegisteredIsActive, Outside, TypeOK
<1>5. SubscribersGranted'
  BY DEF SubscribersGranted, TypeOK
<1>6. BroadcastInScope' /\ DeliveredInScope'
  BY DEF BroadcastInScope, DeliveredInScope, Has, AtMostOnce
<1>7. AckedIsSubscribed'
  BY DEF AckedIsSubscribed, Has, TypeOK
<1> QED
  BY <1>1, <1>2, <1>3, <1>4, <1>5, <1>6, <1>7

\* Inv is preserved by registration of a new connection.
LEMMA RegisterStep ==
    ASSUME Inv, NEW c \in Conns, Register(c)
    PROVE  Inv'
<1> USE HubAssumption DEF Inv, Topics, hubVars, bcastVars, loopVars, sessionVars,
          Running, Register, Goto, PCs
<1>1. TypeOK'
  <2>1. UserOf[c] \in Users
    OBVIOUS
  <2>2. user_connections' \in [Users -> SUBSET Conns]
    BY <2>1 DEF TypeOK
  <2>3. connections' \subseteq Conns /\ pc' \in [Conns -> PCs]
    BY DEF TypeOK
  <2>4. subscribed_channels' \in [Conns -> SUBSET Channels]
    BY DEF TypeOK
  <2>5. subscribed_threads' \in [Conns -> SUBSET Threads]
    BY DEF TypeOK
  <2> QED
    BY <2>2, <2>3, <2>4, <2>5 DEF TypeOK
<1>2. IndexesAgree'
  BY DEF IndexesAgree, TypeOK, RegisteredIsActive, WorkFits, Outside
<1>3. WorkFits'
  BY DEF WorkFits, TypeOK
<1>4. RegisteredIsActive'
  BY DEF RegisteredIsActive, IndexesAgree, TypeOK, WorkFits, Outside
<1>5. NoStaleEntry'
  BY DEF NoStaleEntry, IndexesAgree, RegisteredIsActive, TypeOK, WorkFits, Outside
<1>6. SubscribersGranted'
  BY DEF SubscribersGranted, WorkFits, TypeOK
<1>7. BroadcastInScope'
  BY DEF BroadcastInScope, SubscribersGranted, IndexesAgree, TypeOK, Has, AtMostOnce
<1>8. DeliveredInScope'
  BY DEF DeliveredInScope, BroadcastInScope, TypeOK, Has
<1>9. AckedIsSubscribed'
  BY DEF AckedIsSubscribed, BroadcastInScope, IndexesAgree, WorkFits, RegisteredIsActive, TypeOK, Outside, Has
<1> QED
  BY <1>1, <1>2, <1>3, <1>4, <1>5, <1>6, <1>7, <1>8, <1>9

\* Inv is preserved by removal of a connection from every index.
LEMMA UnregisterStep ==
    ASSUME Inv, NEW c \in Conns, Unregister(c)
    PROVE  Inv'
<1> USE HubAssumption DEF Inv, Topics, hubVars, bcastVars, loopVars, sessionVars,
          Running, Unregister, Served, Goto, PCs, WithoutChannelSubscriptions, WithoutThreadSubscriptions, WriteLockFree
<1>1. TypeOK'
  BY DEF TypeOK, WorkFits
<1>2. IndexesAgree'
  BY DEF IndexesAgree, TypeOK, RegisteredIsActive, WorkFits, Outside
<1>3. WorkFits'
  BY DEF WorkFits, TypeOK
<1>4. RegisteredIsActive'
  BY DEF RegisteredIsActive, IndexesAgree, TypeOK, WorkFits, Outside
<1>5. NoStaleEntry'
  BY DEF NoStaleEntry, IndexesAgree, RegisteredIsActive, TypeOK, WorkFits, Outside
<1>6. SubscribersGranted'
  BY DEF SubscribersGranted, WorkFits, TypeOK
<1>7. BroadcastInScope'
  BY DEF BroadcastInScope, SubscribersGranted, IndexesAgree, TypeOK, Has, AtMostOnce
<1>8. DeliveredInScope'
  BY DEF DeliveredInScope, BroadcastInScope, TypeOK, Has
<1>9. AckedIsSubscribed'
  BY DEF AckedIsSubscribed, BroadcastInScope, IndexesAgree, WorkFits, RegisteredIsActive, TypeOK, Outside, Has
<1> QED
  BY <1>1, <1>2, <1>3, <1>4, <1>5, <1>6, <1>7, <1>8, <1>9

\* Inv is preserved by subscribing to a channel.
LEMMA SubscribeChannelStep ==
    ASSUME Inv, NEW c \in Conns, SubscribeChannel(c)
    PROVE  Inv'
<1> USE HubAssumption DEF Inv, Topics, hubVars, bcastVars, loopVars, sessionVars,
          Running, SubscribeChannel, Served, Goto, PCs
<1>1. TypeOK'
  BY DEF TypeOK, WorkFits
<1>2. IndexesAgree'
  BY DEF IndexesAgree, TypeOK, RegisteredIsActive, WorkFits, Outside
<1>3. WorkFits'
  BY DEF WorkFits, TypeOK
<1>4. RegisteredIsActive'
  BY DEF RegisteredIsActive, IndexesAgree, TypeOK, WorkFits, Outside
<1>5. NoStaleEntry'
  BY DEF NoStaleEntry, IndexesAgree, RegisteredIsActive, TypeOK, WorkFits, Outside
<1>6. SubscribersGranted'
  BY DEF SubscribersGranted, WorkFits, TypeOK
<1>7. BroadcastInScope'
  BY DEF BroadcastInScope, SubscribersGranted, IndexesAgree, TypeOK, Has, AtMostOnce
<1>8. DeliveredInScope'
  BY DEF DeliveredInScope, BroadcastInScope, TypeOK, Has
<1>9. AckedIsSubscribed'
  BY DEF AckedIsSubscribed, BroadcastInScope, IndexesAgree, WorkFits, RegisteredIsActive, TypeOK, Outside, Has
<1> QED
  BY <1>1, <1>2, <1>3, <1>4, <1>5, <1>6, <1>7, <1>8, <1>9

\* Inv is preserved by subscribing to a thread.
LEMMA SubscribeThreadStep ==
    ASSUME Inv, NEW c \in Conns, SubscribeThread(c)
    PROVE  Inv'
<1> USE HubAssumption DEF Inv, Topics, hubVars, bcastVars, loopVars, sessionVars,
          Running, SubscribeThread, Served, Goto, PCs
<1>1. TypeOK'
  BY DEF TypeOK, WorkFits
<1>2. IndexesAgree'
  BY DEF IndexesAgree, TypeOK, RegisteredIsActive, WorkFits, Outside
<1>3. WorkFits'
  BY DEF WorkFits, TypeOK
<1>4. RegisteredIsActive'
  BY DEF RegisteredIsActive, IndexesAgree, TypeOK, WorkFits, Outside
<1>5. NoStaleEntry'
  BY DEF NoStaleEntry, IndexesAgree, RegisteredIsActive, TypeOK, WorkFits, Outside
<1>6. SubscribersGranted'
  BY DEF SubscribersGranted, WorkFits, TypeOK
<1>7. BroadcastInScope'
  BY DEF BroadcastInScope, SubscribersGranted, IndexesAgree, TypeOK, Has, AtMostOnce
<1>8. DeliveredInScope'
  BY DEF DeliveredInScope, BroadcastInScope, TypeOK, Has
<1>9. AckedIsSubscribed'
  BY DEF AckedIsSubscribed, BroadcastInScope, IndexesAgree, WorkFits, RegisteredIsActive, TypeOK, Outside, Has
<1> QED
  BY <1>1, <1>2, <1>3, <1>4, <1>5, <1>6, <1>7, <1>8, <1>9

\* Inv is preserved by unsubscribing from a channel.
LEMMA UnsubscribeChannelStep ==
    ASSUME Inv, NEW c \in Conns, NEW ch \in Channels, UnsubscribeChannel(c, ch)
    PROVE  Inv'
<1> USE HubAssumption DEF Inv, Topics, hubVars, bcastVars, loopVars, sessionVars,
          Running, UnsubscribeChannel, Reads
<1>1. TypeOK'
  BY DEF TypeOK, WorkFits
<1>2. IndexesAgree'
  BY DEF IndexesAgree, TypeOK, RegisteredIsActive, WorkFits, Outside
<1>3. WorkFits'
  BY DEF WorkFits, TypeOK
<1>4. RegisteredIsActive'
  BY DEF RegisteredIsActive, IndexesAgree, TypeOK, WorkFits, Outside
<1>5. NoStaleEntry'
  BY DEF NoStaleEntry, IndexesAgree, RegisteredIsActive, TypeOK, WorkFits, Outside
<1>6. SubscribersGranted'
  BY DEF SubscribersGranted, WorkFits, TypeOK
<1>7. BroadcastInScope'
  BY DEF BroadcastInScope, SubscribersGranted, IndexesAgree, TypeOK, Has, AtMostOnce
<1>8. DeliveredInScope'
  BY DEF DeliveredInScope, BroadcastInScope, TypeOK, Has
<1>9. AckedIsSubscribed'
  BY DEF AckedIsSubscribed, BroadcastInScope, IndexesAgree, WorkFits, RegisteredIsActive, TypeOK, Outside, Has
<1> QED
  BY <1>1, <1>2, <1>3, <1>4, <1>5, <1>6, <1>7, <1>8, <1>9

\* Inv is preserved by unsubscribing from a thread.
LEMMA UnsubscribeThreadStep ==
    ASSUME Inv, NEW c \in Conns, NEW t \in Threads, UnsubscribeThread(c, t)
    PROVE  Inv'
<1> USE HubAssumption DEF Inv, Topics, hubVars, bcastVars, loopVars, sessionVars,
          Running, UnsubscribeThread, Reads
<1>1. TypeOK'
  BY DEF TypeOK, WorkFits
<1>2. IndexesAgree'
  BY DEF IndexesAgree, TypeOK, RegisteredIsActive, WorkFits, Outside
<1>3. WorkFits'
  BY DEF WorkFits, TypeOK
<1>4. RegisteredIsActive'
  BY DEF RegisteredIsActive, IndexesAgree, TypeOK, WorkFits, Outside
<1>5. NoStaleEntry'
  BY DEF NoStaleEntry, IndexesAgree, RegisteredIsActive, TypeOK, WorkFits, Outside
<1>6. SubscribersGranted'
  BY DEF SubscribersGranted, WorkFits, TypeOK
<1>7. BroadcastInScope'
  BY DEF BroadcastInScope, SubscribersGranted, IndexesAgree, TypeOK, Has, AtMostOnce
<1>8. DeliveredInScope'
  BY DEF DeliveredInScope, BroadcastInScope, TypeOK, Has
<1>9. AckedIsSubscribed'
  BY DEF AckedIsSubscribed, BroadcastInScope, IndexesAgree, WorkFits, RegisteredIsActive, TypeOK, Outside, Has
<1> QED
  BY <1>1, <1>2, <1>3, <1>4, <1>5, <1>6, <1>7, <1>8, <1>9

\* Inv is preserved by the start of a channel broadcast.
LEMMA BroadcastToChannelStep ==
    ASSUME Inv, NEW e \in Events, NEW ch \in Channels, BroadcastToChannel(e, ch)
    PROVE  Inv'
<1> USE HubAssumption DEF Inv, Topics, hubVars, bcastVars, loopVars, sessionVars,
          Running, BroadcastToChannel, Begin
<1>1. TypeOK'
  BY DEF TypeOK, WorkFits
<1>2. IndexesAgree'
  BY DEF IndexesAgree, TypeOK, RegisteredIsActive, WorkFits, Outside
<1>3. WorkFits'
  BY DEF WorkFits, TypeOK
<1>4. RegisteredIsActive'
  BY DEF RegisteredIsActive, IndexesAgree, TypeOK, WorkFits, Outside
<1>5. NoStaleEntry'
  BY DEF NoStaleEntry, IndexesAgree, RegisteredIsActive, TypeOK, WorkFits, Outside
<1>6. SubscribersGranted'
  BY DEF SubscribersGranted, WorkFits, TypeOK
<1>7. BroadcastInScope'
  BY DEF BroadcastInScope, SubscribersGranted, IndexesAgree, TypeOK, Has, AtMostOnce
<1>8. DeliveredInScope'
  BY DEF DeliveredInScope, BroadcastInScope, TypeOK, Has
<1>9. AckedIsSubscribed'
  BY DEF AckedIsSubscribed, BroadcastInScope, IndexesAgree, WorkFits, RegisteredIsActive, TypeOK, Outside, Has
<1> QED
  BY <1>1, <1>2, <1>3, <1>4, <1>5, <1>6, <1>7, <1>8, <1>9

\* Inv is preserved by the start of a thread broadcast.
LEMMA BroadcastToThreadStep ==
    ASSUME Inv, NEW e \in Events, NEW t \in Threads, BroadcastToThread(e, t)
    PROVE  Inv'
<1> USE HubAssumption DEF Inv, Topics, hubVars, bcastVars, loopVars, sessionVars,
          Running, BroadcastToThread, Begin
<1>1. TypeOK'
  BY DEF TypeOK, WorkFits
<1>2. IndexesAgree'
  BY DEF IndexesAgree, TypeOK, RegisteredIsActive, WorkFits, Outside
<1>3. WorkFits'
  BY DEF WorkFits, TypeOK
<1>4. RegisteredIsActive'
  BY DEF RegisteredIsActive, IndexesAgree, TypeOK, WorkFits, Outside
<1>5. NoStaleEntry'
  BY DEF NoStaleEntry, IndexesAgree, RegisteredIsActive, TypeOK, WorkFits, Outside
<1>6. SubscribersGranted'
  BY DEF SubscribersGranted, WorkFits, TypeOK
<1>7. BroadcastInScope'
  BY DEF BroadcastInScope, SubscribersGranted, IndexesAgree, TypeOK, Has, AtMostOnce
<1>8. DeliveredInScope'
  BY DEF DeliveredInScope, BroadcastInScope, TypeOK, Has
<1>9. AckedIsSubscribed'
  BY DEF AckedIsSubscribed, BroadcastInScope, IndexesAgree, WorkFits, RegisteredIsActive, TypeOK, Outside, Has
<1> QED
  BY <1>1, <1>2, <1>3, <1>4, <1>5, <1>6, <1>7, <1>8, <1>9

\* Inv is preserved by the start of a broadcast to everyone.
LEMMA BroadcastGlobalStep ==
    ASSUME Inv, NEW e \in Events, BroadcastGlobal(e)
    PROVE  Inv'
<1> USE HubAssumption DEF Inv, Topics, hubVars, bcastVars, loopVars, sessionVars,
          Running, BroadcastGlobal, Begin
<1>1. TypeOK'
  BY DEF TypeOK, WorkFits
<1>2. IndexesAgree'
  BY DEF IndexesAgree, TypeOK, RegisteredIsActive, WorkFits, Outside
<1>3. WorkFits'
  BY DEF WorkFits, TypeOK
<1>4. RegisteredIsActive'
  BY DEF RegisteredIsActive, IndexesAgree, TypeOK, WorkFits, Outside
<1>5. NoStaleEntry'
  BY DEF NoStaleEntry, IndexesAgree, RegisteredIsActive, TypeOK, WorkFits, Outside
<1>6. SubscribersGranted'
  BY DEF SubscribersGranted, WorkFits, TypeOK
<1>7. BroadcastInScope'
  BY DEF BroadcastInScope, SubscribersGranted, IndexesAgree, TypeOK, Has, AtMostOnce
<1>8. DeliveredInScope'
  BY DEF DeliveredInScope, BroadcastInScope, TypeOK, Has
<1>9. AckedIsSubscribed'
  BY DEF AckedIsSubscribed, BroadcastInScope, IndexesAgree, WorkFits, RegisteredIsActive, TypeOK, Outside, Has
<1> QED
  BY <1>1, <1>2, <1>3, <1>4, <1>5, <1>6, <1>7, <1>8, <1>9

\* Inv is preserved by the start of a broadcast to a user.
LEMMA BroadcastToUserStep ==
    ASSUME Inv, NEW e \in Events, NEW u \in Users, BroadcastToUser(e, u)
    PROVE  Inv'
<1> USE HubAssumption DEF Inv, Topics, hubVars, bcastVars, loopVars, sessionVars,
          Running, BroadcastToUser, Begin
<1>1. TypeOK'
  BY DEF TypeOK, WorkFits
<1>2. IndexesAgree'
  BY DEF IndexesAgree, TypeOK, RegisteredIsActive, WorkFits, Outside
<1>3. WorkFits'
  BY DEF WorkFits, TypeOK
<1>4. RegisteredIsActive'
  BY DEF RegisteredIsActive, IndexesAgree, TypeOK, WorkFits, Outside
<1>5. NoStaleEntry'
  BY DEF NoStaleEntry, IndexesAgree, RegisteredIsActive, TypeOK, WorkFits, Outside
<1>6. SubscribersGranted'
  BY DEF SubscribersGranted, WorkFits, TypeOK
<1>7. BroadcastInScope'
  BY DEF BroadcastInScope, SubscribersGranted, IndexesAgree, TypeOK, Has, AtMostOnce
<1>8. DeliveredInScope'
  BY DEF DeliveredInScope, BroadcastInScope, TypeOK, Has
<1>9. AckedIsSubscribed'
  BY DEF AckedIsSubscribed, BroadcastInScope, IndexesAgree, WorkFits, RegisteredIsActive, TypeOK, Outside, Has
<1> QED
  BY <1>1, <1>2, <1>3, <1>4, <1>5, <1>6, <1>7, <1>8, <1>9

\* Inv is preserved by sending to one receiver.
LEMMA BroadcastSendStep ==
    ASSUME Inv, NEW e \in Events, NEW c \in Conns, BroadcastSend(e, c)
    PROVE  Inv'
<1> USE HubAssumption DEF Inv, Topics, hubVars, bcastVars, loopVars, sessionVars,
          Running, BroadcastSend, SendTo
<1>1. TypeOK'
  BY DEF TypeOK, WorkFits
<1>2. IndexesAgree'
  BY DEF IndexesAgree, TypeOK, RegisteredIsActive, WorkFits, Outside
<1>3. WorkFits'
  BY DEF WorkFits, TypeOK
<1>4. RegisteredIsActive'
  BY DEF RegisteredIsActive, IndexesAgree, TypeOK, WorkFits, Outside
<1>5. NoStaleEntry'
  BY DEF NoStaleEntry, IndexesAgree, RegisteredIsActive, TypeOK, WorkFits, Outside
<1>6. SubscribersGranted'
  BY DEF SubscribersGranted, WorkFits, TypeOK
<1>7. BroadcastInScope'
  BY DEF BroadcastInScope, SubscribersGranted, IndexesAgree, TypeOK, Has, AtMostOnce
<1>8. DeliveredInScope'
  BY DEF DeliveredInScope, BroadcastInScope, TypeOK, Has
<1>9. AckedIsSubscribed'
  <2>1. \A d \in Conns, f \in Events : Has(d, f) => Has(d, f)'
    BY DEF Has, TypeOK
  <2>2. c \in connections => Has(c, e)'
    BY DEF Has, TypeOK
  <2>3. c \in expected[e] => c \in connections
    BY DEF AckedIsSubscribed
  <2> QED
    BY <2>1, <2>2, <2>3 DEF AckedIsSubscribed, TypeOK
<1> QED
  BY <1>1, <1>2, <1>3, <1>4, <1>5, <1>6, <1>7, <1>8, <1>9

\* Inv is preserved by the end of a broadcast.
LEMMA BroadcastEndStep ==
    ASSUME Inv, NEW e \in Events, BroadcastEnd(e)
    PROVE  Inv'
<1> USE HubAssumption DEF Inv, Topics, hubVars, bcastVars, loopVars, sessionVars,
          Running, BroadcastEnd
<1>1. TypeOK'
  BY DEF TypeOK, WorkFits
<1>2. IndexesAgree'
  BY DEF IndexesAgree, TypeOK, RegisteredIsActive, WorkFits, Outside
<1>3. WorkFits'
  BY DEF WorkFits, TypeOK
<1>4. RegisteredIsActive'
  BY DEF RegisteredIsActive, IndexesAgree, TypeOK, WorkFits, Outside
<1>5. NoStaleEntry'
  BY DEF NoStaleEntry, IndexesAgree, RegisteredIsActive, TypeOK, WorkFits, Outside
<1>6. SubscribersGranted'
  BY DEF SubscribersGranted, WorkFits, TypeOK
<1>7. BroadcastInScope'
  BY DEF BroadcastInScope, SubscribersGranted, IndexesAgree, TypeOK, Has, AtMostOnce
<1>8. DeliveredInScope'
  BY DEF DeliveredInScope, BroadcastInScope, TypeOK, Has
<1>9. AckedIsSubscribed'
  BY DEF AckedIsSubscribed, BroadcastInScope, IndexesAgree, WorkFits, RegisteredIsActive, TypeOK, Outside, Has
<1> QED
  BY <1>1, <1>2, <1>3, <1>4, <1>5, <1>6, <1>7, <1>8, <1>9

\* Inv is preserved by the reuse of an event.
LEMMA NextEventStep ==
    ASSUME Inv, NEW e \in Events, NextEvent(e)
    PROVE  Inv'
<1> USE HubAssumption DEF Inv, Topics, hubVars, bcastVars, loopVars, sessionVars,
          Running, NextEvent
<1>1. TypeOK'
  BY DEF TypeOK, WorkFits
<1>2. IndexesAgree'
  BY DEF IndexesAgree, TypeOK, RegisteredIsActive, WorkFits, Outside
<1>3. WorkFits'
  BY DEF WorkFits, TypeOK
<1>4. RegisteredIsActive'
  BY DEF RegisteredIsActive, IndexesAgree, TypeOK, WorkFits, Outside
<1>5. NoStaleEntry'
  BY DEF NoStaleEntry, IndexesAgree, RegisteredIsActive, TypeOK, WorkFits, Outside
<1>6. SubscribersGranted'
  BY DEF SubscribersGranted, WorkFits, TypeOK
<1>7. BroadcastInScope'
  <2>1. todo[e] = {}
    BY DEF AckedIsSubscribed
  <2>2. \A d \in Conns : outbox'[d][e] = 0
    BY DEF TypeOK
  <2>3. \A d \in Conns : \A f \in Events \ {e} : outbox'[d][f] = outbox[d][f]
    BY DEF TypeOK
  <2>4. bstate'[e] = "new" /\ \A f \in Events \ {e} : bstate'[f] = bstate[f] /\ scope'[f] = scope[f]
    BY DEF TypeOK
  <2>5. todo' = todo /\ UNCHANGED granted /\ \A f \in Events : todo[f] \subseteq Conns
    BY DEF TypeOK
  <2>6. ASSUME NEW f \in Events \ {e}
        PROVE  /\ bstate'[f] = "new" => todo'[f] = {} /\ \A d \in Conns : ~Has(d, f)'
               /\ \A d \in todo'[f] : ~Has(d, f)'
               /\ \A d \in todo'[f] :
                      /\ scope'[f] \in Topics => scope'[f] \in granted'[d]
                      /\ scope'[f] \in Users => scope'[f] = UserOf[d]
               /\ \A d \in Conns : AtMostOnce(d, f)'
    BY <2>3, <2>4, <2>5 DEF BroadcastInScope, Has, AtMostOnce
  <2>7. /\ todo'[e] = {}
        /\ \A d \in Conns : ~Has(d, e)' /\ AtMostOnce(d, e)'
    BY <2>1, <2>2, <2>5 DEF Has, AtMostOnce
  <2> QED
    BY <2>6, <2>7 DEF BroadcastInScope
<1>8. DeliveredInScope'
  BY DEF DeliveredInScope, BroadcastInScope, TypeOK, Has
<1>9. AckedIsSubscribed'
  BY DEF AckedIsSubscribed, BroadcastInScope, IndexesAgree, WorkFits, RegisteredIsActive, TypeOK, Outside, Has
<1> QED
  BY <1>1, <1>2, <1>3, <1>4, <1>5, <1>6, <1>7, <1>8, <1>9

\* Inv is preserved by a granted channel check.
LEMMA ViewGrantedStep ==
    ASSUME Inv, NEW c \in Conns, ViewGranted(c)
    PROVE  Inv'
<1> USE HubAssumption DEF Inv, Topics, hubVars, bcastVars, loopVars, sessionVars,
          Running, ViewGranted, Goto, PCs
<1>1. TypeOK'
  BY DEF TypeOK, WorkFits
<1>2. IndexesAgree'
  BY DEF IndexesAgree, TypeOK, RegisteredIsActive, WorkFits, Outside
<1>3. WorkFits'
  BY DEF WorkFits, TypeOK
<1>4. RegisteredIsActive'
  BY DEF RegisteredIsActive, IndexesAgree, TypeOK, WorkFits, Outside
<1>5. NoStaleEntry'
  BY DEF NoStaleEntry, IndexesAgree, RegisteredIsActive, TypeOK, WorkFits, Outside
<1>6. SubscribersGranted'
  BY DEF SubscribersGranted, WorkFits, TypeOK
<1>7. BroadcastInScope'
  BY DEF BroadcastInScope, SubscribersGranted, IndexesAgree, TypeOK, Has, AtMostOnce
<1>8. DeliveredInScope'
  BY DEF DeliveredInScope, BroadcastInScope, TypeOK, Has
<1>9. AckedIsSubscribed'
  BY DEF AckedIsSubscribed, BroadcastInScope, IndexesAgree, WorkFits, RegisteredIsActive, TypeOK, Outside, Has
<1> QED
  BY <1>1, <1>2, <1>3, <1>4, <1>5, <1>6, <1>7, <1>8, <1>9

\* Inv is preserved by a granted thread check.
LEMMA AccessGrantedStep ==
    ASSUME Inv, NEW c \in Conns, AccessGranted(c)
    PROVE  Inv'
<1> USE HubAssumption DEF Inv, Topics, hubVars, bcastVars, loopVars, sessionVars,
          Running, AccessGranted, Goto, PCs
<1>1. TypeOK'
  BY DEF TypeOK, WorkFits
<1>2. IndexesAgree'
  BY DEF IndexesAgree, TypeOK, RegisteredIsActive, WorkFits, Outside
<1>3. WorkFits'
  BY DEF WorkFits, TypeOK
<1>4. RegisteredIsActive'
  BY DEF RegisteredIsActive, IndexesAgree, TypeOK, WorkFits, Outside
<1>5. NoStaleEntry'
  BY DEF NoStaleEntry, IndexesAgree, RegisteredIsActive, TypeOK, WorkFits, Outside
<1>6. SubscribersGranted'
  BY DEF SubscribersGranted, WorkFits, TypeOK
<1>7. BroadcastInScope'
  BY DEF BroadcastInScope, SubscribersGranted, IndexesAgree, TypeOK, Has, AtMostOnce
<1>8. DeliveredInScope'
  BY DEF DeliveredInScope, BroadcastInScope, TypeOK, Has
<1>9. AckedIsSubscribed'
  BY DEF AckedIsSubscribed, BroadcastInScope, IndexesAgree, WorkFits, RegisteredIsActive, TypeOK, Outside, Has
<1> QED
  BY <1>1, <1>2, <1>3, <1>4, <1>5, <1>6, <1>7, <1>8, <1>9

\* Inv is preserved by the acknowledgement.
LEMMA AckStep ==
    ASSUME Inv, NEW c \in Conns, Ack(c)
    PROVE  Inv'
<1> USE HubAssumption DEF Inv, Topics, hubVars, bcastVars, loopVars, sessionVars,
          Running, Ack, GotoWith, PCs
<1>1. TypeOK'
  BY DEF TypeOK, WorkFits
<1>2. IndexesAgree'
  BY DEF IndexesAgree, TypeOK, RegisteredIsActive, WorkFits, Outside
<1>3. WorkFits'
  BY DEF WorkFits, TypeOK
<1>4. RegisteredIsActive'
  BY DEF RegisteredIsActive, IndexesAgree, TypeOK, WorkFits, Outside
<1>5. NoStaleEntry'
  BY DEF NoStaleEntry, IndexesAgree, RegisteredIsActive, TypeOK, WorkFits, Outside
<1>6. SubscribersGranted'
  BY DEF SubscribersGranted, WorkFits, TypeOK
<1>7. BroadcastInScope'
  BY DEF BroadcastInScope, SubscribersGranted, IndexesAgree, TypeOK, Has, AtMostOnce
<1>8. DeliveredInScope'
  BY DEF DeliveredInScope, BroadcastInScope, TypeOK, Has
<1>9. AckedIsSubscribed'
  BY DEF AckedIsSubscribed, BroadcastInScope, IndexesAgree, WorkFits, RegisteredIsActive, TypeOK, Outside, Has
<1> QED
  BY <1>1, <1>2, <1>3, <1>4, <1>5, <1>6, <1>7, <1>8, <1>9

\* Inv is preserved by the start of a typing broadcast.
LEMMA TypingPublishStep ==
    ASSUME Inv, NEW c \in Conns, NEW e \in Events, TypingPublish(c, e)
    PROVE  Inv'
<1> USE HubAssumption DEF Inv, Topics, hubVars, bcastVars, loopVars, sessionVars,
          Running, TypingPublish, GotoWith, PCs, Begin
<1>1. TypeOK'
  BY DEF TypeOK, WorkFits
<1>2. IndexesAgree'
  BY DEF IndexesAgree, TypeOK, RegisteredIsActive, WorkFits, Outside
<1>3. WorkFits'
  BY DEF WorkFits, TypeOK
<1>4. RegisteredIsActive'
  BY DEF RegisteredIsActive, IndexesAgree, TypeOK, WorkFits, Outside
<1>5. NoStaleEntry'
  BY DEF NoStaleEntry, IndexesAgree, RegisteredIsActive, TypeOK, WorkFits, Outside
<1>6. SubscribersGranted'
  BY DEF SubscribersGranted, WorkFits, TypeOK
<1>7. BroadcastInScope'
  BY DEF BroadcastInScope, SubscribersGranted, IndexesAgree, TypeOK, Has, AtMostOnce
<1>8. DeliveredInScope'
  BY DEF DeliveredInScope, BroadcastInScope, TypeOK, Has
<1>9. AckedIsSubscribed'
  BY DEF AckedIsSubscribed, BroadcastInScope, IndexesAgree, WorkFits, RegisteredIsActive, TypeOK, Outside, Has
<1> QED
  BY <1>1, <1>2, <1>3, <1>4, <1>5, <1>6, <1>7, <1>8, <1>9

\* Inv is preserved by the start of a thread typing broadcast.
LEMMA ThreadTypingPublishStep ==
    ASSUME Inv, NEW c \in Conns, NEW e \in Events, ThreadTypingPublish(c, e)
    PROVE  Inv'
<1> USE HubAssumption DEF Inv, Topics, hubVars, bcastVars, loopVars, sessionVars,
          Running, ThreadTypingPublish, GotoWith, PCs, Begin
<1>1. TypeOK'
  BY DEF TypeOK, WorkFits
<1>2. IndexesAgree'
  BY DEF IndexesAgree, TypeOK, RegisteredIsActive, WorkFits, Outside
<1>3. WorkFits'
  BY DEF WorkFits, TypeOK
<1>4. RegisteredIsActive'
  BY DEF RegisteredIsActive, IndexesAgree, TypeOK, WorkFits, Outside
<1>5. NoStaleEntry'
  BY DEF NoStaleEntry, IndexesAgree, RegisteredIsActive, TypeOK, WorkFits, Outside
<1>6. SubscribersGranted'
  BY DEF SubscribersGranted, WorkFits, TypeOK
<1>7. BroadcastInScope'
  BY DEF BroadcastInScope, SubscribersGranted, IndexesAgree, TypeOK, Has, AtMostOnce
<1>8. DeliveredInScope'
  BY DEF DeliveredInScope, BroadcastInScope, TypeOK, Has
<1>9. AckedIsSubscribed'
  BY DEF AckedIsSubscribed, BroadcastInScope, IndexesAgree, WorkFits, RegisteredIsActive, TypeOK, Outside, Has
<1> QED
  BY <1>1, <1>2, <1>3, <1>4, <1>5, <1>6, <1>7, <1>8, <1>9

\* Inv is preserved by the end of a read loop.
LEMMA StopReadingStep ==
    ASSUME Inv, NEW c \in Conns, StopReading(c)
    PROVE  Inv'
<1> USE HubAssumption DEF Inv, Topics, hubVars, bcastVars, loopVars, sessionVars,
          Running, StopReading, Goto, PCs
<1>1. TypeOK'
  BY DEF TypeOK, WorkFits
<1>2. IndexesAgree'
  BY DEF IndexesAgree, TypeOK, RegisteredIsActive, WorkFits, Outside
<1>3. WorkFits'
  BY DEF WorkFits, TypeOK
<1>4. RegisteredIsActive'
  BY DEF RegisteredIsActive, IndexesAgree, TypeOK, WorkFits, Outside
<1>5. NoStaleEntry'
  BY DEF NoStaleEntry, IndexesAgree, RegisteredIsActive, TypeOK, WorkFits, Outside
<1>6. SubscribersGranted'
  BY DEF SubscribersGranted, WorkFits, TypeOK
<1>7. BroadcastInScope'
  BY DEF BroadcastInScope, SubscribersGranted, IndexesAgree, TypeOK, Has, AtMostOnce
<1>8. DeliveredInScope'
  BY DEF DeliveredInScope, BroadcastInScope, TypeOK, Has
<1>9. AckedIsSubscribed'
  BY DEF AckedIsSubscribed, BroadcastInScope, IndexesAgree, WorkFits, RegisteredIsActive, TypeOK, Outside, Has
<1> QED
  BY <1>1, <1>2, <1>3, <1>4, <1>5, <1>6, <1>7, <1>8, <1>9

\* Inv is preserved by a membership change.
LEMMA ChangePermissionStep ==
    ASSUME Inv, NEW u \in Users, NEW tp \in Topics, ChangePermission(u, tp)
    PROVE  Inv'
<1> USE HubAssumption DEF Inv, Topics, hubVars, bcastVars, loopVars, sessionVars,
          Running, ChangePermission
<1>1. TypeOK'
  BY DEF TypeOK, WorkFits
<1>2. IndexesAgree'
  BY DEF IndexesAgree, TypeOK, RegisteredIsActive, WorkFits, Outside
<1>3. WorkFits'
  BY DEF WorkFits, TypeOK
<1>4. RegisteredIsActive'
  BY DEF RegisteredIsActive, IndexesAgree, TypeOK, WorkFits, Outside
<1>5. NoStaleEntry'
  BY DEF NoStaleEntry, IndexesAgree, RegisteredIsActive, TypeOK, WorkFits, Outside
<1>6. SubscribersGranted'
  BY DEF SubscribersGranted, WorkFits, TypeOK
<1>7. BroadcastInScope'
  BY DEF BroadcastInScope, SubscribersGranted, IndexesAgree, TypeOK, Has, AtMostOnce
<1>8. DeliveredInScope'
  BY DEF DeliveredInScope, BroadcastInScope, TypeOK, Has
<1>9. AckedIsSubscribed'
  BY DEF AckedIsSubscribed, BroadcastInScope, IndexesAgree, WorkFits, RegisteredIsActive, TypeOK, Outside, Has
<1> QED
  BY <1>1, <1>2, <1>3, <1>4, <1>5, <1>6, <1>7, <1>8, <1>9

\* Inv is preserved by the cancellation of the token.
LEMMA CancelStep ==
    ASSUME Inv, Cancel
    PROVE  Inv'
<1> USE HubAssumption DEF Inv, Topics, hubVars, bcastVars, loopVars, sessionVars,
          Running, Cancel
<1>1. TypeOK'
  BY DEF TypeOK, WorkFits
<1>2. IndexesAgree'
  BY DEF IndexesAgree, TypeOK, RegisteredIsActive, WorkFits, Outside
<1>3. WorkFits'
  BY DEF WorkFits, TypeOK
<1>4. RegisteredIsActive'
  BY DEF RegisteredIsActive, IndexesAgree, TypeOK, WorkFits, Outside
<1>5. NoStaleEntry'
  BY DEF NoStaleEntry, IndexesAgree, RegisteredIsActive, TypeOK, WorkFits, Outside
<1>6. SubscribersGranted'
  BY DEF SubscribersGranted, WorkFits, TypeOK
<1>7. BroadcastInScope'
  BY DEF BroadcastInScope, SubscribersGranted, IndexesAgree, TypeOK, Has, AtMostOnce
<1>8. DeliveredInScope'
  BY DEF DeliveredInScope, BroadcastInScope, TypeOK, Has
<1>9. AckedIsSubscribed'
  BY DEF AckedIsSubscribed, BroadcastInScope, IndexesAgree, WorkFits, RegisteredIsActive, TypeOK, Outside, Has
<1> QED
  BY <1>1, <1>2, <1>3, <1>4, <1>5, <1>6, <1>7, <1>8, <1>9

\* Inv is preserved by clearing the hub.
LEMMA ShutdownAllStep ==
    ASSUME Inv, ShutdownAll
    PROVE  Inv'
<1> USE HubAssumption DEF Inv, Topics, hubVars, bcastVars, loopVars, sessionVars,
          Running, ShutdownAll, Served, WriteLockFree
<1>1. TypeOK'
  BY DEF TypeOK, WorkFits
<1>2. IndexesAgree'
  BY DEF IndexesAgree, TypeOK, RegisteredIsActive, WorkFits, Outside
<1>3. WorkFits'
  BY DEF WorkFits, TypeOK
<1>4. RegisteredIsActive'
  BY DEF RegisteredIsActive, IndexesAgree, TypeOK, WorkFits, Outside
<1>5. NoStaleEntry'
  BY DEF NoStaleEntry, IndexesAgree, RegisteredIsActive, TypeOK, WorkFits, Outside
<1>6. SubscribersGranted'
  BY DEF SubscribersGranted, WorkFits, TypeOK
<1>7. BroadcastInScope'
  BY DEF BroadcastInScope, SubscribersGranted, IndexesAgree, TypeOK, Has, AtMostOnce
<1>8. DeliveredInScope'
  BY DEF DeliveredInScope, BroadcastInScope, TypeOK, Has
<1>9. AckedIsSubscribed'
  BY DEF AckedIsSubscribed, BroadcastInScope, IndexesAgree, WorkFits, RegisteredIsActive, TypeOK, Outside, Has
<1> QED
  BY <1>1, <1>2, <1>3, <1>4, <1>5, <1>6, <1>7, <1>8, <1>9

\* Inv is preserved by the end of the process.
LEMMA ExitStep ==
    ASSUME Inv, Exit
    PROVE  Inv'
<1> USE HubAssumption DEF Inv, Topics, hubVars, bcastVars, loopVars, sessionVars,
          Running, Exit, PCs
<1>1. TypeOK'
  BY DEF TypeOK, WorkFits
<1>2. IndexesAgree'
  BY DEF IndexesAgree, TypeOK, RegisteredIsActive, WorkFits, Outside
<1>3. WorkFits'
  BY DEF WorkFits, TypeOK
<1>4. RegisteredIsActive'
  BY DEF RegisteredIsActive, IndexesAgree, TypeOK, WorkFits, Outside
<1>5. NoStaleEntry'
  BY DEF NoStaleEntry, IndexesAgree, RegisteredIsActive, TypeOK, WorkFits, Outside
<1>6. SubscribersGranted'
  BY DEF SubscribersGranted, WorkFits, TypeOK
<1>7. BroadcastInScope'
  BY DEF BroadcastInScope, SubscribersGranted, IndexesAgree, TypeOK, Has, AtMostOnce
<1>8. DeliveredInScope'
  BY DEF DeliveredInScope, BroadcastInScope, TypeOK, Has
<1>9. AckedIsSubscribed'
  BY DEF AckedIsSubscribed, BroadcastInScope, IndexesAgree, WorkFits, RegisteredIsActive, TypeOK, Outside, Has
<1> QED
  BY <1>1, <1>2, <1>3, <1>4, <1>5, <1>6, <1>7, <1>8, <1>9

\* Inv is preserved by a writer that queues at the lock.
LEMMA QueueStep ==
    ASSUME Inv, waiting' \subseteq Conns \cup {Shutdown},
           UNCHANGED <<hubVars, outbox, loopVars, sessionVars, phase, allowed,
                       granted, acked>>
    PROVE  Inv'
<1> USE DEF Inv, hubVars, loopVars, sessionVars
<1>1. (TypeOK /\ IndexesAgree /\ WorkFits)'
  BY DEF TypeOK, IndexesAgree, WorkFits
<1>2. (RegisteredIsActive /\ NoStaleEntry /\ SubscribersGranted)'
  BY DEF RegisteredIsActive, NoStaleEntry, SubscribersGranted, Outside
<1>3. (BroadcastInScope /\ DeliveredInScope /\ AckedIsSubscribed)'
  BY DEF BroadcastInScope, DeliveredInScope, AckedIsSubscribed, Has, AtMostOnce
<1> QED
  BY <1>1, <1>2, <1>3

\* A session that keeps its topic, written as the update QuietStep expects.
LEMMA SameWork ==
    ASSUME Inv, NEW c \in Conns
    PROVE  /\ work[c] \in Topics \cup Events \cup {Nothing}
           /\ work = [work EXCEPT ![c] = work[c]]
  BY DEF Inv, TypeOK

\* Every step of the system, and stuttering, preserves Inv.
LEMMA NextInv == Inv /\ [Next]_vars => Inv'
<1> SUFFICES ASSUME Inv, [Next]_vars PROVE Inv'
  OBVIOUS
<1>0. waiting \subseteq Conns \cup {Shutdown}
  BY DEF Inv, TypeOK
<1>1. ASSUME NEW c \in Conns, Command(c) PROVE Inv'
  <2> USE <1>0, <1>1 DEF Reads, Goto, GotoWith, bcastVars
  <2>1. ASSUME AnswerOnly(c) \/ Heartbeat(c) PROVE Inv'
    BY <2>1, SameWork, QuietStep DEF AnswerOnly, Heartbeat, PCs
  <2>2. ASSUME NEW ch \in Channels, ReceiveSubscribeChannel(c, ch) PROVE Inv'
    BY <2>2, QuietStep DEF ReceiveSubscribeChannel, Topics, PCs
  <2>3. ASSUME NEW t \in Threads, ReceiveSubscribeThread(c, t) PROVE Inv'
    BY <2>3, QuietStep DEF ReceiveSubscribeThread, Topics, PCs
  <2>4. ASSUME NEW t \in Topics, ReceiveTyping(c, t) PROVE Inv'
    BY <2>4, QuietStep DEF ReceiveTyping, Topics, PCs
  <2> QED
    BY <2>1, <2>2, <2>3, <2>4, StopReadingStep, UnsubscribeChannelStep,
       UnsubscribeThreadStep DEF Command
<1>2. ASSUME NEW c \in Conns, Session(c) PROVE Inv'
  <2> USE <1>0 DEF Goto, GotoWith, bcastVars
  <2>1. ASSUME Greet(c) \/ ViewRefused(c) \/ AccessRefused(c) PROVE Inv'
    BY <2>1, SameWork, QuietStep DEF Greet, ViewRefused, AccessRefused, PCs
  <2>2. ASSUME Reply(c) \/ TypingIgnored(c) \/ TypingPublished(c) PROVE Inv'
    BY <2>2, QuietStep DEF Reply, TypingIgnored, TypingPublished, PCs
  <2>3. ASSUME UnregisterUnknown(c) \/ Finish(c) PROVE Inv'
    BY <2>3, SameWork, QuietStep
       DEF UnregisterUnknown, Served, Finish, Inv, PCs, RegisteredIsActive, Outside
  <2>4. ASSUME TypingAllowed(c) PROVE Inv'
    BY <2>4, SameWork, QuietStep DEF TypingAllowed, Inv, WorkFits, PCs
  <2>5. ASSUME Queue(c) PROVE Inv'
    BY <2>5, QueueStep DEF Queue
  <2> QED
    BY <1>2, <2>1, <2>2, <2>3, <2>4, <2>5, ViewGrantedStep, AccessGrantedStep,
       SubscribeChannelStep, SubscribeThreadStep, AckStep, TypingPublishStep,
       ThreadTypingPublishStep, UnregisterStep DEF Session
<1>3. ASSUME NEW e \in Events, Publish(e) \/ Broadcasting(e) \/ NextEvent(e) PROVE Inv'
  BY <1>3, BroadcastToChannelStep, BroadcastToThreadStep, BroadcastToUserStep,
     BroadcastGlobalStep, BroadcastSendStep, BroadcastEndStep,
     NextEventStep DEF Publish, Broadcasting
<1>4. CASE Exited \/ UNCHANGED vars
  <2>1. UNCHANGED vars
    BY <1>4 DEF Exited
  <2>2. waiting' \subseteq Conns \cup {Shutdown}
    BY <2>1 DEF vars, bcastVars, Inv, TypeOK
  <2> QED
    BY <2>1, <2>2, QueueStep DEF vars, bcastVars
<1>5. CASE QueueShutdown
  <2>1. waiting' \subseteq Conns \cup {Shutdown}
    BY <1>5 DEF QueueShutdown, Inv, TypeOK
  <2> QED
    BY <1>5, <2>1, QueueStep DEF QueueShutdown
<1> QED
  BY <1>1, <1>2, <1>3, <1>4, <1>5, RegisterStep, StopReadingStep,
     ChangePermissionStep, CancelStep, ShutdownAllStep, ExitStep
     DEF Next, StopOnShutdown

\* Inv holds in every reachable state of the hub.
THEOREM Invariance == Spec => []Inv
  BY InitInv, NextInv, PTL DEF Spec

\* The hub and the sessions always have the declared shape.
THEOREM TypeCorrect == Spec => []TypeOK
<1>1. Inv => TypeOK
  BY DEF Inv
<1> QED
  BY <1>1, Invariance, PTL

\* The connection lists and the subscriber index never disagree, for any
\* number of sessions running any commands.
THEOREM IndexConsistency == Spec => []IndexesAgree
<1>1. Inv => IndexesAgree
  BY DEF Inv
<1> QED
  BY <1>1, Invariance, PTL

\* Until shutdown_all, a session outside the hub is mentioned nowhere in it.
THEOREM NoLeak == Spec => []LiveSubscribersOnly
<1>1. Inv => LiveSubscribersOnly
  BY DEF Inv, LiveSubscribersOnly, IndexesAgree, RegisteredIsActive,
     NoStaleEntry, Outside, TypeOK
<1> QED
  BY <1>1, Invariance, PTL

\* A subscription that was acknowledged receives each later broadcast of its
\* topic exactly once.
THEOREM AckPromise == Spec => []AckHonoured
<1>1. Inv => AckHonoured
  BY DEF Inv, AckHonoured, AckedIsSubscribed, BroadcastInScope, TypeOK
<1> QED
  BY <1>1, Invariance, PTL

\* Events reach only connections a permission check allowed on the topic,
\* or connections of the user they are for.
THEOREM DeliveryScope == Spec => []DeliveredInScope
<1>1. Inv => DeliveredInScope
  BY DEF Inv
<1> QED
  BY <1>1, Invariance, PTL

=============================================================================
