----------------------------- MODULE FanoutProofs -----------------------------
(***************************************************************************)
(* Delivery on the publishing instance, duplicates and order, for any      *)
(* number of instances, events and failures.                               *)
(***************************************************************************)
EXTENDS Fanout, FiniteSetTheorems, FunctionTheorems, TLAPS

USE FanoutAssumption DEF Copies

\* The publication under way is one of the event's.
CallFits == \A e \in Events : call[e] \in DOMAIN Calls(e)

\* Envelopes name the instance that published them.
Honest ==
    \A i \in Instances : \A k \in DOMAIN stream[i] :
        stream[i][k].origin = origin[stream[i][k].event]

\* Recipients the handler of e has broadcast to.
Served(e) ==
    {q \in Recipients : \E k \in DOMAIN Calls(e) :
        q \in Calls(e)[k] /\ (k < call[e] \/ (k = call[e] /\ pc[e] # "local"))}

\* They have one copy each on its own instance (at most, once its hub is
\* empty), and nobody else has one.
LocalCount ==
    \A e \in Events, q \in Recipients :
        /\ Copies(origin[e], q, e) \in {0, 1}
        /\ q \notin Served(e) => Copies(origin[e], q, e) = 0
        /\ origin[e] \in hub /\ q \in Served(e) => Copies(origin[e], q, e) = 1

\* The envelope of e.
Envelope(e) == [origin |-> origin[e], event |-> e]

\* Publications of e that Redis has answered.
Published(e) == IF pc[e] = "done" THEN call[e] ELSE call[e] - 1

\* Elsewhere, copies received and still to be read make up no more than the
\* publications, and only the event's recipients have any.
RemoteCount ==
    \A i \in Instances, e \in Events, q \in Recipients : i # origin[e] =>
        /\ Copies(i, q, e) + Occurrences(stream[i], Envelope(e)) <= Published(e)
        /\ q \notin Targets(e) => Copies(i, q, e) = 0

\* A handler is done after its last publication.
DoneIsLast == \A e \in Events : pc[e] = "done" => call[e] = Len(Calls(e))

Inv == TypeOK /\ CallFits /\ Honest /\ DoneIsLast /\ LocalCount /\ RemoteCount

-----------------------------------------------------------------------------
\* One more element, one more occurrence if it is the one.
LEMMA AppendOccurrences ==
    ASSUME NEW S, NEW s \in Seq(S), NEW x \in S, NEW e
    PROVE  /\ Occurrences(s, e) \in Nat
           /\ Occurrences(Append(s, x), e) =
                  IF x = e THEN Occurrences(s, e) + 1 ELSE Occurrences(s, e)
<1> DEFINE D == {k \in DOMAIN s : s[k] = e}
           A == {k \in DOMAIN Append(s, x) : Append(s, x)[k] = e}
<1>1. IsFiniteSet(D)
  <2>1. D \in SUBSET (1 .. Len(s)) /\ Len(s) \in Nat
    OBVIOUS
  <2>2. IsFiniteSet(1 .. Len(s))
    BY <2>1, FS_Interval
  <2> QED
    BY <2>1, <2>2, FS_Subset
<1>2. Cardinality(D) \in Nat
  BY <1>1, FS_CardinalityType
<1>3. CASE x = e
  <2>1. A = D \cup {Len(s) + 1} /\ Len(s) + 1 \notin D
    BY <1>3
  <2>2. Cardinality(D \cup {Len(s) + 1}) = Cardinality(D) + 1
    BY <1>1, <2>1, FS_AddElement
  <2> QED
    BY <1>2, <1>3, <2>1, <2>2 DEF Occurrences
<1>4. CASE x # e
  <2>1. A = D
    BY <1>4
  <2> QED
    BY <1>2, <1>4, <2>1 DEF Occurrences
<1> QED
  BY <1>3, <1>4

\* Taking the first element away takes its occurrence away.
LEMMA TailOccurrences ==
    ASSUME NEW S, NEW s \in Seq(S), s # <<>>, NEW e
    PROVE  /\ Occurrences(s, e) \in Nat
           /\ Occurrences(Tail(s), e) \in Nat
           /\ Occurrences(s, e) =
                  IF Head(s) = e THEN Occurrences(Tail(s), e) + 1 ELSE Occurrences(Tail(s), e)
<1> DEFINE T == {k \in DOMAIN Tail(s) : Tail(s)[k] = e}
           R == {k \in 2 .. Len(s) : s[k] = e}
           D == {k \in DOMAIN s : s[k] = e}
<1>1. Len(s) \in Nat \ {0} /\ DOMAIN s = 1 .. Len(s)
  OBVIOUS
<1>2. IsFiniteSet(R)
  <2>1. IsFiniteSet(2 .. Len(s)) /\ R \in SUBSET (2 .. Len(s))
    BY <1>1, FS_Interval
  <2> QED
    BY <2>1, FS_Subset
<1>3. Cardinality(T) = Cardinality(R)
  <2> DEFINE f == [k \in R |-> k - 1]
  <2>1. f \in [R -> T]
    OBVIOUS
  <2>2. \A j, k \in R : f[j] = f[k] => j = k
    BY <1>1
  <2>3. \A t \in T : \E k \in R : f[k] = t
    <3> SUFFICES ASSUME NEW t \in T PROVE \E k \in R : f[k] = t
      OBVIOUS
    <3>1. t + 1 \in R /\ (t + 1) - 1 = t
      BY <1>1
    <3> QED
      BY <3>1
  <2>4. f \in Bijection(R, T)
    BY <2>1, <2>2, <2>3, Fun_IsBij
  <2>5. ExistsBijection(R, T)
    BY <2>4 DEF ExistsBijection
  <2> QED
    BY <1>2, <2>5, FS_Bijection
<1>4. Cardinality(R) \in Nat
  BY <1>2, FS_CardinalityType
<1>5. Occurrences(s, e) = Cardinality(D) /\ Occurrences(Tail(s), e) = Cardinality(T)
  BY DEF Occurrences
<1>6. CASE Head(s) = e
  <2>1. D = R \cup {1} /\ 1 \notin R
    BY <1>1, <1>6
  <2>2. Cardinality(R \cup {1}) = Cardinality(R) + 1
    BY <1>2, <2>1, FS_AddElement
  <2> HIDE DEF D, R, T
  <2> QED
    BY <1>3, <1>4, <1>5, <1>6, <2>1, <2>2
<1>7. CASE Head(s) # e
  <2>1. D = R
    BY <1>1, <1>7
  <2> HIDE DEF D, R, T
  <2> QED
    BY <1>3, <1>4, <1>5, <1>7, <2>1
<1> QED
  BY <1>6, <1>7

\* The publications of an event reach different recipients.
LEMMA CallsShape ==
    ASSUME NEW e \in Events
    PROVE  /\ Len(Calls(e)) \in 1 .. 2
           /\ DOMAIN Calls(e) = 1 .. Len(Calls(e))
           /\ \A k \in DOMAIN Calls(e) : Calls(e)[k] \subseteq Recipients
           /\ \A j, k \in DOMAIN Calls(e) : j # k => Calls(e)[j] \cap Calls(e)[k] = {}
           /\ Targets(e) = {q \in Recipients : \E k \in DOMAIN Calls(e) : q \in Calls(e)[k]}
<1>1. CASE Kind[e] = "accepted"
  <2>1. Calls(e) = <<{"requester"}, {"receiver"}>>
    BY <1>1 DEF Calls
  <2> QED
    BY <2>1 DEF Targets, Recipients
<1>2. CASE Kind[e] = "presence"
  <2>1. Calls(e) = <<Recipients>>
    BY <1>2 DEF Calls
  <2> QED
    BY <2>1 DEF Targets, Recipients
<1>3. CASE Kind[e] # "accepted" /\ Kind[e] # "presence"
  <2>1. Calls(e) = <<{"client"}>>
    BY <1>3 DEF Calls
  <2> QED
    BY <2>1 DEF Targets, Recipients
<1> QED
  BY <1>1, <1>2, <1>3

\* What a broadcast of x to Q on instance i adds.
LEMMA BroadcastAdds ==
    ASSUME TypeOK, NEW i \in Instances, NEW Q \in SUBSET Recipients, NEW x \in Events,
           Broadcast(i, Q, x)
    PROVE  /\ got' \in [Instances -> [Recipients -> Seq(Events)]]
           /\ \A j \in Instances, q \in Recipients, e \in Events :
                  /\ Copies(j, q, e) \in Nat
                  /\ j = i /\ i \in hub /\ q \in Q /\ x = e => Copies(j, q, e)' = Copies(j, q, e) + 1
                  /\ ~(j = i /\ i \in hub /\ q \in Q /\ x = e) => Copies(j, q, e)' = Copies(j, q, e)
<1>1. got' \in [Instances -> [Recipients -> Seq(Events)]]
  BY DEF TypeOK, Broadcast
<1>2. ASSUME NEW j \in Instances, NEW q \in Recipients, NEW e \in Events
      PROVE  /\ Copies(j, q, e) \in Nat
             /\ j = i /\ i \in hub /\ q \in Q /\ x = e => Copies(j, q, e)' = Copies(j, q, e) + 1
             /\ ~(j = i /\ i \in hub /\ q \in Q /\ x = e) => Copies(j, q, e)' = Copies(j, q, e)
  <2>1. got[j][q] \in Seq(Events)
    BY DEF TypeOK
  <2>2. got'[j][q] = IF j = i /\ i \in hub /\ q \in Q THEN Append(got[j][q], x) ELSE got[j][q]
    BY DEF TypeOK, Broadcast
  <2>3. /\ Occurrences(got[j][q], e) \in Nat
        /\ Occurrences(Append(got[j][q], x), e) =
               IF x = e THEN Occurrences(got[j][q], e) + 1 ELSE Occurrences(got[j][q], e)
    BY <2>1, AppendOccurrences
  <2>4. Copies(j, q, e)' = Occurrences(got'[j][q], e)
    BY DEF Copies, Occurrences
  <2>5. CASE j = i /\ i \in hub /\ q \in Q
    BY <2>2, <2>3, <2>4, <2>5 DEF Copies
  <2>6. CASE ~(j = i /\ i \in hub /\ q \in Q)
    BY <2>2, <2>3, <2>4, <2>6 DEF Copies
  <2> QED
    BY <2>5, <2>6
<1> QED
  BY <1>1, <1>2
-----------------------------------------------------------------------------
\* Numbers of copies and of envelopes are numbers.
LEMMA CountTypes ==
    ASSUME TypeOK, NEW i \in Instances, NEW q \in Recipients, NEW e \in Events
    PROVE  Copies(i, q, e) \in Nat /\ Occurrences(stream[i], Envelope(e)) \in Nat
<1>1. /\ got[i][q] \in Seq(Events)
      /\ stream[i] \in Seq(Envelopes)
      /\ Envelope(e) \in Envelopes
  <2>1. got[i][q] \in Seq(Events) /\ stream[i] \in Seq(Envelopes) /\ origin[e] \in Instances
    BY DEF TypeOK
  <2> QED
    BY <2>1 DEF Envelope, Envelopes
<1>2. Copies(i, q, e) \in Nat
  BY <1>1, AppendOccurrences DEF Copies
<1>3. Occurrences(stream[i], Envelope(e)) \in Nat
  BY <1>1, AppendOccurrences
<1> QED
  BY <1>2, <1>3

\* Nothing has happened at first.
LEMMA InitInv == Init => Inv
<1> SUFFICES ASSUME Init PROVE Inv
  OBVIOUS
<1>1. TypeOK
  BY DEF Init, TypeOK
<1>2. CallFits /\ Honest /\ DoneIsLast
  <2>1. CallFits
    BY CallsShape DEF Init, CallFits
  <2>2. Honest
    BY DEF Init, Honest
  <2>3. DoneIsLast
    BY DEF Init, DoneIsLast
  <2> QED
    BY <2>1, <2>2, <2>3
<1>3. \A e : Occurrences(<<>>, e) = 0
  <2> SUFFICES ASSUME NEW e PROVE Occurrences(<<>>, e) = 0
    OBVIOUS
  <2>1. {k \in DOMAIN <<>> : <<>>[k] = e} = {}
    OBVIOUS
  <2> QED
    BY <2>1, FS_EmptySet DEF Occurrences
<1>4. \A i \in Instances, e \in Events, q \in Recipients :
          Copies(i, q, e) = 0 /\ Occurrences(stream[i], Envelope(e)) = 0
  BY <1>3 DEF Init, Copies
<1>5. LocalCount
  BY <1>1, <1>4, CallsShape DEF TypeOK, Init, LocalCount, Served
<1>6. RemoteCount
  BY <1>1, <1>4 DEF TypeOK, Init, RemoteCount, Published
<1> QED
  BY <1>1, <1>2, <1>5, <1>6 DEF Inv

\* Inv is preserved by the local broadcast.
LEMMA PublishLocalStep ==
    ASSUME Inv, NEW x \in Events, PublishLocal(x)
    PROVE  Inv'
<1> USE DEF Inv, PublishLocal, redisVars
<1>1. /\ origin[x] \in Instances
      /\ call[x] \in DOMAIN Calls(x)
      /\ Calls(x)[call[x]] \in SUBSET Recipients
  BY CallsShape DEF TypeOK, CallFits
<1>2. /\ got' \in [Instances -> [Recipients -> Seq(Events)]]
      /\ \A j \in Instances, q \in Recipients, e \in Events :
             /\ Copies(j, q, e) \in Nat
             /\ j = origin[x] /\ origin[x] \in hub /\ q \in Calls(x)[call[x]] /\ x = e =>
                    Copies(j, q, e)' = Copies(j, q, e) + 1
             /\ ~(j = origin[x] /\ origin[x] \in hub /\ q \in Calls(x)[call[x]] /\ x = e) =>
                    Copies(j, q, e)' = Copies(j, q, e)
  <2>1. TypeOK /\ Broadcast(origin[x], Calls(x)[call[x]], x)
    OBVIOUS
  <2> QED
    BY <1>1, <2>1, BroadcastAdds
<1>3. TypeOK'
  BY <1>2 DEF TypeOK
<1>4. CallFits' /\ Honest' /\ DoneIsLast'
  BY DEF CallFits, Honest, DoneIsLast, TypeOK
<1>5. LocalCount'
  <2> SUFFICES ASSUME NEW e \in Events, NEW q \in Recipients
               PROVE  /\ Copies(origin[e], q, e)' \in {0, 1}
                      /\ q \notin Served(e)' => Copies(origin[e], q, e)' = 0
                      /\ origin[e] \in hub /\ q \in Served(e)' => Copies(origin[e], q, e)' = 1
    BY DEF LocalCount
  <2>0. origin[e] \in Instances /\ Copies(origin[e], q, e)' = IF origin[x] \in hub /\ q \in Calls(x)[call[x]] /\ x = e
                                   THEN Copies(origin[e], q, e) + 1 ELSE Copies(origin[e], q, e)
    BY <1>2 DEF TypeOK, Copies
  <2>1. CASE e = x
    <3>1. Served(x)' = Served(x) \cup Calls(x)[call[x]]
      BY <1>1, CallsShape DEF Served, TypeOK
    <3>2. q \in Calls(x)[call[x]] => q \notin Served(x)
      BY <1>1, CallsShape DEF Served, TypeOK
    <3> QED
      BY <2>0, <2>1, <3>1, <3>2 DEF LocalCount
  <2>2. CASE e # x
    <3>1. Served(e)' = Served(e)
      BY <2>2 DEF Served, TypeOK
    <3> QED
      BY <2>0, <2>2, <3>1 DEF LocalCount
  <2> QED
    BY <2>1, <2>2
<1>6. RemoteCount'
  <2> SUFFICES ASSUME NEW i \in Instances, NEW e \in Events, NEW q \in Recipients, i # origin[e]
               PROVE  /\ Copies(i, q, e)' + Occurrences(stream'[i], Envelope(e)) <= Published(e)'
                      /\ q \notin Targets(e) => Copies(i, q, e)' = 0
    BY DEF RemoteCount, Envelope
  <2>0. /\ Copies(i, q, e) + Occurrences(stream[i], Envelope(e)) <= Published(e)
        /\ q \notin Targets(e) => Copies(i, q, e) = 0
        /\ Copies(i, q, e) \in Nat /\ Occurrences(stream[i], Envelope(e)) \in Nat
    BY CountTypes DEF RemoteCount
  <2>1. Published(e)' = Published(e) /\ stream' = stream
    BY DEF Published, TypeOK
  <2>2. Copies(i, q, e)' = Copies(i, q, e)
    BY <1>2
  <2> QED
    BY <2>0, <2>1, <2>2
<1> QED
  BY <1>3, <1>4, <1>5, <1>6

\* What the end of a publication does to the counts: nothing is served, and
\* one more publication is answered.
LEMMA NextCallCounts ==
    ASSUME Inv, NEW x \in Events, pc[x] = "redis", NextCall(x)
    PROVE  /\ pc' \in [Events -> {"local", "redis", "done"}]
           /\ call' \in [Events -> 1 .. 2]
           /\ CallFits' /\ DoneIsLast'
           /\ \A e \in Events : Served(e)' = Served(e)
           /\ Published(x) \in Nat /\ Published(x)' = Published(x) + 1
           /\ \A e \in Events : e # x => Published(e)' = Published(e)
<1> USE DEF Inv, NextCall
<1>1. call[x] \in 1 .. Len(Calls(x)) /\ Len(Calls(x)) \in 1 .. 2
  BY CallsShape DEF CallFits
<1>2. pc' \in [Events -> {"local", "redis", "done"}] /\ call' \in [Events -> 1 .. 2]
  <2>1. CASE call[x] < Len(Calls(x))
    <3>1. call[x] + 1 \in 1 .. 2
      <4>1. PICK n \in 1 .. 2 : n = Len(Calls(x))
        BY <1>1
      <4>2. call[x] \in 1 .. 2 /\ call[x] < n
        BY <2>1, <4>1 DEF TypeOK
      <4> QED
        BY <4>1, <4>2
    <3>2. call' = [call EXCEPT ![x] = call[x] + 1] /\ pc' = [pc EXCEPT ![x] = "local"]
      BY <2>1
    <3> QED
      BY <3>1, <3>2 DEF TypeOK
  <2>2. CASE ~(call[x] < Len(Calls(x)))
    BY <1>1, <2>2 DEF TypeOK
  <2> QED
    BY <2>1, <2>2
<1>3. CallFits' /\ DoneIsLast'
  BY <1>1, CallsShape DEF CallFits, DoneIsLast, TypeOK
<1>4. ASSUME NEW e \in Events PROVE Served(e)' = Served(e)
  <2>1. CASE e # x
    BY <2>1 DEF Served, TypeOK
  <2>2. CASE e = x /\ call[x] < Len(Calls(x))
    BY <1>1, <2>2, CallsShape DEF Served, TypeOK
  <2>3. CASE e = x /\ ~(call[x] < Len(Calls(x)))
    BY <1>1, <2>3, CallsShape DEF Served, TypeOK
  <2> QED
    BY <2>1, <2>2, <2>3
<1>5. Published(x) \in Nat /\ Published(x)' = Published(x) + 1
  <2>1. CASE call[x] < Len(Calls(x))
    BY <1>1, <2>1 DEF Published, TypeOK
  <2>2. CASE ~(call[x] < Len(Calls(x)))
    BY <1>1, <2>2 DEF Published, TypeOK
  <2> QED
    BY <2>1, <2>2
<1>6. \A e \in Events : e # x => Published(e)' = Published(e)
  BY DEF Published, TypeOK
<1> QED
  BY <1>2, <1>3, <1>4, <1>5, <1>6

\* Inv is preserved by a PUBLISH.
LEMMA PublishRedisStep ==
    ASSUME Inv, NEW x \in Events, PublishRedis(x)
    PROVE  Inv'
<1> USE DEF Inv, PublishRedis
<1>1. /\ pc' \in [Events -> {"local", "redis", "done"}]
      /\ call' \in [Events -> 1 .. 2]
      /\ CallFits' /\ DoneIsLast'
      /\ \A e \in Events : Served(e)' = Served(e)
      /\ Published(x) \in Nat /\ Published(x)' = Published(x) + 1
      /\ \A e \in Events : e # x => Published(e)' = Published(e)
  BY NextCallCounts
<1>2. \A i \in Instances : stream'[i] = Append(stream[i], Envelope(x)) \/ stream'[i] = stream[i]
  BY DEF Deliver, Envelope
<1>3. TypeOK'
  <2>1. stream' \in [Instances -> Seq(Envelopes)]
    <3>1. Envelope(x) \in Envelopes
      BY DEF Envelope, Envelopes, TypeOK
    <3>2. ASSUME NEW i \in Instances PROVE stream'[i] \in Seq(Envelopes)
      <4>1. stream[i] \in Seq(Envelopes)
        BY DEF TypeOK
      <4>2. Append(stream[i], Envelope(x)) \in Seq(Envelopes)
        BY <3>1, <4>1
      <4> QED
        BY <1>2, <4>1, <4>2
    <3>3. stream' = [i \in Instances |-> stream'[i]]
      BY DEF Deliver
    <3> QED
      BY <3>2, <3>3
  <2>2. owed' \in [Instances -> SUBSET Events]
    BY DEF Deliver, TypeOK
  <2>3. \A i \in Instances : subs[i] = 0 => stream'[i] = <<>>
    <3>1. Topic(x) \in 1 .. 4
      <4>1. CASE Kind[x] = "channel"
        BY <4>1 DEF Topic
      <4>2. CASE Kind[x] = "thread"
        BY <4>2 DEF Topic
      <4>3. CASE Kind[x] = "presence"
        BY <4>3 DEF Topic
      <4>4. CASE Kind[x] \notin {"channel", "thread", "presence"}
        BY <4>4 DEF Topic
      <4> QED
        BY <4>1, <4>2, <4>3, <4>4
    <3> QED
      BY <3>1 DEF Deliver, TypeOK
  <2> QED
    BY <1>1, <2>1, <2>2, <2>3 DEF TypeOK
<1>4. Honest'
  <2> SUFFICES ASSUME NEW i \in Instances, NEW k \in DOMAIN stream'[i]
               PROVE  stream'[i][k].origin = origin[stream'[i][k].event]
    BY DEF Honest
  <2>1. CASE stream'[i] = stream[i]
    BY <2>1 DEF Honest
  <2>2. CASE stream'[i] = Append(stream[i], Envelope(x))
    BY <2>2 DEF Honest, TypeOK, Envelope
  <2> QED
    BY <1>2, <2>1, <2>2
<1>5. LocalCount'
  BY <1>1 DEF LocalCount
<1>6. RemoteCount'
  <2> SUFFICES ASSUME NEW i \in Instances, NEW e \in Events, NEW q \in Recipients, i # origin[e]
               PROVE  /\ Copies(i, q, e)' + Occurrences(stream'[i], Envelope(e)) <= Published(e)'
                      /\ q \notin Targets(e) => Copies(i, q, e)' = 0
    BY DEF RemoteCount, Envelope
  <2>0. /\ Copies(i, q, e) + Occurrences(stream[i], Envelope(e)) <= Published(e)
        /\ q \notin Targets(e) => Copies(i, q, e) = 0
        /\ Copies(i, q, e) \in Nat /\ Occurrences(stream[i], Envelope(e)) \in Nat
    BY CountTypes DEF RemoteCount
  <2>2. /\ stream[i] \in Seq(Envelopes)
        /\ Envelope(x) \in Envelopes
        /\ Envelope(x) = Envelope(e) => x = e
    BY DEF TypeOK, Envelopes, Envelope
  <2>3. CASE e = x
    <3>1. Occurrences(Append(stream[i], Envelope(x)), Envelope(e)) =
              Occurrences(stream[i], Envelope(e)) + 1
      BY <2>2, <2>3, AppendOccurrences
    <3>2. Published(e) \in Nat /\ Published(e)' = Published(e) + 1
      BY <1>1, <2>3
    <3>3. CASE stream'[i] = stream[i]
      BY <2>0, <3>2, <3>3
    <3>4. CASE stream'[i] = Append(stream[i], Envelope(x))
      BY <2>0, <3>1, <3>2, <3>4
    <3> QED
      BY <1>2, <3>3, <3>4
  <2>4. CASE e # x
    <3>1. Occurrences(Append(stream[i], Envelope(x)), Envelope(e)) =
              Occurrences(stream[i], Envelope(e))
      BY <2>2, <2>4, AppendOccurrences
    <3> QED
      BY <1>1, <1>2, <2>0, <2>4, <3>1
  <2> QED
    BY <2>3, <2>4
<1> QED
  BY <1>1, <1>3, <1>4, <1>5, <1>6

\* Inv is preserved by a PUBLISH that fails.
LEMMA PublishFailsStep ==
    ASSUME Inv, NEW x \in Events, PublishFails(x)
    PROVE  Inv'
<1> USE DEF Inv, PublishFails, redisVars
<1>1. /\ pc' \in [Events -> {"local", "redis", "done"}]
      /\ call' \in [Events -> 1 .. 2]
      /\ CallFits' /\ DoneIsLast'
      /\ \A e \in Events : Served(e)' = Served(e)
      /\ Published(x) \in Nat /\ Published(x)' = Published(x) + 1
      /\ \A e \in Events : e # x => Published(e)' = Published(e)
  BY NextCallCounts
<1>2. TypeOK'
  BY <1>1 DEF TypeOK
<1>3. Honest'
  BY DEF Honest
<1>4. LocalCount'
  BY <1>1 DEF LocalCount
<1>5. RemoteCount'
  <2> SUFFICES ASSUME NEW i \in Instances, NEW e \in Events, NEW q \in Recipients, i # origin[e]
               PROVE  /\ Copies(i, q, e)' + Occurrences(stream'[i], Envelope(e)) <= Published(e)'
                      /\ q \notin Targets(e) => Copies(i, q, e)' = 0
    BY DEF RemoteCount, Envelope
  <2>0. /\ Copies(i, q, e) + Occurrences(stream[i], Envelope(e)) <= Published(e)
        /\ q \notin Targets(e) => Copies(i, q, e) = 0
        /\ Copies(i, q, e) \in Nat /\ Occurrences(stream[i], Envelope(e)) \in Nat
    BY CountTypes DEF RemoteCount
  <2>1. CASE e = x
    BY <1>1, <2>0, <2>1
  <2>2. CASE e # x
    BY <1>1, <2>0, <2>2
  <2> QED
    BY <2>1, <2>2
<1> QED
  BY <1>1, <1>2, <1>3, <1>4, <1>5
\* Inv is preserved when a listener moves: its session keeps what it has to
\* read, or starts from nothing.
LEMMA GotoStep ==
    ASSUME Inv, NEW i \in Instances, NEW label, NEW n \in 0 .. 4, NEW s,
           Goto(i, label, n, s),
           label \in {"loop", "connected", "listening", "backoff", "stopped"},
           label = "connected" => n < 4,
           s = <<>> \/ (s = stream[i] /\ n # 0),
           faults' \in 0 .. MaxFaults,
           UNCHANGED <<eventVars, got, hub, cancelled>>
    PROVE  Inv'
<1> USE DEF Inv, Goto, eventVars
<1>0. s \in Seq(Envelopes)
  <2>1. stream[i] \in Seq(Envelopes) /\ <<>> \in Seq(Envelopes)
    BY DEF TypeOK
  <2> QED
    BY <2>1
<1>1. /\ s \in Seq(Envelopes)
      /\ stream'[i] = s
      /\ \A j \in Instances : j # i => stream'[j] = stream[j]
  BY <1>0 DEF TypeOK
<1>2. TypeOK'
  BY <1>1 DEF TypeOK
<1>3. CallFits' /\ DoneIsLast' /\ LocalCount'
  BY DEF CallFits, DoneIsLast, LocalCount, Served
<1>4. Honest'
  BY <1>1 DEF Honest
<1>5. RemoteCount'
  <2> SUFFICES ASSUME NEW j \in Instances, NEW e \in Events, NEW q \in Recipients, j # origin[e]
               PROVE  /\ Copies(j, q, e) + Occurrences(stream'[j], Envelope(e)) <= Published(e)
                      /\ q \notin Targets(e) => Copies(j, q, e) = 0
    BY DEF RemoteCount, Envelope, Published
  <2>1. /\ Copies(j, q, e) + Occurrences(stream[j], Envelope(e)) <= Published(e)
        /\ q \notin Targets(e) => Copies(j, q, e) = 0
        /\ Copies(j, q, e) \in Nat /\ Occurrences(stream[j], Envelope(e)) \in Nat
    BY CountTypes DEF RemoteCount
  <2>2. Occurrences(<<>>, Envelope(e)) = 0
    <3>1. {k \in DOMAIN <<>> : <<>>[k] = Envelope(e)} = {}
      OBVIOUS
    <3> QED
      BY <3>1, FS_EmptySet DEF Occurrences
  <2>3. CASE stream'[j] = stream[j]
    BY <2>1, <2>3
  <2>4. CASE stream'[j] = <<>>
    <3>1. Published(e) \in Int
      <4>1. call[e] \in Int
        BY DEF TypeOK
      <4> QED
        BY <4>1 DEF Published
    <3> QED
      BY <2>1, <2>2, <2>4, <3>1
  <2> QED
    BY <1>1, <2>3, <2>4
<1> QED
  BY <1>2, <1>3, <1>4, <1>5

\* Inv is preserved by the steps of a listener that read nothing.
LEMMA ListenerStep ==
    ASSUME Inv, NEW i \in Instances,
           Connect(i) \/ Subscribe(i) \/ SessionFails(i) \/ Retry(i) \/ Stop(i)
    PROVE  Inv'
<1>0. TypeOK /\ MaxFaults \in Nat
  BY DEF Inv
<1>1. CASE Connect(i)
  BY <1>0, <1>1, GotoStep DEF Connect, TypeOK
<1>2. CASE Subscribe(i)
  <2>1. subs[i] + 1 \in 1 .. 4 /\ subs[i] \in 0 .. 3
    BY <1>0, <1>2 DEF Subscribe, TypeOK
  <2>2. CASE subs[i] = 3
    <3>1. Goto(i, "listening", 4, stream[i])
      BY <1>2, <2>2 DEF Subscribe
    <3>2. faults' \in 0 .. MaxFaults /\ UNCHANGED <<eventVars, got, hub, cancelled>>
      BY <1>0, <1>2 DEF Subscribe, TypeOK
    <3> QED
      BY <3>1, <3>2, GotoStep
  <2>3. CASE subs[i] # 3
    <3>1. Goto(i, "connected", subs[i] + 1, stream[i])
      BY <1>2, <2>3 DEF Subscribe
    <3>2. faults' \in 0 .. MaxFaults /\ UNCHANGED <<eventVars, got, hub, cancelled>>
      BY <1>0, <1>2 DEF Subscribe, TypeOK
    <3>3. subs[i] + 1 < 4 /\ subs[i] + 1 \in 0 .. 4 /\ subs[i] + 1 # 0
      BY <2>1, <2>3
    <3> QED
      BY <3>1, <3>2, <3>3, GotoStep
  <2> QED
    BY <2>2, <2>3
<1>3. CASE SessionFails(i)
  BY <1>0, <1>3, GotoStep DEF SessionFails, TypeOK
<1>4. CASE Retry(i)
  BY <1>0, <1>4, GotoStep DEF Retry, TypeOK
<1>5. CASE Stop(i)
  BY <1>0, <1>5, GotoStep DEF Stop, TypeOK
<1> QED
  BY <1>1, <1>2, <1>3, <1>4, <1>5

\* Inv is preserved when a listener reads an envelope.
LEMMA ReceiveStep ==
    ASSUME Inv, NEW i \in Instances, Receive(i)
    PROVE  Inv'
<1> USE DEF Inv, Receive, eventVars
<1>1. PICK x \in Events : Head(stream[i]) = Envelope(x)
  <2>1. /\ stream[i] \in Seq(Envelopes) /\ stream[i] # <<>>
        /\ Head(stream[i]) = stream[i][1] /\ 1 \in DOMAIN stream[i]
    BY DEF TypeOK
  <2>2. PICK m \in Envelopes : m = stream[i][1]
    BY <2>1
  <2>3. m.event \in Events /\ m.origin = origin[m.event] /\ m = [origin |-> m.origin, event |-> m.event]
    BY <2>1, <2>2 DEF Honest, Envelopes
  <2> QED
    BY <2>1, <2>2, <2>3 DEF Envelope
<1>2. /\ origin[x] = i => got' = got
      /\ origin[x] # i => Broadcast(i, Targets(x), x)
  BY <1>1 DEF Envelope
<1>3. Targets(x) \in SUBSET Recipients
  BY CallsShape
<1>4. /\ got' \in [Instances -> [Recipients -> Seq(Events)]]
      /\ \A j \in Instances, q \in Recipients, e \in Events :
             /\ Copies(j, q, e) \in Nat
             /\ j = i /\ i \in hub /\ q \in Targets(x) /\ x = e /\ origin[x] # i =>
                    Copies(j, q, e)' = Copies(j, q, e) + 1
             /\ ~(j = i /\ i \in hub /\ q \in Targets(x) /\ x = e /\ origin[x] # i) =>
                    Copies(j, q, e)' = Copies(j, q, e)
  <2>1. CASE origin[x] = i
    BY <1>2, <2>1, CountTypes DEF TypeOK
  <2>2. CASE origin[x] # i
    <3>1. TypeOK /\ Broadcast(i, Targets(x), x)
      BY <1>2, <2>2
    <3>2. /\ got' \in [Instances -> [Recipients -> Seq(Events)]]
          /\ \A j \in Instances, q \in Recipients, e \in Events :
                 /\ Copies(j, q, e) \in Nat
                 /\ j = i /\ i \in hub /\ q \in Targets(x) /\ x = e =>
                        Copies(j, q, e)' = Copies(j, q, e) + 1
                 /\ ~(j = i /\ i \in hub /\ q \in Targets(x) /\ x = e) =>
                        Copies(j, q, e)' = Copies(j, q, e)
      <4> HIDE DEF Inv, Receive, eventVars
      <4> QED
        BY <1>3, <3>1, BroadcastAdds
    <3> QED
      BY <2>2, <3>2
  <2> QED
    BY <2>1, <2>2
<1>5. /\ stream[i] \in Seq(Envelopes) /\ Tail(stream[i]) \in Seq(Envelopes)
      /\ stream'[i] = Tail(stream[i])
      /\ \A j \in Instances : j # i => stream'[j] = stream[j]
      /\ stream' \in [Instances -> Seq(Envelopes)]
  BY DEF TypeOK
<1>6. TypeOK'
  <2>1. owed' \in [Instances -> SUBSET Events]
    BY DEF TypeOK
  <2>2. \A j \in Instances : subs[j] = 0 => stream'[j] = <<>>
    BY <1>5 DEF TypeOK
  <2> QED
    BY <1>4, <1>5, <2>1, <2>2 DEF TypeOK
<1>7. CallFits' /\ DoneIsLast'
  BY DEF CallFits, DoneIsLast
<1>8. Honest'
  <2> SUFFICES ASSUME NEW j \in Instances, NEW k \in DOMAIN stream'[j]
               PROVE  stream'[j][k].origin = origin[stream'[j][k].event]
    BY DEF Honest
  <2>1. CASE j # i
    BY <1>5, <2>1 DEF Honest
  <2>2. CASE j = i
    <3>1. stream[i] # <<>> /\ k + 1 \in DOMAIN stream[i] /\ stream'[j][k] = stream[i][k + 1]
      BY <1>5, <2>2
    <3> QED
      BY <3>1 DEF Honest
  <2> QED
    BY <2>1, <2>2
<1>9. LocalCount'
  <2> SUFFICES ASSUME NEW e \in Events, NEW q \in Recipients
               PROVE  Copies(origin[e], q, e)' = Copies(origin[e], q, e) /\ Served(e)' = Served(e)
    BY DEF LocalCount
  <2>1. origin[e] \in Instances
    BY DEF TypeOK
  <2> QED
    BY <1>4, <2>1 DEF Served
<1>10. RemoteCount'
  <2> SUFFICES ASSUME NEW j \in Instances, NEW e \in Events, NEW q \in Recipients, j # origin[e]
               PROVE  /\ Copies(j, q, e)' + Occurrences(stream'[j], Envelope(e)) <= Published(e)
                      /\ q \notin Targets(e) => Copies(j, q, e)' = 0
    BY DEF RemoteCount, Envelope, Published
  <2>1. /\ Copies(j, q, e) + Occurrences(stream[j], Envelope(e)) <= Published(e)
        /\ q \notin Targets(e) => Copies(j, q, e) = 0
        /\ Copies(j, q, e) \in Nat /\ Occurrences(stream[j], Envelope(e)) \in Nat
    BY CountTypes DEF RemoteCount
  <2>2. CASE j # i
    BY <1>4, <1>5, <2>1, <2>2
  <2>3. CASE j = i /\ e # x
    <3>1. Envelope(x) # Envelope(e)
      BY <2>3 DEF Envelope
    <3>2. Occurrences(stream[i], Envelope(e)) = Occurrences(Tail(stream[i]), Envelope(e))
      BY <1>1, <1>5, <3>1, TailOccurrences
    <3> QED
      BY <1>4, <1>5, <2>1, <2>3, <3>2
  <2>4. CASE j = i /\ e = x
    <3>1. /\ Occurrences(stream[i], Envelope(e)) = Occurrences(Tail(stream[i]), Envelope(e)) + 1
          /\ Occurrences(Tail(stream[i]), Envelope(e)) \in Nat
      BY <1>1, <1>5, <2>4, TailOccurrences
    <3>2. Published(e) \in Int
      <4>1. call[e] \in Int
        BY DEF TypeOK
      <4> QED
        BY <4>1 DEF Published
    <3>3. CASE i \in hub /\ q \in Targets(x)
      <4>1. Copies(j, q, e)' = Copies(j, q, e) + 1
        BY <1>4, <2>4, <3>3
      <4> QED
        BY <1>5, <2>1, <2>4, <3>1, <3>2, <3>3, <4>1
    <3>4. CASE ~(i \in hub /\ q \in Targets(x))
      <4>1. Copies(j, q, e)' = Copies(j, q, e)
        BY <1>4, <2>4, <3>4
      <4> QED
        BY <1>5, <2>1, <2>4, <3>1, <3>2, <4>1
    <3> QED
      BY <3>3, <3>4
  <2> QED
    BY <2>2, <2>3, <2>4
<1> QED
  BY <1>6, <1>7, <1>8, <1>9, <1>10

\* Inv is preserved by the shutdown.
LEMMA ShutdownStep ==
    ASSUME Inv, NEW i \in Instances, Cancel(i) \/ ShutdownHub(i)
    PROVE  Inv'
<1> USE DEF Inv, Cancel, ShutdownHub, eventVars, redisVars
<1>1. TypeOK'
  BY DEF TypeOK
<1>2. CallFits' /\ DoneIsLast' /\ Honest'
  BY DEF CallFits, DoneIsLast, Honest
<1>3. LocalCount'
  BY DEF LocalCount, Served
<1>4. RemoteCount'
  BY DEF RemoteCount, Published, Envelope
<1> QED
  BY <1>1, <1>2, <1>3, <1>4
\* Inv holds in every reachable state.
THEOREM Invariance == Spec => []Inv
<1>1. Init => Inv
  BY InitInv
<1>2. Inv /\ [Next]_vars => Inv'
  <2> SUFFICES ASSUME Inv, [Next]_vars PROVE Inv'
    OBVIOUS
  <2>1. CASE UNCHANGED vars
    BY <2>1 DEF Inv, TypeOK, CallFits, Honest, DoneIsLast, LocalCount, RemoteCount, Served,
                Published, Envelope, vars, eventVars, redisVars
  <2>2. ASSUME NEW e \in Events, Publish(e) PROVE Inv'
    BY <2>2, PublishLocalStep, PublishRedisStep, PublishFailsStep DEF Publish
  <2>3. ASSUME NEW i \in Instances,
               Listen(i) \/ SessionFails(i) \/ Cancel(i) \/ ShutdownHub(i)
        PROVE  Inv'
    BY <2>3, ListenerStep, ReceiveStep, ShutdownStep DEF Listen
  <2> QED
    BY <2>1, <2>2, <2>3 DEF Next
<1> QED
  BY <1>1, <1>2, PTL DEF Spec

\* The variables have their types, and an unsubscribed listener has nothing
\* to read.
THEOREM TypeCorrect == Spec => []TypeOK
<1>1. Inv => TypeOK
  BY DEF Inv
<1> QED
  BY <1>1, Invariance, PTL

\* An event whose handler is done reached each of its recipients on its own
\* instance exactly once, whatever Redis did.
THEOREM DeliveredLocally == Spec => []LocalDelivery
<1>1. Inv => LocalDelivery
  <2> SUFFICES ASSUME Inv, NEW e \in Events, pc[e] = "done", origin[e] \in hub,
                      NEW q \in Targets(e)
               PROVE  Copies(origin[e], q, e) = 1
    BY DEF LocalDelivery
  <2>1. call[e] = Len(Calls(e)) /\ q \in Recipients
    BY CallsShape DEF Inv, DoneIsLast
  <2>2. q \in Served(e)
    BY <2>1, CallsShape DEF Served
  <2> QED
    BY <2>1, <2>2 DEF Inv, LocalCount
<1> QED
  BY <1>1, Invariance, PTL

\* Nobody gets more copies of an event than it has publications, nor more
\* than one where it was published, and only those it is for get any.
THEOREM NoDuplicates == Spec => []AtMostOnce
<1>1. Inv => AtMostOnce
  <2> SUFFICES ASSUME Inv, NEW i \in Instances, NEW e \in Events, NEW q \in Recipients
               PROVE  /\ q \notin Targets(e) => Copies(i, q, e) = 0
                      /\ i = origin[e] => Copies(i, q, e) <= 1
                      /\ Copies(i, q, e) <= Len(Calls(e))
    BY DEF AtMostOnce
  <2>1. /\ Copies(i, q, e) \in Nat /\ Occurrences(stream[i], Envelope(e)) \in Nat
        /\ call[e] \in 1 .. Len(Calls(e)) /\ Len(Calls(e)) \in 1 .. 2
    BY CountTypes, CallsShape DEF Inv, CallFits
  <2>2. CASE i = origin[e]
    <3>1. q \in Served(e) => q \in Targets(e)
      BY CallsShape DEF Served
    <3> QED
      BY <2>1, <2>2, <3>1 DEF Inv, LocalCount
  <2>3. CASE i # origin[e]
    <3>1. /\ Copies(i, q, e) + Occurrences(stream[i], Envelope(e)) <= Published(e)
          /\ q \notin Targets(e) => Copies(i, q, e) = 0
      BY <2>3 DEF Inv, RemoteCount
    <3>2. Published(e) \in Int /\ Published(e) <= Len(Calls(e))
      BY <2>1 DEF Published
    <3> QED
      BY <2>1, <2>3, <3>1, <3>2
  <2> QED
    BY <2>2, <2>3
<1> QED
  BY <1>1, Invariance, PTL

-----------------------------------------------------------------------------
(* The order of events.                                                    *)

\* The handler of e has broadcast it.
Begun(e) == pc[e] # "local" \/ call[e] # 1

\* Events are seen and on their way only after that.
Started ==
    /\ \A i \in Instances, q \in Recipients : \A k \in DOMAIN got[i][q] : Begun(got[i][q][k])
    /\ \A i \in Instances : \A k \in DOMAIN stream[i] : Begun(stream[i][k].event)

\* An event that others came after is done.
BeforeFits == \A d, e \in Events : <<d, e>> \in before => pc[d] = "done" /\ Begun(e)

\* Envelopes wait in the order of their publication ...
StreamOrder ==
    \A i \in Instances : \A j, k \in DOMAIN stream[i] :
        <<stream[i][k].event, stream[i][j].event>> \in before => k <= j

\* ... and what the listener dispatched was before all it has yet to read.
ReadInOrder ==
    \A i \in Instances, q \in Recipients :
        \A j \in DOMAIN got[i][q], k \in DOMAIN stream[i] :
            origin[got[i][q][j]] # i => <<stream[i][k].event, got[i][q][j]>> \notin before

CausalInv == Started /\ BeforeFits /\ StreamOrder /\ ReadInOrder /\ CausalOrder

\* What sessions got and what waits are events.
LEMMA SeenEvents ==
    ASSUME TypeOK
    PROVE  /\ \A i \in Instances, q \in Recipients :
                 got[i][q] \in Seq(Events) /\ \A k \in DOMAIN got[i][q] : got[i][q][k] \in Events
           /\ \A i \in Instances :
                 stream[i] \in Seq(Envelopes) /\ \A k \in DOMAIN stream[i] : stream[i][k].event \in Events
<1>1. ASSUME NEW i \in Instances, NEW q \in Recipients
      PROVE  got[i][q] \in Seq(Events) /\ \A k \in DOMAIN got[i][q] : got[i][q][k] \in Events
  BY DEF TypeOK
<1>2. ASSUME NEW i \in Instances
      PROVE  stream[i] \in Seq(Envelopes) /\ \A k \in DOMAIN stream[i] : stream[i][k].event \in Events
  <2>1. stream[i] \in Seq(Envelopes)
    BY DEF TypeOK
  <2>2. \A k \in DOMAIN stream[i] : stream[i][k] \in Envelopes
    BY <2>1
  <2> QED
    BY <2>1, <2>2 DEF Envelopes
<1> QED
  BY <1>1, <1>2

\* A broadcast appends the event, to some of the sessions of its instance.
LEMMA BroadcastAppends ==
    ASSUME TypeOK, NEW i \in Instances, NEW Q \in SUBSET Recipients, NEW x \in Events,
           Broadcast(i, Q, x)
    PROVE  \A j \in Instances, q \in Recipients :
               got'[j][q] = got[j][q] \/ (j = i /\ got'[j][q] = Append(got[j][q], x))
  BY DEF TypeOK, Broadcast

\* Nobody begins an event, and the streams keep what they have, lose it or
\* its first part, or get an event that nothing came after.
LEMMA CausalStreams ==
    ASSUME TypeOK, CausalInv, UNCHANGED <<got, before, origin>>,
           \A e \in Events : Begun(e) => Begun(e)',
           \A e \in Events : pc[e] = "done" => pc'[e] = "done",
           NEW x \in Events, Begun(x), pc[x] # "done",
           \A i \in Instances :
               stream'[i] = stream[i] \/ stream'[i] = <<>> \/ stream'[i] = Append(stream[i], Envelope(x))
    PROVE  CausalInv'
<1> USE DEF CausalInv
<1>0. \A d, e \in Events : <<d, e>> \in before => d # x /\ pc[d] = "done" /\ Begun(e)
  BY DEF BeforeFits
<1>1. BeforeFits'
  BY <1>0 DEF BeforeFits
<1>2. CausalOrder'
  BY DEF CausalOrder
<1>3. ASSUME NEW i \in Instances, NEW k \in DOMAIN stream'[i]
      PROVE  \/ k \in DOMAIN stream[i] /\ stream'[i][k] = stream[i][k]
             \/ k = Len(stream[i]) + 1 /\ stream'[i][k].event = x
  <2>1. stream[i] \in Seq(Envelopes) /\ Envelope(x).event = x
    BY SeenEvents DEF Envelope
  <2>2. CASE stream'[i] = Append(stream[i], Envelope(x))
    <3>1. k \in 1 .. Len(stream[i]) + 1
      BY <1>3, <2>1, <2>2
    <3> QED
      BY <2>1, <2>2, <3>1
  <2>3. CASE stream'[i] = stream[i]
    BY <1>3, <2>3
  <2>4. CASE stream'[i] = <<>>
    BY <1>3, <2>4
  <2> QED
    BY <2>2, <2>3, <2>4
<1>4. Started'
  <2>1. \A i \in Instances, q \in Recipients : \A k \in DOMAIN got[i][q] : Begun(got[i][q][k])'
    BY SeenEvents DEF Started, Begun
  <2>2. ASSUME NEW i \in Instances, NEW k \in DOMAIN stream'[i]
        PROVE  Begun(stream[i][k].event)'
    <3>1. PICK e \in Events : e = stream'[i][k].event /\ Begun(e)
      BY <1>3, <2>2, SeenEvents DEF Started
    <3>2. Begun(e)'
      BY <3>1
    <3> QED
      BY <3>1, <3>2 DEF Begun
  <2> QED
    BY <2>1, <2>2 DEF Started
<1>5. StreamOrder'
  <2> SUFFICES ASSUME NEW i \in Instances, NEW j \in DOMAIN stream'[i], NEW k \in DOMAIN stream'[i],
                      <<stream'[i][k].event, stream'[i][j].event>> \in before
               PROVE  k <= j
    BY DEF StreamOrder
  <2>0. Len(stream[i]) \in Nat /\ DOMAIN stream[i] = 1 .. Len(stream[i])
    BY SeenEvents
  <2>1. stream'[i][j].event \in Events
    BY <1>3, SeenEvents
  <2>2. k \in DOMAIN stream[i] /\ stream'[i][k] = stream[i][k]
    BY <1>0, <1>3, <2>1
  <2>3. CASE j \in DOMAIN stream[i] /\ stream'[i][j] = stream[i][j]
    BY <2>2, <2>3 DEF StreamOrder
  <2>4. CASE j = Len(stream[i]) + 1
    BY <2>0, <2>2, <2>4
  <2> QED
    BY <1>3, <2>3, <2>4
<1>6. ReadInOrder'
  <2>1. ASSUME NEW i \in Instances, NEW q \in Recipients, NEW j \in DOMAIN got[i][q],
               NEW k \in DOMAIN stream'[i], origin[got[i][q][j]] # i
        PROVE  <<stream'[i][k].event, got[i][q][j]>> \notin before
    <3>1. CASE k \in DOMAIN stream[i] /\ stream'[i][k] = stream[i][k]
      BY <2>1, <3>1 DEF ReadInOrder
    <3>2. CASE stream'[i][k].event = x
      <4>1. got[i][q][j] \in Events
        BY SeenEvents
      <4> QED
        BY <1>0, <3>2, <4>1
    <3> QED
      BY <1>3, <3>1, <3>2
  <2> HIDE DEF CausalInv
  <2> QED
    BY <2>1 DEF ReadInOrder
<1> QED
  BY <1>1, <1>2, <1>4, <1>5, <1>6

\* The broadcast on the own instance comes after all that is done, and what
\* is done is not broadcast again.
LEMMA CausalLocal ==
    ASSUME TypeOK, CallFits, CausalInv, NEW x \in Events, PublishLocal(x)
    PROVE  CausalInv'
<1> USE DEF CausalInv
<1>1. /\ pc[x] = "local" /\ pc' = [pc EXCEPT ![x] = "redis"]
      /\ UNCHANGED <<call, origin, stream>>
      /\ \A d, e \in Events : <<d, e>> \in before' =>
             <<d, e>> \in before \/ (e = x /\ pc[d] = "done" /\ ~Begun(x))
  BY DEF PublishLocal, redisVars, Begun
<1>2. /\ pc'[x] = "redis" /\ \A e \in Events \ {x} : pc'[e] = pc[e]
      /\ \A e \in Events : Begun(e) => Begun(e)'
      /\ Begun(x)'
  BY <1>1 DEF TypeOK, Begun
<1>3. \A i \in Instances, q \in Recipients :
          got'[i][q] = got[i][q] \/ (i = origin[x] /\ got'[i][q] = Append(got[i][q], x))
  <2>1. /\ origin[x] \in Instances /\ Calls(x)[call[x]] \in SUBSET Recipients
        /\ Broadcast(origin[x], Calls(x)[call[x]], x)
    BY CallsShape DEF TypeOK, CallFits, PublishLocal
  <2> QED
    BY <2>1, BroadcastAppends
<1>4. ASSUME NEW i \in Instances, NEW q \in Recipients, NEW k \in DOMAIN got'[i][q]
      PROVE  \/ k \in DOMAIN got[i][q] /\ got'[i][q][k] = got[i][q][k]
             \/ k = Len(got[i][q]) + 1 /\ got'[i][q][k] = x /\ i = origin[x]
  <2>1. got[i][q] \in Seq(Events)
    BY SeenEvents
  <2>2. CASE i = origin[x] /\ got'[i][q] = Append(got[i][q], x)
    <3>1. k \in 1 .. Len(got[i][q]) + 1
      BY <1>4, <2>1, <2>2
    <3> QED
      BY <2>1, <2>2, <3>1
  <2>3. CASE got'[i][q] = got[i][q]
    BY <1>4, <2>3
  <2> QED
    BY <1>3, <2>2, <2>3
<1>5. \A d, e \in Events : <<d, e>> \in before' => d # x /\ pc'[d] = "done" /\ Begun(e)'
  <2> SUFFICES ASSUME NEW d \in Events, NEW e \in Events, <<d, e>> \in before'
               PROVE  d # x /\ pc'[d] = "done" /\ Begun(e)'
    OBVIOUS
  <2>1. pc[d] = "done" /\ (Begun(e) \/ e = x)
    BY <1>1 DEF BeforeFits
  <2> QED
    BY <1>1, <1>2, <2>1
<1>6. ASSUME NEW i \in Instances, NEW q \in Recipients, NEW k \in DOMAIN got[i][q], NEW d \in Events,
             <<d, got[i][q][k]>> \in before'
      PROVE  <<d, got[i][q][k]>> \in before
  BY <1>1, <1>6, SeenEvents DEF Started
<1>7. BeforeFits'
  BY <1>5 DEF BeforeFits
<1>8. Started'
  <2>1. ASSUME NEW i \in Instances, NEW q \in Recipients, NEW k \in DOMAIN got'[i][q]
        PROVE  Begun(got[i][q][k])'
    <3>1. PICK e \in Events : e = got'[i][q][k] /\ (e = x \/ Begun(e))
      BY <1>4, <2>1, SeenEvents DEF Started
    <3>2. Begun(e)'
      BY <1>2, <3>1
    <3> QED
      BY <3>1, <3>2 DEF Begun
  <2>2. ASSUME NEW i \in Instances, NEW k \in DOMAIN stream[i] PROVE Begun(stream[i][k].event)'
    <3>1. PICK e \in Events : e = stream[i][k].event /\ Begun(e)
      BY <2>2, SeenEvents DEF Started
    <3>2. Begun(e)'
      BY <1>2, <3>1
    <3> QED
      BY <1>1, <3>1, <3>2 DEF Begun
  <2> QED
    BY <1>1, <2>1, <2>2 DEF Started
<1>9. StreamOrder'
  <2> SUFFICES ASSUME NEW i \in Instances, NEW j \in DOMAIN stream[i], NEW k \in DOMAIN stream[i],
                      <<stream[i][k].event, stream[i][j].event>> \in before'
               PROVE  k <= j
    BY <1>1 DEF StreamOrder
  <2>1. <<stream[i][k].event, stream[i][j].event>> \in before
    BY <1>1, SeenEvents DEF Started
  <2> QED
    BY <2>1 DEF StreamOrder
<1>10. ReadInOrder'
  <2> SUFFICES ASSUME NEW i \in Instances, NEW q \in Recipients, NEW j \in DOMAIN got'[i][q],
                      NEW k \in DOMAIN stream[i], origin[got'[i][q][j]] # i,
                      <<stream[i][k].event, got'[i][q][j]>> \in before'
               PROVE  FALSE
    BY <1>1 DEF ReadInOrder
  <2>1. j \in DOMAIN got[i][q] /\ got'[i][q][j] = got[i][q][j]
    BY <1>4
  <2>2. <<stream[i][k].event, got[i][q][j]>> \in before
    BY <1>6, <2>1, SeenEvents
  <2> QED
    BY <2>1, <2>2 DEF ReadInOrder
<1>11. CausalOrder'
  <2> SUFFICES ASSUME NEW i \in Instances, NEW q \in Recipients,
                      NEW j \in DOMAIN got'[i][q], NEW k \in DOMAIN got'[i][q],
                      <<got'[i][q][k], got'[i][q][j]>> \in before',
                      origin[got'[i][q][j]] = i => origin[got'[i][q][k]] = i
               PROVE  k <= j
    BY <1>1 DEF CausalOrder
  <2>0. Len(got[i][q]) \in Nat /\ DOMAIN got[i][q] = 1 .. Len(got[i][q])
    BY SeenEvents
  <2>1. got'[i][q][j] \in Events /\ got'[i][q][k] \in Events
    BY <1>4, SeenEvents
  <2>2. k \in DOMAIN got[i][q] /\ got'[i][q][k] = got[i][q][k]
    BY <1>4, <1>5, <2>1
  <2>3. CASE j \in DOMAIN got[i][q] /\ got'[i][q][j] = got[i][q][j]
    BY <1>6, <2>1, <2>2, <2>3 DEF CausalOrder
  <2>4. CASE j = Len(got[i][q]) + 1
    BY <2>0, <2>2, <2>4
  <2> QED
    BY <1>4, <2>3, <2>4
<1> QED
  BY <1>7, <1>8, <1>9, <1>10, <1>11

\* The listener reads the first envelope: nothing that came before it is left.
LEMMA CausalReceive ==
    ASSUME TypeOK, Honest, CausalInv, NEW h \in Instances, Receive(h)
    PROVE  CausalInv'
<1> USE DEF CausalInv
<1>1. UNCHANGED <<pc, call, origin, before>>
  BY DEF Receive, eventVars
<1>2. /\ stream[h] \in Seq(Envelopes) /\ stream[h] # <<>> /\ 1 \in DOMAIN stream[h]
      /\ Head(stream[h]) = stream[h][1]
  BY SeenEvents DEF Receive
<1>3. PICK x \in Events : x = stream[h][1].event /\ stream[h][1].origin = origin[x]
  BY <1>2, SeenEvents DEF Honest
<1>4. \/ got' = got
      \/ origin[x] # h /\ Broadcast(h, Targets(x), x)
  BY <1>2, <1>3 DEF Receive
<1>5. \A i \in Instances, q \in Recipients :
          got'[i][q] = got[i][q] \/ (i = h /\ origin[x] # h /\ got'[i][q] = Append(got[i][q], x))
  <2>1. Targets(x) \in SUBSET Recipients
    BY CallsShape
  <2>2. CASE got' = got
    BY <2>2
  <2>3. CASE origin[x] # h /\ Broadcast(h, Targets(x), x)
    <3>1. \A i \in Instances, q \in Recipients :
              got'[i][q] = got[i][q] \/ (i = h /\ got'[i][q] = Append(got[i][q], x))
      BY <2>1, <2>3, BroadcastAppends
    <3> QED
      BY <2>3, <3>1
  <2> QED
    BY <1>4, <2>2, <2>3
<1>6. ASSUME NEW i \in Instances, NEW q \in Recipients, NEW k \in DOMAIN got'[i][q]
      PROVE  \/ k \in DOMAIN got[i][q] /\ got'[i][q][k] = got[i][q][k]
             \/ k = Len(got[i][q]) + 1 /\ got'[i][q][k] = x /\ i = h /\ origin[x] # h
  <2>1. got[i][q] \in Seq(Events)
    BY SeenEvents
  <2>2. CASE i = h /\ origin[x] # h /\ got'[i][q] = Append(got[i][q], x)
    <3>1. k \in 1 .. Len(got[i][q]) + 1
      BY <1>6, <2>1, <2>2
    <3> QED
      BY <2>1, <2>2, <3>1
  <2>3. CASE got'[i][q] = got[i][q]
    BY <1>6, <2>3
  <2> QED
    BY <1>5, <2>2, <2>3
<1>7. ASSUME NEW i \in Instances, NEW k \in DOMAIN stream'[i]
      PROVE  \/ i # h /\ k \in DOMAIN stream[i] /\ stream'[i][k] = stream[i][k]
             \/ i = h /\ k \in Nat /\ k >= 1 /\ k + 1 \in DOMAIN stream[i] /\ stream'[i][k] = stream[i][k + 1]
  <2>1. CASE i # h
    <3>1. stream'[i] = stream[i]
      BY <2>1 DEF Receive, TypeOK
    <3> QED
      BY <1>7, <2>1, <3>1
  <2>2. CASE i = h
    <3>1. stream'[i] = Tail(stream[i])
      BY <2>2 DEF Receive, TypeOK
    <3> QED
      BY <1>2, <1>7, <2>2, <3>1
  <2> QED
    BY <2>1, <2>2
<1>8. BeforeFits'
  BY <1>1 DEF BeforeFits, Begun
<1>9. Started'
  <2>1. ASSUME NEW i \in Instances, NEW q \in Recipients, NEW k \in DOMAIN got'[i][q]
        PROVE  Begun(got[i][q][k])'
    <3>1. Begun(x)
      BY <1>2, <1>3 DEF Started
    <3>2. PICK e \in Events : e = got'[i][q][k] /\ Begun(e)
      BY <1>6, <2>1, <3>1, SeenEvents DEF Started
    <3> QED
      BY <1>1, <3>2 DEF Begun
  <2>2. ASSUME NEW i \in Instances, NEW k \in DOMAIN stream'[i] PROVE Begun(stream[i][k].event)'
    <3>1. PICK e \in Events : e = stream'[i][k].event /\ Begun(e)
      BY <1>7, <2>2, SeenEvents DEF Started
    <3> QED
      BY <1>1, <3>1 DEF Begun
  <2> QED
    BY <2>1, <2>2 DEF Started
<1>10. StreamOrder'
  <2> SUFFICES ASSUME NEW i \in Instances, NEW j \in DOMAIN stream'[i], NEW k \in DOMAIN stream'[i],
                      <<stream'[i][k].event, stream'[i][j].event>> \in before
               PROVE  k <= j
    BY <1>1 DEF StreamOrder
  <2>1. CASE i # h
    BY <1>7, <2>1 DEF StreamOrder
  <2>2. CASE i = h
    <3>1. /\ j \in Nat /\ j + 1 \in DOMAIN stream[i] /\ stream'[i][j] = stream[i][j + 1]
          /\ k \in Nat /\ k + 1 \in DOMAIN stream[i] /\ stream'[i][k] = stream[i][k + 1]
      BY <1>7, <2>2
    <3>2. k + 1 <= j + 1
      BY <3>1 DEF StreamOrder
    <3> QED
      BY <3>1, <3>2
  <2> QED
    BY <2>1, <2>2
<1>11. ReadInOrder'
  <2> SUFFICES ASSUME NEW i \in Instances, NEW q \in Recipients, NEW j \in DOMAIN got'[i][q],
                      NEW k \in DOMAIN stream'[i], origin[got'[i][q][j]] # i,
                      <<stream'[i][k].event, got'[i][q][j]>> \in before
               PROVE  FALSE
    BY <1>1 DEF ReadInOrder
  <2>1. PICK n \in DOMAIN stream[i] : stream'[i][k] = stream[i][n] /\ n \in Int /\ (i = h => n > 1)
    <3>1. DOMAIN stream[i] = 1 .. Len(stream[i]) /\ Len(stream[i]) \in Nat
      BY SeenEvents
    <3>2. CASE i # h
      <4>1. k \in DOMAIN stream[i] /\ stream'[i][k] = stream[i][k]
        BY <1>7, <3>2
      <4>2. k \in Int
        BY <3>1, <4>1
      <4> QED
        BY <3>2, <4>1, <4>2
    <3>3. CASE i = h
      <4>1. k \in Nat /\ k >= 1 /\ k + 1 \in DOMAIN stream[i] /\ stream'[i][k] = stream[i][k + 1]
        BY <1>7, <3>3
      <4>2. k + 1 \in Int /\ k + 1 > 1
        BY <4>1
      <4> QED
        BY <4>1, <4>2
    <3> QED
      BY <3>2, <3>3
  <2>2. CASE j \in DOMAIN got[i][q] /\ got'[i][q][j] = got[i][q][j]
    BY <2>1, <2>2 DEF ReadInOrder
  <2>3. CASE got'[i][q][j] = x /\ i = h
    <3>1. <<stream[h][n].event, stream[h][1].event>> \in before
      BY <1>3, <2>1, <2>3
    <3>2. n <= 1
      BY <1>2, <2>1, <2>3, <3>1 DEF StreamOrder
    <3> QED
      BY <2>1, <2>3, <3>2
  <2> QED
    BY <1>6, <2>2, <2>3
<1>12. CausalOrder'
  <2> SUFFICES ASSUME NEW i \in Instances, NEW q \in Recipients,
                      NEW j \in DOMAIN got'[i][q], NEW k \in DOMAIN got'[i][q],
                      <<got'[i][q][k], got'[i][q][j]>> \in before,
                      origin[got'[i][q][j]] = i => origin[got'[i][q][k]] = i
               PROVE  k <= j
    BY <1>1 DEF CausalOrder
  <2>0. Len(got[i][q]) \in Nat /\ DOMAIN got[i][q] = 1 .. Len(got[i][q])
    BY SeenEvents
  <2>1. CASE j = Len(got[i][q]) + 1
    BY <1>6, <2>0, <2>1
  <2>2. CASE j \in DOMAIN got[i][q] /\ got'[i][q][j] = got[i][q][j]
    <3>1. CASE k \in DOMAIN got[i][q] /\ got'[i][q][k] = got[i][q][k]
      BY <2>2, <3>1 DEF CausalOrder
    <3>2. CASE got'[i][q][k] = x /\ i = h /\ origin[x] # h
      <4>1. origin[got[i][q][j]] # i /\ <<stream[i][1].event, got[i][q][j]>> \in before
        BY <1>3, <2>2, <3>2
      <4> QED
        BY <1>2, <2>2, <3>2, <4>1 DEF ReadInOrder
    <3> QED
      BY <1>6, <3>1, <3>2
  <2> QED
    BY <1>6, <2>1, <2>2
<1> QED
  BY <1>8, <1>9, <1>10, <1>11, <1>12

\* The steps that read nothing and broadcast nothing.
LEMMA CausalFrame ==
    ASSUME TypeOK, CausalInv, UNCHANGED <<got, before, origin, pc, call>>,
           \A i \in Instances : stream'[i] = stream[i] \/ stream'[i] = <<>>
    PROVE  CausalInv'
<1> USE DEF CausalInv
<1>1. \A i \in Instances : \A k \in DOMAIN stream'[i] :
          k \in DOMAIN stream[i] /\ stream'[i][k] = stream[i][k]
  <2> SUFFICES ASSUME NEW i \in Instances, NEW k \in DOMAIN stream'[i]
               PROVE  k \in DOMAIN stream[i] /\ stream'[i][k] = stream[i][k]
    OBVIOUS
  <2>1. CASE stream'[i] = <<>>
    BY <2>1
  <2> QED
    BY <2>1
<1>2. Started'
  BY <1>1 DEF Started, Begun
<1>3. BeforeFits'
  BY DEF BeforeFits, Begun
<1>4. StreamOrder'
  BY <1>1 DEF StreamOrder
<1>5. ReadInOrder'
  BY <1>1 DEF ReadInOrder
<1>6. CausalOrder'
  BY DEF CausalOrder
<1> QED
  BY <1>2, <1>3, <1>4, <1>5, <1>6

\* A publication, answered or not, ends: the event is begun, and not done yet.
LEMMA CausalPublish ==
    ASSUME TypeOK, CausalInv, NEW x \in Events, PublishRedis(x) \/ PublishFails(x)
    PROVE  CausalInv'
<1>1. pc[x] = "redis" /\ Begun(x) /\ pc[x] # "done" /\ NextCall(x) /\ UNCHANGED <<got, before, origin>>
  BY DEF PublishRedis, PublishFails, Begun
<1>2. \A e \in Events : pc[e] = "done" => pc'[e] = "done"
  BY <1>1 DEF NextCall, TypeOK
<1>3. \A e \in Events : Begun(e) => Begun(e)'
  <2> TAKE e \in Events
  <2>1. CASE e = x
    <3>1. call[x] \in 1 .. 2
      BY DEF TypeOK
    <3>2. CASE call[x] < Len(Calls(x))
      <4>1. call'[x] = call[x] + 1
        BY <1>1, <3>2 DEF NextCall, TypeOK
      <4> QED
        BY <2>1, <3>1, <4>1 DEF Begun
    <3>3. CASE ~(call[x] < Len(Calls(x)))
      <4>1. pc'[x] = "done"
        BY <1>1, <3>3 DEF NextCall, TypeOK
      <4> QED
        BY <2>1, <4>1 DEF Begun
    <3> QED
      BY <3>2, <3>3
  <2>2. CASE e # x
    BY <1>1, <2>2 DEF NextCall, TypeOK, Begun
  <2> QED
    BY <2>1, <2>2
<1>4. \A i \in Instances :
          stream'[i] = stream[i] \/ stream'[i] = <<>> \/ stream'[i] = Append(stream[i], Envelope(x))
  BY DEF PublishRedis, PublishFails, Deliver, redisVars, Envelope
<1> QED
  BY <1>1, <1>2, <1>3, <1>4, CausalStreams

LEMMA CausalNext == Inv /\ CausalInv /\ [Next]_vars => CausalInv'
<1> SUFFICES ASSUME Inv, CausalInv, [Next]_vars PROVE CausalInv'
  OBVIOUS
<1>0. TypeOK /\ CallFits /\ Honest
  BY DEF Inv
<1>1. ASSUME NEW e \in Events, Publish(e) PROVE CausalInv'
  BY <1>0, <1>1, CausalLocal, CausalPublish DEF Publish
<1>2. ASSUME NEW i \in Instances,
             \/ Connect(i) \/ Subscribe(i) \/ Retry(i) \/ Stop(i)
             \/ SessionFails(i) \/ Cancel(i) \/ ShutdownHub(i)
      PROVE  CausalInv'
  <2>1. UNCHANGED <<got, before, origin, pc, call>>
    BY <1>2 DEF Connect, Subscribe, Retry, Stop, SessionFails, Cancel, ShutdownHub, eventVars
  <2>2. \A j \in Instances : stream'[j] = stream[j] \/ stream'[j] = <<>>
    BY <1>0, <1>2 DEF Connect, Subscribe, Retry, Stop, SessionFails, Cancel, ShutdownHub, Goto,
                      redisVars, TypeOK
  <2> QED
    BY <1>0, <2>1, <2>2, CausalFrame
<1>3. CASE UNCHANGED vars
  <2>1. UNCHANGED <<got, before, origin, pc, call, stream>>
    BY <1>3 DEF vars, eventVars, redisVars
  <2> QED
    BY <1>0, <2>1, CausalFrame
<1> QED
  BY <1>0, <1>1, <1>2, <1>3, CausalReceive DEF Next, Listen

\* An event that is published entirely before another one is never seen after
\* it, but on the instance of the later one.
THEOREM CausalDelivery == Spec => []CausalOrder
<1>1. Init => CausalInv
  BY DEF Init, CausalInv, Started, BeforeFits, StreamOrder, ReadInOrder, CausalOrder
<1>2. CausalInv => CausalOrder
  BY DEF CausalInv
<1> QED
  BY <1>1, <1>2, Invariance, CausalNext, PTL DEF Spec
=============================================================================
