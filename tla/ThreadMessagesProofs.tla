------------------------ MODULE ThreadMessagesProofs ------------------------
(***************************************************************************)
(* The messages of a channel or thread: the rows implement MessageLog,     *)
(* deletes are told once, pages and read markers are stable, and followers *)
(* converge, for any number of users, messages, pages and requests.        *)
(***************************************************************************)
EXTENDS ThreadMessages, FiniteSetTheorems, TLAPS

USE MessagesAssumption, ThreadAssumption

\* An INSERT has taken the id; no id is taken twice.
Used(m) == author_id[m] # NoUser

\* Requests know their message and their text where they use them.
RequestSupport ==
    \A r \in Requests :
        /\ pc[r] \in PCs \ {"idle", "create", "latest"} => msg[r] \in Ids
        /\ pc[r] \in {"idle", "create", "latest"} => msg[r] = NoMessage
        /\ pc[r] \in {"create", "inserting", "created", "edit", "update", "updated"} =>
               text[r] \in Contents

\* Rows belong to ids that were taken and have a text.
RowSupport ==
    \A m \in Ids :
        /\ status[m] # "none" => Used(m)
        /\ Used(m) => content[m] \in Contents

\* Each uncommitted row has its request, and a thread that is gone has none.
InsertSupport ==
    /\ \A r \in Requests :
          pc[r] = "inserting" => kind # "GONE" /\ status[msg[r]] = "inserting"
    /\ \A q, r \in Requests :
          pc[q] = "inserting" /\ pc[r] = "inserting" /\ msg[q] = msg[r] => q = r
    /\ \A m \in Ids :
          status[m] = "inserting" => \E r \in Requests : pc[r] = "inserting" /\ msg[r] = m

\* Requests are at work on messages there were, and past the check on their
\* user's own.
WriteSupport ==
    \A r \in Requests :
        /\ pc[r] \in PCs \ {"idle", "create", "latest", "read"} => Used(msg[r])
        /\ pc[r] \in {"inserting", "created", "update", "erase", "updated", "erased"} =>
               who[r] = author_id[msg[r]]

\* One request at most has erased a message and not told yet; the event is
\* for a row that does not come back.
DeleteSupport ==
    /\ \A m \in Ids : told[m] # 0 => told[m] = 1 /\ Used(m) /\ status[m] \in {"deleted", "none"}
    /\ \A r \in Requests :
          pc[r] = "erased" => told[msg[r]] = 0 /\ status[msg[r]] \in {"deleted", "none"}
    /\ \A q, r \in Requests :
          pc[q] = "erased" /\ pc[r] = "erased" /\ msg[q] = msg[r] => q = r

LogInv ==
    /\ ThreadTypeOK
    /\ RequestSupport
    /\ RowSupport
    /\ InsertSupport
    /\ WriteSupport
    /\ DeleteSupport

\* Nothing a user or a request has caught up with is newer than its marker.
ReadSupport ==
    /\ \A u \in Users : last_read[u] # NoMessage => Used(last_read[u])
    /\ \A u \in Users : \A m \in caught[u] :
          Used(m) /\ last_read[u] # NoMessage /\ ~Newer(m, last_read[u])
    /\ \A r \in Requests : pc[r] # "catchup" => seen[r] = {}
    /\ \A r \in Requests : \A m \in seen[r] : Used(m) /\ ~Newer(m, msg[r])

\* What is left for the pages below the cursor of reader u.
Below(u) == {m \in Ids : Newer(cursor[u], m)}

\* A walk has listed a descending sequence down to its cursor and all of its
\* base that is still live down to there.
WalkOf(u) ==
    /\ \A i \in DOMAIN listed[u] : Used(listed[u][i])
    /\ \A i, j \in DOMAIN listed[u] : i < j => Newer(listed[u][i], listed[u][j])
    /\ \A m \in base[u] : Used(m) /\ status[m] # "inserting"
    /\ page[u] = "done" => cursor[u] = NoMessage
    /\ page[u] = "done" => base[u] \cap Live \subseteq ToSet(listed[u])
    /\ page[u] # "done" /\ cursor[u] = NoMessage => listed[u] = <<>>
    /\ cursor[u] # NoMessage =>
           /\ listed[u] # <<>> /\ cursor[u] = listed[u][Len(listed[u])]
           /\ kind # "GONE" => status[cursor[u]] \in {"live", "deleted"}
           /\ base[u] \cap Live \subseteq ToSet(listed[u]) \cup Below(u)

WalkSupport == \A u \in Readers : WalkOf(u)

\* Until its ack a follower has neither pages nor events.
AckSupport ==
    \A u \in Followers : subs[u] # "acked" =>
        /\ page[u] = "anchor" /\ cursor[u] = NoMessage
        /\ \A m \in Ids : shown[u][m] = NoContent

\* The author of a message that is not raced has one request for it at a time.
SoleWriter ==
    \A m \in Ids \ raced : \A q, r \in Requests :
        /\ Writes(q, m) /\ who[q] = author_id[m]
        /\ Writes(r, m) /\ who[r] = author_id[m]
        => q = r

\* Such a request tells what is stored.
TellsStored ==
    \A r \in Requests : msg[r] \in Ids \ raced =>
        /\ pc[r] = "inserting" => content[msg[r]] = text[r]
        /\ pc[r] \in {"created", "updated"} => status[msg[r]] = "live" /\ content[msg[r]] = text[r]
        /\ pc[r] = "erased" => status[msg[r]] = "deleted"

\* What a follower shows of a message is what is stored, or an update or
\* delete is about to be told.
ShownIsStored ==
    \A u \in Followers, m \in Ids \ raced :
        \/ shown[u][m] = NoContent
        \/ \E r \in Requests : msg[r] = m /\ pc[r] \in {"updated", "erased"}
        \/ status[m] = "live" /\ shown[u][m] = content[m]
        \/ status[m] = "deleted" /\ shown[u][m] = "gone"

\* A follower past its first page shows every live message but those its
\* next pages list and those about to be told.
LiveIsShown ==
    \A u \in Followers, m \in Live \ raced :
        \/ shown[u][m] # NoContent
        \/ \E r \in Requests : msg[r] = m /\ pc[r] = "created"
        \/ page[u] # "done" /\ (cursor[u] = NoMessage \/ m \in Below(u))

ViewInv ==
    /\ AckSupport
    /\ SoleWriter
    /\ TellsStored
    /\ ShownIsStored
    /\ LiveIsShown

-----------------------------------------------------------------------------
(***************************************************************************)
(* The steps of a channel and those of a thread are the same but for the   *)
(* last two.                                                               *)
(***************************************************************************)

Begins(r) ==
    \/ \E u \in Users, c \in Contents : CreateMessage(r, u, c)
    \/ \E u \in Users, m \in Ids, op \in {"edit", "delete"}, c \in Contents \cup {NoContent} :
           FindMessage(r, u, m, op, c)
    \/ \E u \in Users, m \in Ids \cup {NoMessage} : MarkChannelRead(r, u, m)

Writing(r) ==
    \/ kind # "GONE" /\ \E m \in Ids : Insert(r, m)
    \/ Inserted(r)
    \/ UpdateMessageContent(r)
    \/ SoftDeleteMessage(r)
    \/ PublishMessage(r)
    \/ PublishDelete(r)
    \/ Drop(r)

Answering(r) ==
    \/ CheckAuthor(r)
    \/ ResolveLatest(r)
    \/ ResolveRequested(r)
    \/ UpsertRead(r)
    \/ InsertRefused(r)
    \/ UpsertRefused(r)

\* Steps that change neither rows nor requests.
Watching ==
    \/ \E u \in Followers : CheckSubscribe(u) \/ Subscribe(u)
    \/ \E u \in Readers : FindAnchor(u) \/ \E l \in LimitArgs : ListMessages(u, l)
    \/ \E u \in Users : LoseAccess(u) \/ RegainAccess(u)
    \/ Tick

CommonStep ==
    \/ \E r \in Requests : Begins(r) \/ Writing(r) \/ Answering(r)
    \/ Watching

\* Every step is a common one, an accept, a reject or none.
LEMMA Steps ==
    ASSUME ThreadTypeOK, [ThreadNext]_allVars
    PROVE  \/ CommonStep /\ UNCHANGED threadVars
           \/ \E u \in Users : AcceptThread(u) \/ RejectThread(u)
           \/ UNCHANGED allVars
<1>1. ASSUME kind = "CHANNEL", Next PROVE CommonStep
  BY <1>1 DEF Next, CommonStep, Begins, Writing, Answering, Watching
<1>2. ASSUME ThreadStep PROVE CommonStep
  <2> USE DEF CommonStep
  <2>1. ASSUME NEW r \in Requests, NEW u \in Users, NEW c \in Contents,
               CreateThreadMessage(r, u, c)
        PROVE  CommonStep
    BY <2>1 DEF CreateThreadMessage, Begins
  <2>2. ASSUME NEW r \in Requests, NEW m \in Ids, InsertThreadMessage(r, m)
        PROVE  CommonStep
    BY <2>2 DEF InsertThreadMessage, Exists, Writing
  <2>3. ASSUME NEW r \in Requests, NEW u \in Users, NEW m \in Ids, NEW c \in Contents,
               EditThreadMessage(r, u, m, c)
        PROVE  CommonStep
    BY <2>3 DEF EditThreadMessage, Begins
  <2>4. ASSUME NEW r \in Requests, NEW u \in Users, NEW m \in Ids, DeleteThreadMessage(r, u, m)
        PROVE  CommonStep
    BY <2>4 DEF DeleteThreadMessage, Begins
  <2>5. ASSUME NEW r \in Requests, NEW u \in Users, NEW m \in Ids \cup {NoMessage},
               MarkThreadRead(r, u, m)
        PROVE  CommonStep
    BY <2>5 DEF MarkThreadRead, Begins
  <2>6. ASSUME NEW r \in Requests,
               \/ Inserted(r) \/ UpdateThreadMessageContent(r) \/ SoftDeleteThreadMessage(r)
               \/ PublishThreadCreate(r) \/ PublishThreadUpdate(r) \/ PublishThreadDelete(r)
               \/ Drop(r)
        PROVE  CommonStep
    BY <2>6 DEF UpdateThreadMessageContent, SoftDeleteThreadMessage, PublishThreadCreate,
                PublishThreadUpdate, PublishThreadDelete, Writing
  <2>7. ASSUME NEW r \in Requests,
               \/ InsertRefused(r) \/ CheckThreadAuthor(r) \/ ResolveThreadLastRead(r)
               \/ UpsertThreadRead(r) \/ UpsertRefused(r)
        PROVE  CommonStep
    BY <2>7 DEF CheckThreadAuthor, ResolveThreadLastRead, UpsertThreadRead, Answering
  <2>8. ASSUME \/ \E u \in Followers : SubscribeThread(u)
               \/ \E u \in Readers : FindThreadAnchor(u)
               \/ \E u \in Readers, l \in LimitArgs : ListThreadMessages(u, l)
               \/ Tick
        PROVE  CommonStep
    BY <2>8 DEF SubscribeThread, FindThreadAnchor, ListThreadMessages, Watching
  <2> HIDE DEF CommonStep
  <2> QED
    BY <1>2, <2>1, <2>2, <2>3, <2>4, <2>5, <2>6, <2>7, <2>8 DEF ThreadStep
<1>3. ASSUME NEW u \in Users, LeaveThread(u) \/ JoinThread(u)
      PROVE  CommonStep /\ UNCHANGED threadVars
  BY <1>3 DEF LeaveThread, JoinThread, CommonStep, Watching
<1> QED
  BY <1>1, <1>2, <1>3 DEF ThreadNext

-----------------------------------------------------------------------------
(***************************************************************************)
(* A page: the first n of the rows selected, all of them or up to the      *)
(* cursor.                                                                 *)
(***************************************************************************)

Prefix(all, n) == [i \in 1 .. n |-> all[i]]

Progress(u, label, next_cursor) ==
    /\ page' = [page EXCEPT ![u] = label]
    /\ cursor' = [cursor EXCEPT ![u] = next_cursor]

Page(u, all, n) ==
    /\ all \in Seq(Ids) /\ n \in 0 .. Len(all)
    /\ {all[i] : i \in 1 .. Len(all)} = Selected(u)
    /\ \A i, j \in 1 .. Len(all) : i < j => Newer(all[i], all[j])
    /\ listed' = [listed EXCEPT ![u] = @ \o Prefix(all, n)]
    /\ Merge(u, {all[i] : i \in 1 .. n})
    /\ \/ n = Len(all) /\ Progress(u, "done", NoMessage)
       \/ n \in 1 .. Len(all) - 1 /\ Progress(u, "anchor", all[n])
    /\ base' = [base EXCEPT ![u] = IF cursor[u] = NoMessage THEN Live ELSE @]

\* Every page list_messages answers is of that form.
LEMMA PageShape ==
    ASSUME ThreadTypeOK, NEW u \in Readers, NEW l \in LimitArgs, ListMessages(u, l)
    PROVE  \E all \in Seq(Ids), n \in Nat : Page(u, all, n)
<1> DEFINE S == Selected(u)
           limit == NormalizeLimit(l)
<1>1. PICK all \in Ordered(S) :
          LET rows == SubSeq(all, 1, IF Len(all) > limit THEN limit + 1 ELSE Len(all))
              more == Len(rows) > limit
              body == IF more THEN SubSeq(rows, 1, limit) ELSE rows
          IN  /\ page[u] = "select"
              /\ l > 0
              /\ listed' = [listed EXCEPT ![u] = @ \o body]
              /\ Merge(u, ToSet(body))
              /\ cursor' = [cursor EXCEPT ![u] = IF more THEN Cursor(rows, limit) ELSE NoMessage]
              /\ page' = [page EXCEPT ![u] = IF more THEN "anchor" ELSE "done"]
              /\ base' = [base EXCEPT ![u] = IF cursor[u] = NoMessage THEN Live ELSE @]
  BY DEF ListMessages
<1>2. S \subseteq Ids /\ Cardinality(S) \in Nat
  <2>1. S \in SUBSET Ids
    BY DEF Selected, Live
  <2> QED
    BY <2>1, FS_Subset, FS_CardinalityType
<1>3. all \in Seq(Ids) /\ DOMAIN all = 1 .. Len(all)
  BY <1>2 DEF Ordered, TupleOf
<1>4. {all[i] : i \in 1 .. Len(all)} = S
  BY <1>3 DEF Ordered, ToSet
<1>5. \A i, j \in 1 .. Len(all) : i < j => Newer(all[i], all[j])
  BY <1>3 DEF Ordered
<1>6. limit \in Nat \ {0} /\ Len(all) \in Nat
  BY <1>1, <1>3 DEF NormalizeLimit
<1> DEFINE rows == SubSeq(all, 1, IF Len(all) > limit THEN limit + 1 ELSE Len(all))
           body == IF Len(rows) > limit THEN SubSeq(rows, 1, limit) ELSE rows
<1>7. /\ listed' = [listed EXCEPT ![u] = @ \o body]
      /\ Merge(u, ToSet(body))
      /\ Len(rows) > limit => Progress(u, "anchor", rows[limit])
      /\ ~(Len(rows) > limit) => Progress(u, "done", NoMessage)
      /\ base' = [base EXCEPT ![u] = IF cursor[u] = NoMessage THEN Live ELSE @]
  BY <1>1 DEF Cursor, Progress
<1> HIDE DEF S, limit
<1>8. CASE Len(all) > limit
  <2>1. /\ Len(rows) = limit + 1 /\ Len(rows) > limit
        /\ \A i \in 1 .. limit : rows[i] = all[i]
    BY <1>3, <1>6, <1>8
  <2>2. rows \in Seq(Ids)
    BY <1>3, <1>6, <1>8
  <2>3. body = SubSeq(rows, 1, limit)
    BY <2>1
  <2>4. body = Prefix(all, limit) /\ rows[limit] = all[limit]
    <3> HIDE DEF rows, body
    <3> QED
      BY <1>6, <2>1, <2>2, <2>3 DEF Prefix
  <2>5. ToSet(body) = {all[i] : i \in 1 .. limit}
    <3>1. DOMAIN body = 1 .. limit /\ \A i \in 1 .. limit : body[i] = all[i]
      BY <2>4 DEF Prefix
    <3> HIDE DEF rows, body
    <3> QED
      BY <3>1 DEF ToSet
  <2> HIDE DEF rows, body
  <2>6. Page(u, all, limit)
    <3>1. limit \in 1 .. Len(all) - 1 /\ limit \in 0 .. Len(all)
      BY <1>6, <1>8
    <3> QED
      BY <1>3, <1>4, <1>5, <1>6, <1>7, <2>1, <2>4, <2>5, <3>1 DEF Page, S
  <2> QED
    BY <1>3, <1>6, <2>6
<1>9. CASE ~(Len(all) > limit)
  <2>1. rows = all /\ ~(Len(rows) > limit) /\ body = all
    <3>1. rows = SubSeq(all, 1, Len(all))
      BY <1>9
    <3>2. SubSeq(all, 1, Len(all)) = [i \in 1 .. Len(all) |-> all[i]]
      BY <1>3, <1>6
    <3>3. rows = all
      <4>1. all = [i \in 1 .. Len(all) |-> all[i]]
        BY <1>3
      <4> QED
        BY <3>1, <3>2, <4>1
    <3> QED
      BY <1>6, <1>9, <3>3
  <2>2. all = Prefix(all, Len(all)) /\ ToSet(all) = {all[i] : i \in 1 .. Len(all)}
    BY <1>3 DEF Prefix, ToSet
  <2> HIDE DEF rows, body
  <2>3. Page(u, all, Len(all))
    <3>1. /\ listed' = [listed EXCEPT ![u] = @ \o Prefix(all, Len(all))]
          /\ Merge(u, {all[i] : i \in 1 .. Len(all)})
          /\ Progress(u, "done", NoMessage)
      BY <1>7, <2>1, <2>2
    <3>2. Len(all) \in 0 .. Len(all)
      BY <1>6
    <3> QED
      BY <1>3, <1>4, <1>5, <1>7, <3>1, <3>2 DEF Page, S
  <2> QED
    BY <1>3, <1>6, <2>3
<1> QED
  BY <1>8, <1>9, <1>6

-----------------------------------------------------------------------------
(***************************************************************************)
(* Types.                                                                  *)
(***************************************************************************)

LocalTypeOK ==
    /\ pc \in [Requests -> PCs]
    /\ who \in [Requests -> Users \cup {NoUser}]
    /\ \A r \in Requests : pc[r] = "idle" <=> who[r] = NoUser
    /\ msg \in [Requests -> Ids \cup {NoMessage}]
    /\ text \in [Requests -> Contents \cup {NoContent}]

\* The three ways a request moves keep its type.
LEMMA LocalTypes ==
    ASSUME ThreadTypeOK, NEW r \in Requests
    PROVE  /\ Return(r) => LocalTypeOK'
           /\ \A label \in PCs \ {"idle"} :
                  pc[r] # "idle" /\ Goto(r, label) => LocalTypeOK'
           /\ \A u \in Users, label \in PCs \ {"idle"}, m \in Ids \cup {NoMessage},
                 c \in Contents \cup {NoContent} :
                  Begin(r, u, label, m, c) => LocalTypeOK'
<1> USE DEF ThreadTypeOK, TypeOK, LocalTypeOK, PCs
<1>1. Return(r) => LocalTypeOK'
  BY DEF Return
<1>2. ASSUME NEW label \in PCs \ {"idle"}, pc[r] # "idle", Goto(r, label) PROVE LocalTypeOK'
  BY <1>2 DEF Goto
<1>3. ASSUME NEW u \in Users, NEW label \in PCs \ {"idle"}, NEW m \in Ids \cup {NoMessage},
             NEW c \in Contents \cup {NoContent}, Begin(r, u, label, m, c)
      PROVE  LocalTypeOK'
  BY <1>3 DEF Begin
<1> QED
  BY <1>1, <1>2, <1>3

\* A page keeps the types of the walk.
LEMMA PageTypes ==
    ASSUME ThreadTypeOK, NEW u \in Readers, NEW l \in LimitArgs, ListMessages(u, l)
    PROVE  /\ page' \in [Readers -> {"anchor", "select", "done"}]
           /\ cursor' \in [Readers -> Ids \cup {NoMessage}]
           /\ listed' \in [Readers -> Seq(Ids)]
           /\ base' \in [Readers -> SUBSET Ids]
           /\ shown' \in [Followers -> [Ids -> Contents \cup {NoContent, "gone"}]]
<1> USE DEF ThreadTypeOK, TypeOK
<1>1. PICK all \in Seq(Ids), n \in Nat : Page(u, all, n)
  BY PageShape
<1>2. n \in 0 .. Len(all) /\ Prefix(all, n) \in Seq(Ids)
  BY <1>1 DEF Page, Prefix
<1>3. listed[u] \o Prefix(all, n) \in Seq(Ids)
  BY <1>2
<1>4. listed' \in [Readers -> Seq(Ids)]
  BY <1>1, <1>3 DEF Page
<1>5. shown' \in [Followers -> [Ids -> Contents \cup {NoContent, "gone"}]]
  BY <1>1 DEF Page, Merge
<1>6. base' \in [Readers -> SUBSET Ids]
  <2>1. Live \in SUBSET Ids
    BY DEF Live
  <2> QED
    BY <1>1, <2>1 DEF Page
<1>7. /\ page' \in [Readers -> {"anchor", "select", "done"}]
      /\ cursor' \in [Readers -> Ids \cup {NoMessage}]
  <2>1. \A i \in 1 .. Len(all) : all[i] \in Ids
    OBVIOUS
  <2>2. Len(all) \in Nat
    OBVIOUS
  <2> QED
    <3>1. \/ Progress(u, "done", NoMessage)
          \/ \E m \in Ids : Progress(u, "anchor", m)
      <4>1. \/ Progress(u, "done", NoMessage)
            \/ n \in 1 .. Len(all) /\ Progress(u, "anchor", all[n])
        BY <1>1, <2>2 DEF Page
      <4> QED
        BY <2>1, <4>1
    <3>2. CASE Progress(u, "done", NoMessage)
      BY <3>2 DEF Progress
    <3>3. ASSUME NEW m \in Ids, Progress(u, "anchor", m)
          PROVE  /\ page' \in [Readers -> {"anchor", "select", "done"}]
                 /\ cursor' \in [Readers -> Ids \cup {NoMessage}]
      BY <3>3 DEF Progress
    <3> QED
      BY <3>1, <3>2, <3>3
<1> QED
  BY <1>4, <1>5, <1>6, <1>7

\* Every common step keeps the types.
LEMMA TypeStep ==
    ASSUME LogInv, CommonStep, UNCHANGED threadVars
    PROVE  ThreadTypeOK'
<1> USE DEF LogInv, threadVars, rowVars, localVars, walkVars, readVars, eventVars
<1>1. ASSUME NEW r \in Requests, NEW u \in Users, NEW c \in Contents, CreateMessage(r, u, c)
      PROVE  ThreadTypeOK'
  <2>1. LocalTypeOK'
    BY <1>1, LocalTypes DEF CreateMessage, PCs
  <2> QED
    BY <1>1, <2>1 DEF CreateMessage, LocalTypeOK, ThreadTypeOK, TypeOK
<1>2. ASSUME NEW r \in Requests, NEW u \in Users, NEW m \in Ids, NEW op \in {"edit", "delete"},
             NEW c \in Contents \cup {NoContent}, FindMessage(r, u, m, op, c)
      PROVE  ThreadTypeOK'
  <2>1. LocalTypeOK'
    BY <1>2, LocalTypes DEF FindMessage, PCs
  <2> QED
    BY <1>2, <2>1 DEF FindMessage, LocalTypeOK, ThreadTypeOK, TypeOK
<1>3. ASSUME NEW r \in Requests, NEW u \in Users, NEW m \in Ids \cup {NoMessage},
             MarkChannelRead(r, u, m)
      PROVE  ThreadTypeOK'
  <2>1. LocalTypeOK'
    BY <1>3, LocalTypes DEF MarkChannelRead, PCs
  <2> QED
    BY <1>3, <2>1 DEF MarkChannelRead, LocalTypeOK, ThreadTypeOK, TypeOK
<1>4. ASSUME NEW r \in Requests, NEW m \in Ids, Insert(r, m) PROVE ThreadTypeOK'
  BY <1>4 DEF Insert, ThreadTypeOK, TypeOK, PCs
<1>5. ASSUME NEW r \in Requests, Inserted(r) PROVE ThreadTypeOK'
  <2>1. LocalTypeOK'
    BY <1>5, LocalTypes DEF Inserted, PCs
  <2> QED
    BY <1>5, <2>1 DEF Inserted, LocalTypeOK, ThreadTypeOK, TypeOK
<1>6. ASSUME NEW r \in Requests, UpdateMessageContent(r) PROVE ThreadTypeOK'
  <2>1. LocalTypeOK'
    BY <1>6, LocalTypes DEF UpdateMessageContent, PCs
  <2>2. content' \in [Ids -> Contents \cup {NoContent}]
    <3>1. content' = content \/ content' = [content EXCEPT ![msg[r]] = text[r]]
      BY <1>6 DEF UpdateMessageContent
    <3>2. content \in [Ids -> Contents \cup {NoContent}] /\ text[r] \in Contents \cup {NoContent}
      BY DEF ThreadTypeOK, TypeOK
    <3> HIDE DEF LogInv
    <3> QED
      BY <3>1, <3>2
  <2> QED
    BY <1>6, <2>1, <2>2 DEF UpdateMessageContent, LocalTypeOK, ThreadTypeOK, TypeOK
<1>7. ASSUME NEW r \in Requests, SoftDeleteMessage(r) PROVE ThreadTypeOK'
  <2>1. LocalTypeOK'
    BY <1>7, LocalTypes DEF SoftDeleteMessage, PCs
  <2>2. status' \in [Ids -> {"none", "inserting", "live", "deleted"}]
    <3>1. status' = status \/ status' = [status EXCEPT ![msg[r]] = "deleted"]
      BY <1>7 DEF SoftDeleteMessage
    <3> QED
      BY <3>1 DEF ThreadTypeOK, TypeOK
  <2> QED
    BY <1>7, <2>1, <2>2 DEF SoftDeleteMessage, LocalTypeOK, ThreadTypeOK, TypeOK
<1>8. ASSUME NEW r \in Requests, PublishMessage(r) PROVE ThreadTypeOK'
  <2>1. LocalTypeOK'
    BY <1>8, LocalTypes DEF PublishMessage
  <2>2. shown' \in [Followers -> [Ids -> Contents \cup {NoContent, "gone"}]]
    BY <1>8 DEF PublishMessage, Apply, ThreadTypeOK, TypeOK
  <2> QED
    BY <1>8, <2>1, <2>2 DEF PublishMessage, LocalTypeOK, ThreadTypeOK, TypeOK
<1>9. ASSUME NEW r \in Requests, PublishDelete(r) PROVE ThreadTypeOK'
  <2>1. LocalTypeOK'
    BY <1>9, LocalTypes DEF PublishDelete
  <2>2. shown' \in [Followers -> [Ids -> Contents \cup {NoContent, "gone"}]]
    BY <1>9 DEF PublishDelete, Apply, ThreadTypeOK, TypeOK
  <2>3. told' \in [Ids -> Nat]
    <3>1. PICK m \in Ids : m = msg[r]
      BY <1>9 DEF PublishDelete, RequestSupport, PCs
    <3>2. told' = [told EXCEPT ![m] = told[m] + 1]
      BY <1>9, <3>1 DEF PublishDelete
    <3>3. told \in [Ids -> Nat]
      BY DEF ThreadTypeOK, TypeOK
    <3> QED
      BY <3>2, <3>3
  <2> QED
    BY <1>9, <2>1, <2>2, <2>3 DEF PublishDelete, LocalTypeOK, ThreadTypeOK, TypeOK
<1>10. ASSUME NEW r \in Requests, Drop(r) PROVE ThreadTypeOK'
  <2>1. LocalTypeOK'
    BY <1>10, LocalTypes DEF Drop
  <2>2. status' \in [Ids -> {"none", "inserting", "live", "deleted"}]
    BY <1>10 DEF Drop, ThreadTypeOK, TypeOK
  <2>3. /\ seen' \in [Requests -> SUBSET Ids]
        /\ raced' \subseteq Ids
        /\ drops' \in 0 .. MaxDrops
    BY <1>10 DEF Drop, ThreadTypeOK, TypeOK
  <2>4. UNCHANGED <<clock, created_at, author_id, content, readVars, access, walkVars, subs,
                    shown, told, ops>>
    BY <1>10 DEF Drop
  <2> QED
    BY <2>1, <2>2, <2>3, <2>4 DEF LocalTypeOK, ThreadTypeOK, TypeOK
<1>11. ASSUME NEW r \in Requests, CheckAuthor(r) PROVE ThreadTypeOK'
  <2>1. LocalTypeOK'
    BY <1>11, LocalTypes DEF CheckAuthor, PCs
  <2> QED
    BY <1>11, <2>1 DEF CheckAuthor, LocalTypeOK, ThreadTypeOK, TypeOK
<1>12. ASSUME NEW r \in Requests, ResolveLatest(r) PROVE ThreadTypeOK'
  <2>1. CASE Return(r) /\ UNCHANGED seen
    <3>1. LocalTypeOK'
      BY <2>1, LocalTypes
    <3> QED
      BY <1>12, <2>1, <3>1 DEF ResolveLatest, LocalTypeOK, ThreadTypeOK, TypeOK
  <2>2. ASSUME NEW m \in Latest, msg' = [msg EXCEPT ![r] = m],
               pc' = [pc EXCEPT ![r] = "catchup"], seen' = [seen EXCEPT ![r] = Live],
               UNCHANGED <<who, text>>
        PROVE  ThreadTypeOK'
    <3>1. Live \in SUBSET Ids /\ m \in Ids
      BY DEF Live, Latest
    <3> QED
      BY <1>12, <2>2, <3>1 DEF ResolveLatest, ThreadTypeOK, TypeOK, PCs
  <2> QED
    BY <1>12, <2>1, <2>2 DEF ResolveLatest
<1>13. ASSUME NEW r \in Requests, ResolveRequested(r) PROVE ThreadTypeOK'
  <2>1. LocalTypeOK'
    BY <1>13, LocalTypes DEF ResolveRequested, PCs
  <2> QED
    BY <1>13, <2>1 DEF ResolveRequested, LocalTypeOK, ThreadTypeOK, TypeOK
<1>14. ASSUME NEW r \in Requests, UpsertRead(r) PROVE ThreadTypeOK'
  <2>1. LocalTypeOK'
    BY <1>14, LocalTypes DEF UpsertRead
  <2> QED
    BY <1>14, <2>1 DEF UpsertRead, LocalTypeOK, ThreadTypeOK, TypeOK
<1>15. ASSUME NEW r \in Requests, InsertRefused(r) PROVE ThreadTypeOK'
  <2>1. LocalTypeOK'
    BY <1>15, LocalTypes DEF InsertRefused
  <2> QED
    BY <1>15, <2>1 DEF InsertRefused, LocalTypeOK, ThreadTypeOK, TypeOK
<1>16. ASSUME NEW r \in Requests, UpsertRefused(r) PROVE ThreadTypeOK'
  <2>1. LocalTypeOK'
    BY <1>16, LocalTypes DEF UpsertRefused
  <2> QED
    BY <1>16, <2>1 DEF UpsertRefused, LocalTypeOK, ThreadTypeOK, TypeOK
<1>17. ASSUME NEW u \in Followers, CheckSubscribe(u) \/ Subscribe(u) PROVE ThreadTypeOK'
  <2>1. subs' \in [Followers -> {"none", "allowed", "acked"}]
    BY <1>17 DEF CheckSubscribe, Subscribe, ThreadTypeOK, TypeOK
  <2>2. UNCHANGED <<clock, rowVars, readVars, access, localVars, walkVars, seen, shown, told, raced,
                    ops, drops>>
    BY <1>17 DEF CheckSubscribe, Subscribe
  <2> QED
    BY <2>1, <2>2 DEF ThreadTypeOK, TypeOK
<1>18. ASSUME NEW u \in Readers, FindAnchor(u) PROVE ThreadTypeOK'
  BY <1>18 DEF FindAnchor, ThreadTypeOK, TypeOK
<1>19. ASSUME NEW u \in Readers, NEW l \in LimitArgs, ListMessages(u, l) PROVE ThreadTypeOK'
  <2>1. UNCHANGED <<clock, rowVars, readVars, access, localVars, seen, subs, told, raced, ops, drops>>
    BY <1>19 DEF ListMessages
  <2> QED
    BY <1>19, <2>1, PageTypes DEF ThreadTypeOK, TypeOK
<1>20. ASSUME NEW u \in Users, LoseAccess(u) \/ RegainAccess(u) PROVE ThreadTypeOK'
  <2>1. access' \subseteq Users
    BY <1>20 DEF LoseAccess, RegainAccess, ThreadTypeOK, TypeOK
  <2>2. UNCHANGED <<clock, rowVars, readVars, localVars, walkVars, seen, eventVars, ops, drops>>
    BY <1>20 DEF LoseAccess, RegainAccess
  <2> QED
    BY <2>1, <2>2 DEF ThreadTypeOK, TypeOK
<1>21. CASE Tick
  BY <1>21 DEF Tick, ThreadTypeOK, TypeOK
<1> QED
  BY <1>1, <1>2, <1>3, <1>4, <1>5, <1>6, <1>7, <1>8, <1>9, <1>10, <1>11, <1>12, <1>13, <1>14,
     <1>15, <1>16, <1>17, <1>18, <1>19, <1>20, <1>21
     DEF CommonStep, Begins, Writing, Answering, Watching

-----------------------------------------------------------------------------
(***************************************************************************)
(* The invariant of rows and requests.                                     *)
(***************************************************************************)

\* The parts of LogInv, apart from the types.
Support == RequestSupport /\ RowSupport /\ InsertSupport /\ WriteSupport /\ DeleteSupport

\* It is about rows, requests and delete events only.
LEMMA LogFrame ==
    ASSUME LogInv, UNCHANGED <<rowVars, localVars, told, kind>>
    PROVE  Support'
  BY DEF LogInv, Support, rowVars, localVars, RequestSupport, RowSupport, InsertSupport,
         WriteSupport, DeleteSupport, Used

\* A request that returns changes nothing, unless its INSERT is under way.
LEMMA LogReturn ==
    ASSUME LogInv, NEW r \in Requests, pc[r] # "inserting", Return(r),
           UNCHANGED <<rowVars, told, kind>>
    PROVE  Support'
<1> USE DEF LogInv, ThreadTypeOK, TypeOK, Return, rowVars
<1>1. RequestSupport' /\ RowSupport' /\ WriteSupport'
  BY DEF RequestSupport, RowSupport, WriteSupport, PCs, Used
<1>2. InsertSupport'
  BY DEF InsertSupport
<1>3. DeleteSupport'
  BY DEF DeleteSupport, Used
<1> QED
  BY <1>1, <1>2, <1>3 DEF Support

\* A request may go on after its check.
LEMMA LogGoto ==
    ASSUME LogInv, NEW r \in Requests, pc[r] \in {"edit", "delete", "read"},
           NEW label \in {"update", "erase", "upsert"}, Goto(r, label),
           Used(msg[r]),
           label \in {"update", "erase"} => who[r] = author_id[msg[r]],
           label = "update" => pc[r] = "edit",
           UNCHANGED <<rowVars, told, kind>>
    PROVE  Support'
<1> USE DEF LogInv, ThreadTypeOK, TypeOK, Goto, rowVars
<1>1. RequestSupport' /\ RowSupport' /\ WriteSupport'
  BY DEF RequestSupport, RowSupport, WriteSupport, PCs, Used
<1>2. InsertSupport'
  BY DEF InsertSupport
<1>3. DeleteSupport'
  BY DEF DeleteSupport, Used
<1> QED
  BY <1>1, <1>2, <1>3 DEF Support

\* A request begins.
LEMMA LogBegin ==
    ASSUME LogInv, NEW r \in Requests, NEW u \in Users,
           NEW label \in {"create", "edit", "delete", "read", "latest"},
           NEW m \in Ids \cup {NoMessage}, NEW c \in Contents \cup {NoContent},
           Begin(r, u, label, m, c),
           label \in {"edit", "delete", "read"} <=> m \in Ids,
           label \in {"edit", "delete"} => Used(m),
           label \in {"create", "edit"} => c \in Contents,
           UNCHANGED <<rowVars, told, kind>>
    PROVE  Support'
<1> USE DEF LogInv, ThreadTypeOK, TypeOK, Begin, rowVars
<1>1. RequestSupport'
  BY DEF RequestSupport, PCs
<1>2. RowSupport'
  BY DEF RowSupport, Used
<1>3. WriteSupport'
  BY DEF WriteSupport, PCs, Used
<1>4. InsertSupport'
  BY DEF InsertSupport
<1>5. DeleteSupport'
  BY DEF DeleteSupport, Used
<1> QED
  BY <1>1, <1>2, <1>3, <1>4, <1>5 DEF Support

\* The INSERT starts: the id was not taken, so nobody is at work on it.
LEMMA LogInsert ==
    ASSUME LogInv, NEW r \in Requests, NEW m \in Ids, Insert(r, m), UNCHANGED kind,
           kind # "GONE"
    PROVE  Support'
<1> USE DEF LogInv, ThreadTypeOK, TypeOK, Insert
<1>1. RequestSupport'
  BY DEF RequestSupport, PCs
<1>2. RowSupport'
  <2>1. who[r] # NoUser /\ text[r] \in Contents
    BY DEF RequestSupport
  <2>2. ASSUME NEW n \in Ids, n # m
        PROVE  status'[n] = status[n] /\ author_id'[n] = author_id[n] /\ content'[n] = content[n]
    BY <2>2
  <2>3. author_id'[m] = who[r] /\ content'[m] = text[r]
    OBVIOUS
  <2>4. ASSUME NEW n \in Ids
        PROVE  (status'[n] # "none" => author_id'[n] # NoUser)
               /\ (author_id'[n] # NoUser => content'[n] \in Contents)
    <3>1. CASE n = m
      BY <2>1, <2>3, <3>1
    <3>2. CASE n # m
      BY <2>2, <3>2 DEF RowSupport, Used
    <3> QED
      BY <3>1, <3>2
  <2> QED
    BY <2>4 DEF RowSupport, Used
<1>3. InsertSupport'
  BY DEF RequestSupport, InsertSupport, WriteSupport, RowSupport, Used
<1>4. WriteSupport'
  BY DEF RequestSupport, RowSupport, WriteSupport, PCs, Used
<1>5. DeleteSupport'
  BY DEF RequestSupport, WriteSupport, DeleteSupport, PCs, Used, eventVars
<1> QED
  BY <1>1, <1>2, <1>3, <1>4, <1>5 DEF Support

\* The row of a request, when its status alone changes.
LEMMA LogStatus ==
    ASSUME LogInv, NEW r \in Requests, NEW s \in {"none", "live", "deleted"},
           pc[r] \in {"inserting", "erase"},
           status' = [status EXCEPT ![msg[r]] = s],
           UNCHANGED <<author_id, content>>
    PROVE  RowSupport'
<1>1. PICK m \in Ids : m = msg[r]
  BY DEF LogInv, RequestSupport, PCs
<1>2. Used(m)
  BY <1>1 DEF LogInv, WriteSupport, PCs
<1>3. \A n \in Ids : status'[n] # "none" => status[n] # "none" \/ n = m
  BY <1>1 DEF LogInv, ThreadTypeOK, TypeOK
<1> QED
  BY <1>2, <1>3 DEF LogInv, RowSupport, Used

\* The INSERT commits.
LEMMA LogInserted ==
    ASSUME LogInv, NEW r \in Requests, Inserted(r), UNCHANGED kind
    PROVE  Support'
<1> USE DEF LogInv, ThreadTypeOK, TypeOK, Inserted, Goto
<1>1. RequestSupport'
  BY DEF RequestSupport, PCs
<1>2. RowSupport'
  BY LogStatus
<1>3. InsertSupport'
  BY DEF RequestSupport, InsertSupport, PCs
<1>4. WriteSupport'
  BY DEF RequestSupport, WriteSupport, PCs, Used
<1>5. DeleteSupport'
  BY DEF RequestSupport, InsertSupport, DeleteSupport, PCs, Used, eventVars
<1> QED
  BY <1>1, <1>2, <1>3, <1>4, <1>5 DEF Support

\* An edit is written.
LEMMA LogUpdate ==
    ASSUME LogInv, NEW r \in Requests, pc[r] = "update", Goto(r, "updated"),
           content' = [content EXCEPT ![msg[r]] = text[r]],
           UNCHANGED <<status, author_id, told, kind>>
    PROVE  Support'
<1> USE DEF LogInv, ThreadTypeOK, TypeOK, Goto
<1>1. RequestSupport' /\ WriteSupport'
  BY DEF RequestSupport, WriteSupport, PCs, Used
<1>2. RowSupport'
  <2>1. text[r] \in Contents
    BY DEF RequestSupport
  <2>2. \A n \in Ids : content'[n] = content[n] \/ content'[n] = text[r]
    OBVIOUS
  <2> QED
    BY <2>1, <2>2 DEF RowSupport, Used
<1>3. InsertSupport'
  BY DEF InsertSupport
<1>4. DeleteSupport'
  BY DEF DeleteSupport, Used
<1> QED
  BY <1>1, <1>2, <1>3, <1>4 DEF Support

\* A delete is written: the row was live, so nobody else has erased it.
LEMMA LogErase ==
    ASSUME LogInv, NEW r \in Requests, pc[r] = "erase", Goto(r, "erased"),
           status[msg[r]] = "live", status' = [status EXCEPT ![msg[r]] = "deleted"],
           UNCHANGED <<author_id, content, told, kind>>
    PROVE  Support'
<1> USE DEF LogInv, ThreadTypeOK, TypeOK, Goto
<1>1. RequestSupport' /\ WriteSupport'
  BY DEF RequestSupport, WriteSupport, PCs, Used
<1>2. RowSupport'
  BY LogStatus
<1>3. InsertSupport'
  BY DEF RequestSupport, InsertSupport, PCs
<1>4. DeleteSupport'
  <2>1. PICK m \in Ids : m = msg[r]
    BY DEF RequestSupport, PCs
  <2>2. told[m] = 0 /\ \A q \in Requests : pc[q] = "erased" => msg[q] # m
    BY <2>1 DEF DeleteSupport
  <2>3. \A n \in Ids : status'[n] = IF n = m THEN "deleted" ELSE status[n]
    BY <2>1
  <2>4. UNCHANGED msg /\ \A q \in Requests : pc'[q] = "erased" => q = r \/ pc[q] = "erased"
    OBVIOUS
  <2> QED
    BY <2>1, <2>2, <2>3, <2>4 DEF RequestSupport, DeleteSupport, PCs, Used
<1> QED
  BY <1>1, <1>2, <1>3, <1>4 DEF Support

\* MESSAGE_DELETE is published.
LEMMA LogTold ==
    ASSUME LogInv, NEW r \in Requests, PublishDelete(r), UNCHANGED kind
    PROVE  Support'
<1> USE DEF LogInv, ThreadTypeOK, TypeOK, PublishDelete, Return, rowVars
<1>1. RequestSupport' /\ RowSupport' /\ WriteSupport'
  BY DEF RequestSupport, RowSupport, WriteSupport, PCs, Used
<1>2. InsertSupport'
  BY DEF InsertSupport
<1>3. DeleteSupport'
  BY DEF RequestSupport, WriteSupport, DeleteSupport, PCs, Used
<1> QED
  BY <1>1, <1>2, <1>3 DEF Support

\* The handler of an INSERT under way is dropped.
LEMMA LogDropInsert ==
    ASSUME LogInv, NEW r \in Requests, pc[r] = "inserting", Return(r),
           NEW s \in {"live", "none"}, status' = [status EXCEPT ![msg[r]] = s],
           UNCHANGED <<author_id, content, told, kind>>
    PROVE  Support'
<1> USE DEF LogInv, ThreadTypeOK, TypeOK, Return
<1>1. RequestSupport' /\ WriteSupport'
  BY DEF RequestSupport, WriteSupport, PCs, Used
<1>2. RowSupport'
  BY LogStatus
<1>3. InsertSupport'
  BY DEF RequestSupport, InsertSupport, PCs
<1>4. DeleteSupport'
  BY DEF RequestSupport, InsertSupport, DeleteSupport, PCs, Used
<1> QED
  BY <1>1, <1>2, <1>3, <1>4 DEF Support

\* resolve_channel_last_read_message_id finds the latest message.
LEMMA LogLatest ==
    ASSUME LogInv, NEW r \in Requests, pc[r] = "latest", NEW m \in Latest,
           msg' = [msg EXCEPT ![r] = m], pc' = [pc EXCEPT ![r] = "catchup"],
           UNCHANGED <<who, text, rowVars, told, kind>>
    PROVE  Support'
<1> USE DEF LogInv, ThreadTypeOK, TypeOK, rowVars
<1>1. m \in Ids /\ Used(m)
  BY DEF Latest, Live, RowSupport
<1>2. RequestSupport'
  BY <1>1 DEF RequestSupport, PCs
<1>3. RowSupport'
  BY DEF RowSupport, Used
<1>4. WriteSupport'
  BY <1>1 DEF WriteSupport, PCs, Used
<1>5. InsertSupport'
  BY DEF InsertSupport
<1>6. DeleteSupport'
  BY DEF DeleteSupport, Used
<1> QED
  BY <1>2, <1>3, <1>4, <1>5, <1>6 DEF Support

\* Every common step keeps the invariant of rows and requests.
LEMMA LogStep ==
    ASSUME LogInv, CommonStep, UNCHANGED threadVars
    PROVE  LogInv'
<1> USE DEF rowVars, eventVars
<1>1. UNCHANGED kind
  BY DEF threadVars
<1>2. ASSUME NEW r \in Requests, Begins(r) PROVE Support'
  <2>1. ASSUME NEW u \in Users, NEW c \in Contents, CreateMessage(r, u, c) PROVE Support'
    BY <1>1, <2>1, LogBegin DEF CreateMessage
  <2>2. ASSUME NEW u \in Users, NEW m \in Ids, NEW op \in {"edit", "delete"},
               NEW c \in Contents \cup {NoContent}, FindMessage(r, u, m, op, c)
        PROVE  Support'
    <3>1. Used(m)
      BY <2>2 DEF FindMessage, Live, LogInv, RowSupport
    <3>2. op \in {"create", "edit"} => c \in Contents
      BY <2>2 DEF FindMessage
    <3>3. Begin(r, u, op, m, c) /\ UNCHANGED <<rowVars, told, kind>>
      BY <1>1, <2>2 DEF FindMessage
    <3>4. CASE op = "edit"
      BY <3>1, <3>2, <3>3, <3>4, LogBegin
    <3>5. CASE op = "delete"
      BY <3>1, <3>3, <3>5, LogBegin
    <3> QED
      BY <3>4, <3>5
  <2>3. ASSUME NEW u \in Users, NEW m \in Ids \cup {NoMessage}, MarkChannelRead(r, u, m)
        PROVE  Support'
    <3>1. CASE m = NoMessage
      BY <1>1, <2>3, <3>1, LogBegin DEF MarkChannelRead
    <3>2. CASE m # NoMessage
      BY <1>1, <2>3, <3>2, LogBegin DEF MarkChannelRead
    <3> QED
      BY <3>1, <3>2
  <2> QED
    BY <1>2, <2>1, <2>2, <2>3 DEF Begins
<1>3. ASSUME NEW r \in Requests, Writing(r) PROVE Support'
  <2>1. CASE UpdateMessageContent(r)
    <3>1. CASE Return(r) /\ UNCHANGED content
      BY <1>1, <2>1, <3>1, LogReturn DEF UpdateMessageContent
    <3>2. CASE Goto(r, "updated") /\ content' = [content EXCEPT ![msg[r]] = text[r]]
      BY <1>1, <2>1, <3>2, LogUpdate DEF UpdateMessageContent
    <3> QED
      BY <2>1, <3>1, <3>2 DEF UpdateMessageContent
  <2>2. CASE SoftDeleteMessage(r)
    <3>1. CASE Return(r) /\ UNCHANGED status
      BY <1>1, <2>2, <3>1, LogReturn DEF SoftDeleteMessage
    <3>2. CASE /\ status[msg[r]] = "live"
               /\ Goto(r, "erased") /\ status' = [status EXCEPT ![msg[r]] = "deleted"]
      BY <1>1, <2>2, <3>2, LogErase DEF SoftDeleteMessage
    <3> QED
      BY <2>2, <3>1, <3>2 DEF SoftDeleteMessage
  <2>3. CASE PublishMessage(r)
    BY <1>1, <2>3, LogReturn DEF PublishMessage
  <2>4. CASE Drop(r)
    <3>1. CASE pc[r] # "inserting"
      BY <1>1, <2>4, <3>1, LogReturn DEF Drop
    <3>2. CASE pc[r] = "inserting"
      BY <1>1, <2>4, <3>2, LogDropInsert DEF Drop
    <3> QED
      BY <3>1, <3>2
  <2> QED
    BY <1>1, <1>3, <2>1, <2>2, <2>3, <2>4, LogInsert, LogInserted, LogTold DEF Writing
<1>4. ASSUME NEW r \in Requests, Answering(r) PROVE Support'
  <2>1. CASE CheckAuthor(r)
    <3>1. CASE Return(r)
      BY <1>1, <2>1, <3>1, LogReturn DEF CheckAuthor
    <3>2. CASE MayChange(r) /\ Goto(r, IF pc[r] = "edit" THEN "update" ELSE "erase")
      <4>1. Used(msg[r])
        BY <2>1 DEF CheckAuthor, LogInv, WriteSupport, PCs
      <4>2. CASE pc[r] = "edit"
        BY <1>1, <2>1, <3>2, <4>1, <4>2, LogGoto DEF CheckAuthor, MayChange
      <4>3. CASE pc[r] # "edit"
        BY <1>1, <2>1, <3>2, <4>1, <4>3, LogGoto DEF CheckAuthor, MayChange
      <4> QED
        BY <4>2, <4>3
    <3> QED
      BY <2>1, <3>1, <3>2 DEF CheckAuthor
  <2>2. CASE ResolveLatest(r)
    <3>1. CASE Return(r)
      BY <1>1, <2>2, <3>1, LogReturn DEF ResolveLatest
    <3>2. ASSUME NEW m \in Latest, msg' = [msg EXCEPT ![r] = m],
                 pc' = [pc EXCEPT ![r] = "catchup"], UNCHANGED <<who, text>>
          PROVE  Support'
      BY <1>1, <2>2, <3>2, LogLatest DEF ResolveLatest
    <3> QED
      BY <2>2, <3>1, <3>2 DEF ResolveLatest
  <2>3. CASE ResolveRequested(r)
    <3>1. CASE Return(r)
      BY <1>1, <2>3, <3>1, LogReturn DEF ResolveRequested
    <3>2. CASE msg[r] \in Live /\ Goto(r, "upsert")
      <4>1. Used(msg[r])
        BY <3>2 DEF Live, LogInv, RowSupport
      <4> QED
        BY <1>1, <2>3, <3>2, <4>1, LogGoto DEF ResolveRequested
    <3> QED
      BY <2>3, <3>1, <3>2 DEF ResolveRequested
  <2>4. CASE UpsertRead(r) \/ InsertRefused(r) \/ UpsertRefused(r)
    BY <1>1, <2>4, LogReturn DEF UpsertRead, InsertRefused, UpsertRefused
  <2> QED
    BY <1>4, <2>1, <2>2, <2>3, <2>4 DEF Answering
<1>5. ASSUME Watching PROVE Support'
  <2>1. UNCHANGED <<rowVars, localVars, told, kind>>
    BY <1>1, <1>5 DEF Watching, CheckSubscribe, Subscribe, FindAnchor, ListMessages, LoseAccess,
                      RegainAccess, Tick, localVars
  <2> HIDE DEF rowVars
  <2> QED
    BY <2>1, LogFrame
<1> QED
  BY <1>2, <1>3, <1>4, <1>5, TypeStep DEF CommonStep, LogInv, Support

\* So do the reject, which waits for the INSERTs, and all other steps.
LEMMA LogNext == LogInv /\ [ThreadNext]_allVars => LogInv'
<1> SUFFICES ASSUME LogInv, [ThreadNext]_allVars PROVE LogInv'
  OBVIOUS
<1>1. ASSUME NEW u \in Users, RejectThread(u) PROVE LogInv'
  <2> USE <1>1 DEF RejectThread, LogInv, localVars
  <2>1. ThreadTypeOK'
    BY DEF ThreadTypeOK, TypeOK, walkVars
  <2>2. RequestSupport'
    BY DEF RequestSupport
  <2>3. RowSupport'
    BY DEF RowSupport, Used
  <2>4. InsertSupport'
    BY DEF InsertSupport
  <2>5. WriteSupport'
    BY DEF WriteSupport, Used
  <2>6. DeleteSupport'
    <3>1. /\ \A m \in Ids : status'[m] = "none"
          /\ UNCHANGED <<told, author_id, pc, msg>>
      OBVIOUS
    <3>2. \A r \in Requests : pc[r] = "erased" => msg[r] \in Ids
      BY DEF RequestSupport, PCs
    <3> QED
      BY <3>1, <3>2 DEF DeleteSupport, Used
  <2> QED
    BY <2>1, <2>2, <2>3, <2>4, <2>5, <2>6
<1>2. ASSUME NEW u \in Users, AcceptThread(u) PROVE LogInv'
  <2>1. UNCHANGED <<rowVars, localVars, told, kind>>
    BY <1>2 DEF AcceptThread, vars, eventVars
  <2>2. ThreadTypeOK'
    BY <1>2 DEF AcceptThread, LogInv, ThreadTypeOK, TypeOK, vars, rowVars, localVars, walkVars,
                readVars, eventVars
  <2> QED
    BY <2>1, <2>2, LogFrame DEF LogInv, Support
<1>3. CASE UNCHANGED allVars
  <2>1. UNCHANGED <<rowVars, localVars, told, kind>>
    BY <1>3 DEF allVars, vars, eventVars, threadVars
  <2>2. ThreadTypeOK'
    BY <1>3 DEF allVars, threadVars, LogInv, ThreadTypeOK, TypeOK, vars, rowVars, localVars,
                walkVars, readVars, eventVars
  <2> QED
    BY <2>1, <2>2, LogFrame DEF LogInv, Support
<1>4. ThreadTypeOK
  BY DEF LogInv
<1> QED
  BY <1>1, <1>2, <1>3, <1>4, LogStep, Steps

\* At first there are no messages and no requests.
LEMMA LogInit == ThreadInit => LogInv
<1> SUFFICES ASSUME ThreadInit PROVE LogInv
  OBVIOUS
<1>1. <<>> \in Seq(Ids)
  OBVIOUS
<1>2. ThreadTypeOK
  <2>1. kind \in Kinds /\ direct_status \in {"PENDING", "ACTIVE"} /\ creator \in Users \cup {NoUser}
    BY DEF ThreadInit
  <2>2. TypeOK
    BY <1>1 DEF ThreadInit, Init, TypeOK, PCs
  <2> QED
    BY <2>1, <2>2 DEF ThreadTypeOK
<1>3. Support
  BY DEF ThreadInit, Init, Support, RequestSupport, RowSupport, InsertSupport, WriteSupport,
         DeleteSupport, Used
<1> QED
  BY <1>2, <1>3 DEF LogInv, Support

-----------------------------------------------------------------------------
(***************************************************************************)
(* What a step can do to the rows.                                         *)
(***************************************************************************)

\* The INSERT of an id that was not taken, its commit or loss, an edit, a
\* delete, and the reject of the thread.
RowInsert(m) ==
    /\ status[m] = "none" /\ ~Used(m) /\ author_id'[m] # NoUser
    /\ status' = [status EXCEPT ![m] = "inserting"]
    /\ \A n \in Ids \ {m} : author_id'[n] = author_id[n] /\ created_at'[n] = created_at[n]
                            /\ content'[n] = content[n]
    /\ UNCHANGED kind

RowSettle(m, s) ==
    /\ status[m] = "inserting" /\ kind # "GONE"
    /\ status' = [status EXCEPT ![m] = s]
    /\ UNCHANGED <<author_id, created_at, content, kind>>

RowEdit(m, c) ==
    /\ status[m] = "live"
    /\ content' = [content EXCEPT ![m] = c]
    /\ UNCHANGED <<status, author_id, created_at, kind>>

RowErase(m) ==
    /\ status[m] = "live"
    /\ status' = [status EXCEPT ![m] = "deleted"]
    /\ UNCHANGED <<author_id, created_at, content, kind>>

RowsGone ==
    /\ \A m \in Ids : status[m] # "inserting"
    /\ kind # "GONE" /\ kind' = "GONE"
    /\ status' = [m \in Ids |-> "none"]
    /\ UNCHANGED <<author_id, created_at, content>>

RowStep ==
    \/ UNCHANGED <<rowVars, kind>>
    \/ \E m \in Ids : RowInsert(m)
    \/ \E m \in Ids, s \in {"live", "none"} : RowSettle(m, s)
    \/ \E m \in Ids, c \in Contents : RowEdit(m, c)
    \/ \E m \in Ids : RowErase(m)
    \/ RowsGone

\* Every step is one of these.
LEMMA RowSteps == ASSUME LogInv, [ThreadNext]_allVars PROVE RowStep
<1> USE DEF LogInv
<1>1. ASSUME NEW r \in Requests, Writing(r), UNCHANGED kind PROVE RowStep
  <2>1. ASSUME NEW m \in Ids, Insert(r, m) PROVE RowInsert(m)
    BY <1>1, <2>1 DEF Insert, RowInsert, Used, ThreadTypeOK, TypeOK
  <2>2. ASSUME pc[r] = "inserting", NEW s \in {"live", "none"},
               status' = [status EXCEPT ![msg[r]] = s], UNCHANGED <<author_id, created_at, content>>
        PROVE  RowStep
    <3>1. RowSettle(msg[r], s) /\ msg[r] \in Ids
      BY <1>1, <2>2 DEF RowSettle, InsertSupport, RequestSupport, PCs
    <3> QED
      BY <3>1 DEF RowStep
  <2>3. CASE Inserted(r)
    BY <2>2, <2>3 DEF Inserted
  <2>4. CASE UpdateMessageContent(r)
    <3>1. msg[r] \in Ids /\ text[r] \in Contents
      BY <2>4 DEF UpdateMessageContent, RequestSupport, PCs
    <3>2. RowEdit(msg[r], text[r]) \/ UNCHANGED <<rowVars, kind>>
      BY <1>1, <2>4 DEF UpdateMessageContent, RowEdit, rowVars
    <3> QED
      BY <3>1, <3>2 DEF RowStep
  <2>5. CASE SoftDeleteMessage(r)
    <3>1. msg[r] \in Ids
      BY <2>5 DEF SoftDeleteMessage, RequestSupport, PCs
    <3>2. RowErase(msg[r]) \/ UNCHANGED <<rowVars, kind>>
      BY <1>1, <2>5 DEF SoftDeleteMessage, RowErase, rowVars
    <3> QED
      BY <3>1, <3>2 DEF RowStep
  <2>6. CASE PublishMessage(r) \/ PublishDelete(r)
    BY <1>1, <2>6 DEF PublishMessage, PublishDelete, RowStep
  <2>7. CASE Drop(r)
    BY <1>1, <2>2, <2>7 DEF Drop, RowStep, rowVars
  <2> QED
    BY <1>1, <2>1, <2>3, <2>4, <2>5, <2>6, <2>7 DEF Writing, RowStep
<1>2. ASSUME NEW r \in Requests, Begins(r) \/ Answering(r), UNCHANGED kind PROVE RowStep
  BY <1>2 DEF Begins, Answering, CreateMessage, FindMessage, MarkChannelRead, CheckAuthor,
              ResolveLatest, ResolveRequested, UpsertRead, InsertRefused, UpsertRefused, RowStep
<1>3. ASSUME Watching, UNCHANGED kind PROVE RowStep
  BY <1>3 DEF Watching, CheckSubscribe, Subscribe, FindAnchor, ListMessages, LoseAccess,
              RegainAccess, Tick, RowStep
<1>4. ASSUME NEW u \in Users, RejectThread(u) PROVE RowStep
  <2>1. \A m \in Ids : status[m] # "inserting"
    BY <1>4 DEF RejectThread, InsertSupport
  <2> QED
    BY <1>4, <2>1 DEF RejectThread, RowsGone, RowStep
<1>5. ASSUME NEW u \in Users, AcceptThread(u) PROVE RowStep
  BY <1>5 DEF AcceptThread, vars, RowStep
<1>6. CASE UNCHANGED allVars
  BY <1>6 DEF allVars, vars, threadVars, RowStep
<1> QED
  BY <1>1, <1>2, <1>3, <1>4, <1>5, <1>6, Steps DEF CommonStep, threadVars

\* Taken ids keep their place in the order, deleted rows stay deleted, and
\* the row of a message is never removed alone.
RowsStay ==
    /\ kind' # "GONE" => kind # "GONE"
    /\ \A m \in Ids :
          /\ Used(m) => author_id'[m] = author_id[m] /\ created_at'[m] = created_at[m]
          /\ Used(m) /\ status[m] # "inserting" =>
                 status'[m] # "inserting" /\ (status'[m] = "live" => status[m] = "live")
          /\ kind' # "GONE" /\ status[m] \in {"live", "deleted"} =>
                 status'[m] \in {"live", "deleted"}

LEMMA RowsStayStep == ASSUME LogInv, [ThreadNext]_allVars PROVE RowsStay
<1> USE DEF RowsStay, Used, LogInv, ThreadTypeOK, TypeOK
<1>1. CASE UNCHANGED <<rowVars, kind>>
  BY <1>1 DEF rowVars
<1>2. ASSUME NEW m \in Ids, RowInsert(m) PROVE RowsStay
  BY <1>2 DEF RowInsert
<1>3. ASSUME NEW m \in Ids, NEW s \in {"live", "none"}, RowSettle(m, s) PROVE RowsStay
  BY <1>3 DEF RowSettle
<1>4. ASSUME NEW m \in Ids, NEW c \in Contents, RowEdit(m, c) PROVE RowsStay
  BY <1>4 DEF RowEdit
<1>5. ASSUME NEW m \in Ids, RowErase(m) PROVE RowsStay
  BY <1>5 DEF RowErase
<1>6. CASE RowsGone
  BY <1>6 DEF RowsGone
<1> HIDE DEF RowsStay
<1> QED
  BY <1>1, <1>2, <1>3, <1>4, <1>5, <1>6, RowSteps DEF RowStep

-----------------------------------------------------------------------------
(***************************************************************************)
(* The rows implement MessageLog.                                          *)
(***************************************************************************)

\* What MessageLog sees of a row.
LEMMA TextIs ==
    ASSUME NEW m \in Ids
    PROVE  /\ textBar = [n \in Ids |-> textBar[n]]
           /\ status[m] = "live" => textBar[m] = content[m]
           /\ status[m] = "deleted" => textBar[m] = "gone"
           /\ status[m] = "none" /\ Used(m) => textBar[m] = "lost"
           /\ status[m] = "none" /\ ~Used(m) => textBar[m] = NoContent
           /\ status[m] = "inserting" => textBar[m] = NoContent
  BY DEF textBar, Used


LEMMA TextIsNext ==
    ASSUME NEW m \in Ids
    PROVE  /\ status'[m] = "live" => textBar'[m] = content'[m]
           /\ status'[m] = "deleted" => textBar'[m] = "gone"
           /\ status'[m] = "none" /\ author_id'[m] # NoUser => textBar'[m] = "lost"
           /\ status'[m] = "none" /\ author_id'[m] = NoUser => textBar'[m] = NoContent
           /\ status'[m] = "inserting" => textBar'[m] = NoContent
  BY DEF textBar

\* A message that keeps its row keeps what MessageLog sees of it.
LEMMA TextStays ==
    ASSUME LogInv, NEW m \in Ids,
           status'[m] = status[m], author_id'[m] = author_id[m], content'[m] = content[m]
    PROVE  textBar'[m] = textBar[m]
<1>1. status[m] \in {"none", "inserting", "live", "deleted"}
  BY DEF LogInv, ThreadTypeOK, TypeOK
<1>2. CASE status[m] = "none"
  BY <1>2, TextIs, TextIsNext DEF Used
<1>3. CASE status[m] # "none"
  BY <1>1, <1>3, TextIs, TextIsNext
<1> QED
  BY <1>2, <1>3

\* A step that changes one row changes one message of the log.
LEMMA TextBecomes ==
    ASSUME LogInv, NEW m \in Ids, NEW what, textBar'[m] = what,
           \A n \in Ids \ {m} :
               status'[n] = status[n] /\ author_id'[n] = author_id[n] /\ content'[n] = content[n],
           UNCHANGED kind
    PROVE  Log!Become(m, what)
<1>1. \A n \in Ids \ {m} : textBar'[n] = textBar[n]
  BY TextStays
<1>2. textBar = [n \in Ids |-> textBar[n]]
  BY TextIs
<1>3. textBar' = [n \in Ids |-> textBar'[n]]
  BY DEF textBar
<1> HIDE DEF textBar
<1>4. textBar' = [textBar EXCEPT ![m] = what]
  BY <1>1, <1>2, <1>3
<1> QED
  BY <1>4 DEF Log!Become

LEMMA LogRefinesInit == ThreadInit => Log!Init
<1> SUFFICES ASSUME ThreadInit PROVE Log!Init
  OBVIOUS
<1>1. \A m \in Ids : textBar[m] = NoContent
  BY TextIs DEF ThreadInit, Init, Used
<1>2. textBar = [m \in Ids |-> textBar[m]]
  BY DEF textBar
<1>3. kind # "GONE"
  BY DEF ThreadInit
<1> QED
  BY <1>1, <1>2, <1>3 DEF Log!Init

LEMMA LogRefinesStep == ASSUME LogInv, [ThreadNext]_allVars PROVE [Log!Next]_Log!vars
<1> USE DEF LogInv, ThreadTypeOK, TypeOK
<1> DEFINE Same == textBar' = textBar /\ UNCHANGED kind
<1>1. CASE UNCHANGED <<rowVars, kind>>
  <2>1. Same
    BY <1>1 DEF textBar, rowVars
  <2> QED
    BY <2>1 DEF Log!vars
<1>2. ASSUME NEW m \in Ids, RowInsert(m) PROVE [Log!Next]_Log!vars
  <2>1. \A n \in Ids : textBar'[n] = textBar[n]
    <3>1. textBar'[m] = textBar[m]
      BY <1>2, TextIs, TextIsNext DEF RowInsert
    <3>2. \A n \in Ids \ {m} : textBar'[n] = textBar[n]
      <4> TAKE n \in Ids \ {m}
      <4>1. status \in [Ids -> {"none", "inserting", "live", "deleted"}]
        OBVIOUS
      <4> HIDE DEF LogInv, ThreadTypeOK, TypeOK
      <4>2. status'[n] = status[n]
        BY <1>2, <4>1 DEF RowInsert
      <4>3. author_id'[n] = author_id[n] /\ content'[n] = content[n]
        BY <1>2 DEF RowInsert
      <4> QED
        BY <4>2, <4>3, TextStays
    <3> QED
      BY <3>1, <3>2
  <2>2. textBar = [n \in Ids |-> textBar[n]] /\ textBar' = [n \in Ids |-> textBar'[n]]
    BY DEF textBar
  <2>3. textBar' = textBar
    <3>1. [n \in Ids |-> textBar[n]] = [n \in Ids |-> textBar'[n]]
      BY <2>1
    <3> QED
      BY <2>2, <3>1
  <2> QED
    BY <1>2, <2>3 DEF Log!vars, RowInsert
<1>3. ASSUME NEW m \in Ids, NEW s \in {"live", "none"}, RowSettle(m, s) PROVE Log!Next
  <2>1. textBar[m] = NoContent /\ kind # "GONE" /\ Used(m) /\ content[m] \in Contents
    BY <1>3, TextIs DEF RowSettle, RowSupport
  <2>2. \A n \in Ids \ {m} :
            status'[n] = status[n] /\ author_id'[n] = author_id[n] /\ content'[n] = content[n]
    BY <1>3 DEF RowSettle
  <2>3. CASE s = "live"
    <3>1. textBar'[m] = content[m]
      BY <1>3, <2>3, TextIsNext DEF RowSettle
    <3>2. Log!Become(m, content[m])
      BY <1>3, <2>2, <3>1, TextBecomes DEF RowSettle
    <3>3. Log!Post(m, content[m])
      BY <2>1, <3>2 DEF Log!Post
    <3> QED
      BY <2>1, <3>3 DEF Log!Next
  <2>4. CASE s = "none"
    <3>1. textBar'[m] = "lost"
      BY <1>3, <2>1, <2>4, TextIsNext DEF RowSettle, Used
    <3>2. Log!Become(m, "lost")
      BY <1>3, <2>2, <3>1, TextBecomes DEF RowSettle
    <3>3. Log!Abandon(m)
      BY <2>1, <3>2 DEF Log!Abandon
    <3> QED
      BY <3>3 DEF Log!Next
  <2> QED
    BY <2>3, <2>4
<1>4. ASSUME NEW m \in Ids, NEW c \in Contents, RowEdit(m, c) PROVE Log!Next
  <2>1. textBar[m] \in Contents
    BY <1>4, TextIs DEF RowEdit, RowSupport
  <2>2. textBar'[m] = c
    BY <1>4, TextIsNext DEF RowEdit
  <2>3. Log!Become(m, c)
    BY <1>4, <2>2, TextBecomes DEF RowEdit
  <2>4. Log!Edit(m, c)
    BY <2>1, <2>3 DEF Log!Edit
  <2> QED
    BY <2>4 DEF Log!Next
<1>5. ASSUME NEW m \in Ids, RowErase(m) PROVE Log!Next
  <2>1. textBar[m] \in Contents
    BY <1>5, TextIs DEF RowErase, RowSupport
  <2>2. textBar'[m] = "gone"
    BY <1>5, TextIsNext DEF RowErase
  <2>3. Log!Become(m, "gone")
    BY <1>5, <2>2, TextBecomes DEF RowErase
  <2>4. Log!Remove(m)
    BY <2>1, <2>3 DEF Log!Remove
  <2> QED
    BY <2>4 DEF Log!Next
<1>6. ASSUME RowsGone PROVE Log!Next
  <2>1. \A m \in Ids : textBar[m] = NoContent => textBar'[m] = NoContent
    <3> TAKE m \in Ids
    <3>1. CASE Used(m)
      BY <1>6, <3>1, TextIs, TextIsNext DEF RowsGone, RowSupport, Used
    <3>2. CASE ~Used(m)
      BY <1>6, <3>2, TextIsNext DEF RowsGone, Used
    <3> QED
      BY <3>1, <3>2
  <2>2. \A m \in Ids : textBar[m] # NoContent => textBar'[m] = "lost"
    <3> TAKE m \in Ids
    <3>1. CASE Used(m)
      BY <1>6, <3>1, TextIsNext DEF RowsGone, Used
    <3>2. CASE ~Used(m)
      BY <1>6, <3>2, TextIs DEF RowsGone, Used, RowSupport
    <3> QED
      BY <3>1, <3>2
  <2>3. textBar' = [m \in Ids |-> textBar'[m]]
    BY DEF textBar
  <2>4. textBar' = [m \in Ids |-> IF textBar[m] = NoContent THEN NoContent ELSE "lost"]
    <3> HIDE DEF textBar
    <3> QED
      BY <2>1, <2>2, <2>3
  <2> QED
    BY <1>6, <2>4 DEF RowsGone, Log!Dissolve, Log!Next
<1> QED
  BY <1>1, <1>2, <1>3, <1>4, <1>5, <1>6, RowSteps DEF RowStep

-----------------------------------------------------------------------------
(***************************************************************************)
(* LogInv holds throughout.                                                *)
(***************************************************************************)
THEOREM LogInvariance == ThreadSpec => []LogInv
<1>1. ThreadInit => LogInv
  BY LogInit
<1>2. LogInv /\ [ThreadNext]_allVars => LogInv'
  BY LogNext
<1> QED
  BY <1>1, <1>2, PTL DEF ThreadSpec

(***************************************************************************)
(* The type invariant of channels and threads: every request is bound to a *)
(* user exactly while it runs.                                             *)
(***************************************************************************)
THEOREM TypeCorrect == ThreadSpec => []ThreadTypeOK
<1>1. LogInv => ThreadTypeOK
  BY DEF LogInv
<1> QED
  BY <1>1, LogInvariance, PTL

(***************************************************************************)
(* Deletes that race publish MESSAGE_DELETE once, for a message that is no *)
(* longer stored (soft_delete_message asks for deleted_at IS NULL).        *)
(***************************************************************************)
THEOREM ToldOnce == ThreadSpec => []DeleteToldOnce
<1>1. LogInv => DeleteToldOnce
  BY DEF LogInv, DeleteSupport, DeleteToldOnce
<1> QED
  BY <1>1, LogInvariance, PTL

(***************************************************************************)
(* The rows of a channel or thread implement MessageLog: writes that raced *)
(* a delete or a reject change nothing, and nothing is posted in a thread  *)
(* that is gone.                                                           *)
(***************************************************************************)
THEOREM Refinement == ThreadSpec => ImplementsLog
<1>1. ThreadInit => Log!Init
  BY LogRefinesInit
<1>2. LogInv /\ [ThreadNext]_allVars => [Log!Next]_Log!vars
  BY LogRefinesStep
<1> QED
  BY <1>1, <1>2, LogInvariance, PTL DEF ThreadSpec, ImplementsLog, Log!Spec

(***************************************************************************)
(* Only a request of the author that passed its check changes a message    *)
(* that is not deleted, but for the reject of the whole thread.            *)
(***************************************************************************)
THEOREM OnlyAuthors == ThreadSpec => AuthorWrites
<1> DEFINE Writer(m) == \E r \in Requests :
                            /\ pc[r] \in {"update", "erase"} /\ pc'[r] # pc[r]
                            /\ msg[r] = m /\ who[r] = author_id[m]
           Owned == \A m \in Live :
                        m \notin Live' \/ content'[m] # content[m] =>
                            kind' = "GONE" \/ Writer(m)
<1>1. ASSUME LogInv, [ThreadNext]_allVars PROVE Owned
  <2> USE <1>1
  <2>0. /\ status \in [Ids -> {"none", "inserting", "live", "deleted"}]
        /\ content \in [Ids -> Contents \cup {NoContent}]
        /\ pc \in [Requests -> PCs]
    BY DEF LogInv, ThreadTypeOK, TypeOK
  <2>1. CASE UNCHANGED <<status, content>>
    BY <2>1 DEF Live
  <2>2. ASSUME NEW r \in Requests, UpdateMessageContent(r) PROVE Owned
    <3>1. PICK m \in Ids : m = msg[r] /\ who[r] = author_id[m]
      BY <2>2 DEF UpdateMessageContent, LogInv, RequestSupport, WriteSupport, PCs
    <3>2. \A n \in Ids \ {m} : content'[n] = content[n]
      BY <2>0, <2>2, <3>1 DEF UpdateMessageContent
    <3>3. status' = status /\ pc[r] = "update" /\ pc'[r] # pc[r]
      BY <2>0, <2>2 DEF UpdateMessageContent, Goto, Return
    <3>4. Writer(m)
      BY <3>1, <3>3
    <3> QED
      BY <3>2, <3>3, <3>4 DEF Live
  <2>3. ASSUME NEW r \in Requests, SoftDeleteMessage(r) PROVE Owned
    <3>1. PICK m \in Ids : m = msg[r] /\ who[r] = author_id[m]
      BY <2>3 DEF SoftDeleteMessage, LogInv, RequestSupport, WriteSupport, PCs
    <3>2. \A n \in Ids \ {m} : status'[n] = status[n]
      BY <2>0, <2>3, <3>1 DEF SoftDeleteMessage
    <3>3. content' = content /\ pc[r] = "erase" /\ pc'[r] # pc[r]
      BY <2>0, <2>3 DEF SoftDeleteMessage, Goto, Return
    <3>4. Writer(m)
      BY <3>1, <3>3
    <3> QED
      BY <3>2, <3>3, <3>4 DEF Live
  <2>4. ASSUME NEW r \in Requests, NEW m \in Ids, Insert(r, m) PROVE Owned
    <3>1. status[m] # "live" /\ \A n \in Ids \ {m} : content'[n] = content[n] /\ status'[n] = status[n]
      BY <2>0, <2>4 DEF Insert
    <3> QED
      BY <3>1 DEF Live
  <2>5. ASSUME NEW r \in Requests, pc[r] = "inserting", content' = content,
               \E s \in {"live", "none"} : status' = [status EXCEPT ![msg[r]] = s]
        PROVE  Owned
    <3>0. msg[r] \in Ids
      BY <2>5 DEF LogInv, RequestSupport, PCs
    <3>1. PICK m \in Ids : m = msg[r] /\ status[m] = "inserting"
      BY <2>5, <3>0 DEF LogInv, InsertSupport
    <3>2. \A n \in Ids \ {m} : status'[n] = status[n]
      BY <2>0, <2>5, <3>1
    <3> QED
      BY <2>5, <3>1, <3>2 DEF Live
  <2>6. ASSUME NEW r \in Requests, Writing(r) PROVE Owned
    <3>1. CASE Inserted(r) \/ Drop(r)
      BY <2>1, <2>5, <3>1 DEF Inserted, Drop
    <3>2. CASE PublishMessage(r) \/ PublishDelete(r)
      BY <2>1, <3>2 DEF PublishMessage, PublishDelete, rowVars
    <3> HIDE DEF Owned
    <3> QED
      BY <2>2, <2>3, <2>4, <2>6, <3>1, <3>2 DEF Writing
  <2>7. ASSUME NEW r \in Requests, Begins(r) \/ Answering(r) PROVE UNCHANGED <<status, content>>
    BY <2>7 DEF Begins, Answering, CreateMessage, FindMessage, MarkChannelRead, CheckAuthor,
       ResolveLatest, ResolveRequested, UpsertRead, InsertRefused, UpsertRefused, rowVars
  <2>8. ASSUME Watching PROVE UNCHANGED <<status, content>>
    BY <2>8 DEF Watching, CheckSubscribe, Subscribe, FindAnchor, ListMessages, LoseAccess,
       RegainAccess, Tick, rowVars
  <2>9. ASSUME NEW u \in Users, RejectThread(u) PROVE kind' = "GONE"
    BY <2>9 DEF RejectThread
  <2>10. ASSUME NEW u \in Users, AcceptThread(u) PROVE UNCHANGED <<status, content>>
    BY <2>10 DEF AcceptThread, vars, rowVars
  <2>11. ASSUME UNCHANGED allVars PROVE UNCHANGED <<status, content>>
    BY <2>11 DEF allVars, vars, rowVars
  <2>12. kind' = "GONE" => Owned
    OBVIOUS
  <2>13. ThreadTypeOK
    BY DEF LogInv
  <2> HIDE DEF Owned
  <2> QED
    BY <2>1, <2>6, <2>7, <2>8, <2>9, <2>10, <2>11, <2>12, <2>13, Steps DEF CommonStep
<1>2. LogInv /\ [ThreadNext]_allVars =>
          [\A m \in Live :
              m \notin Live' \/ content'[m] # content[m] =>
                  \/ kind' = "GONE"
                  \/ \E r \in Requests :
                         /\ pc[r] \in {"update", "erase"} /\ pc'[r] # pc[r]
                         /\ msg[r] = m /\ who[r] = author_id[m]]_allVars
  BY <1>1
<1> HIDE DEF Owned
<1> QED
  BY <1>2, LogInvariance, PTL DEF ThreadSpec, AuthorWrites

-----------------------------------------------------------------------------
(***************************************************************************)
(* Read markers.                                                           *)
(***************************************************************************)

\* Messages keep their order.
LEMMA PlaceStays ==
    ASSUME RowsStay, NEW m \in Ids, NEW n \in Ids, Used(m), Used(n)
    PROVE  Used(m)' /\ Used(n)' /\ (Newer(m, n)' <=> Newer(m, n))
  BY DEF RowsStay, Used, Newer

\* What requests have seen is kept or forgotten.
SeenStays ==
    \A q \in Requests :
        seen'[q] # {} => seen'[q] = seen[q] /\ msg'[q] = msg[q] /\ pc'[q] = "catchup"

LEMMA ReadKeep ==
    ASSUME LogInv, ReadSupport, RowsStay, UNCHANGED readVars, SeenStays, ThreadTypeOK'
    PROVE  ReadSupport'
<1>0. /\ last_read' = last_read /\ caught' = caught
      /\ last_read \in [Users -> Ids \cup {NoMessage}] /\ caught \in [Users -> SUBSET Ids]
      /\ msg \in [Requests -> Ids \cup {NoMessage}] /\ seen \in [Requests -> SUBSET Ids]
  BY DEF readVars, LogInv, ThreadTypeOK, TypeOK
<1> USE <1>0 DEF LogInv
<1>1. ASSUME NEW u \in Users, last_read'[u] # NoMessage PROVE Used(last_read[u])'
  <2>1. PICK l \in Ids : l = last_read[u]
    BY <1>1
  <2>2. Used(l)'
    BY <1>1, <2>1 DEF ReadSupport, RowsStay, Used
  <2> QED
    BY <2>1, <2>2 DEF Used
<1>2. ASSUME NEW u \in Users, NEW m \in caught'[u]
      PROVE  Used(m)' /\ last_read'[u] # NoMessage /\ ~Newer(m, last_read[u])'
  <2>1. PICK l \in Ids : l = last_read[u]
    BY <1>2 DEF ReadSupport
  <2>2. m \in Ids /\ Used(m) /\ Used(l) /\ ~Newer(m, l) /\ l = last_read'[u]
    BY <1>2, <2>1 DEF ReadSupport
  <2>3. Used(m)' /\ ~Newer(m, l)'
    BY <2>2, PlaceStays
  <2> QED
    BY <2>1, <2>2, <2>3 DEF Newer
<1>3. ASSUME NEW r \in Requests, pc'[r] # "catchup" PROVE seen'[r] = {}
  BY <1>3 DEF SeenStays
<1>4. ASSUME NEW r \in Requests, NEW m \in seen'[r] PROVE Used(m)' /\ ~Newer(m, msg[r])'
  <2>1. m \in seen[r] /\ msg'[r] = msg[r] /\ pc[r] = "catchup" /\ m \in Ids
    BY <1>4 DEF SeenStays, ReadSupport
  <2>2. PICK l \in Ids : l = msg[r]
    BY <2>1 DEF RequestSupport, PCs
  <2>3. Used(m) /\ Used(l) /\ ~Newer(m, l)
    BY <2>1, <2>2 DEF ReadSupport, WriteSupport, PCs
  <2>4. Used(m)' /\ ~Newer(m, l)'
    BY <2>1, <2>3, PlaceStays
  <2> QED
    BY <2>1, <2>2, <2>4 DEF Newer
<1> QED
  BY <1>1, <1>2, <1>3, <1>4 DEF ReadSupport

\* A step of request r leaves what the others have seen, and r has seen
\* nothing unless it is catching up.
LEMMA SeenOther ==
    ASSUME LogInv, ReadSupport, NEW r \in Requests,
           \A q \in Requests \ {r} : pc'[q] = pc[q] /\ msg'[q] = msg[q],
           \/ pc[r] # "catchup" /\ UNCHANGED seen
           \/ seen' = [seen EXCEPT ![r] = {}]
    PROVE  SeenStays
  BY DEF LogInv, ThreadTypeOK, TypeOK, ReadSupport, SeenStays

\* The request without a message resolved to the latest one.
LEMMA ReadLatest ==
    ASSUME LogInv, ReadSupport, NEW r \in Requests, pc[r] = "latest", NEW m \in Latest,
           msg' = [msg EXCEPT ![r] = m], pc' = [pc EXCEPT ![r] = "catchup"],
           seen' = [seen EXCEPT ![r] = Live], UNCHANGED <<rowVars, readVars>>
    PROVE  ReadSupport'
<1> USE DEF LogInv, ThreadTypeOK, TypeOK, rowVars, readVars
<1>1. \A n \in Live : Used(n) /\ ~Newer(n, m)
  BY DEF Latest, Live, RowSupport
<1>2. \A n \in Ids : Used(n)' <=> Used(n)
  BY DEF Used
<1>3. \A n, k \in Ids : Newer(n, k)' <=> Newer(n, k)
  BY DEF Newer
<1>4. ASSUME NEW q \in Requests, NEW n \in seen'[q] PROVE Used(n)' /\ ~Newer(n, msg[q])'
  <2>1. CASE q = r
    <3>1. n \in Live /\ n \in Ids /\ msg'[q] = m
      BY <1>4, <2>1 DEF Live
    <3> QED
      BY <1>1, <3>1 DEF Used, Newer
  <2>2. CASE q # r
    BY <1>4, <2>2 DEF ReadSupport, Used, Newer
  <2> QED
    BY <2>1, <2>2
<1>5. \A q \in Requests : pc'[q] # "catchup" => seen'[q] = {}
  BY DEF ReadSupport
<1>6. \A u \in Users : last_read'[u] # NoMessage => Used(last_read[u])'
  BY DEF ReadSupport, Used
<1>7. \A u \in Users : \A n \in caught'[u] :
          Used(n)' /\ last_read'[u] # NoMessage /\ ~Newer(n, last_read[u])'
  BY DEF ReadSupport, Used, Newer
<1> QED
  BY <1>4, <1>5, <1>6, <1>7 DEF ReadSupport

\* The marker is written, with what its request had seen.
LEMMA ReadUpsert ==
    ASSUME LogInv, ReadSupport, NEW r \in Requests, UpsertRead(r)
    PROVE  ReadSupport'
<1> USE DEF LogInv, ThreadTypeOK, TypeOK, UpsertRead, Return, rowVars
<1>1. PICK v \in Users : v = who[r]
  OBVIOUS
<1>2. PICK l \in Ids : l = msg[r] /\ Used(l)
  BY DEF RequestSupport, WriteSupport, PCs
<1>3. /\ last_read' = [last_read EXCEPT ![v] = l]
      /\ caught' = [caught EXCEPT ![v] = seen[r]]
  BY <1>1, <1>2
<1>4. ASSUME NEW u \in Users, last_read'[u] # NoMessage PROVE Used(last_read[u])'
  BY <1>2, <1>3, <1>4 DEF ReadSupport, Used
<1>5. ASSUME NEW u \in Users, NEW m \in caught'[u]
      PROVE  Used(m)' /\ last_read'[u] # NoMessage /\ ~Newer(m, last_read[u])'
  <2>1. CASE u = v
    <3>1. m \in seen[r] /\ last_read'[u] = l /\ l # NoMessage
      BY <1>3, <1>5, <2>1
    <3>2. Used(m) /\ ~Newer(m, l)
      BY <1>2, <3>1 DEF ReadSupport
    <3> QED
      BY <3>1, <3>2 DEF Used, Newer
  <2>2. CASE u # v
    <3>1. caught'[u] = caught[u] /\ last_read'[u] = last_read[u]
      BY <1>3, <2>2
    <3> QED
      BY <1>5, <3>1 DEF ReadSupport, Used, Newer
  <2> QED
    BY <2>1, <2>2
<1>6. \A q \in Requests : pc'[q] # "catchup" => seen'[q] = {}
  BY DEF ReadSupport
<1>7. ASSUME NEW q \in Requests, NEW m \in seen'[q] PROVE Used(m)' /\ ~Newer(m, msg[q])'
  BY <1>7 DEF ReadSupport, Used, Newer
<1> QED
  BY <1>4, <1>5, <1>6, <1>7 DEF ReadSupport

LEMMA ReadNext == LogInv /\ ReadSupport /\ [ThreadNext]_allVars => ReadSupport'
<1> SUFFICES ASSUME LogInv, ReadSupport, [ThreadNext]_allVars PROVE ReadSupport'
  OBVIOUS
<1>1. RowsStay /\ ThreadTypeOK'
  BY RowsStayStep, LogNext DEF LogInv
<1>2. ASSUME UNCHANGED readVars, SeenStays PROVE ReadSupport'
  BY <1>1, <1>2, ReadKeep
<1>3. ASSUME NEW r \in Requests, Begins(r) PROVE ReadSupport'
  <2>1. UNCHANGED readVars /\ UNCHANGED seen /\ pc[r] # "catchup"
    BY <1>3 DEF Begins, CreateMessage, FindMessage, MarkChannelRead, Begin
  <2>2. \A q \in Requests \ {r} : pc'[q] = pc[q] /\ msg'[q] = msg[q]
    BY <1>3 DEF Begins, CreateMessage, FindMessage, MarkChannelRead, Begin, LogInv, ThreadTypeOK,
                TypeOK
  <2> QED
    BY <1>2, <2>1, <2>2, SeenOther
<1>4. ASSUME NEW r \in Requests, Writing(r) PROVE ReadSupport'
  <2>1. UNCHANGED readVars
    BY <1>4 DEF Writing, Insert, Inserted, UpdateMessageContent, SoftDeleteMessage, PublishMessage,
                PublishDelete, Drop
  <2>2. \/ pc[r] # "catchup" /\ UNCHANGED seen
        \/ seen' = [seen EXCEPT ![r] = {}]
    BY <1>4 DEF Writing, Insert, Inserted, UpdateMessageContent, SoftDeleteMessage, PublishMessage,
                PublishDelete, Drop
  <2>3. \A q \in Requests \ {r} : pc'[q] = pc[q] /\ msg'[q] = msg[q]
    BY <1>4 DEF Writing, Insert, Inserted, UpdateMessageContent, SoftDeleteMessage, PublishMessage,
                PublishDelete, Drop, Goto, Return, LogInv, ThreadTypeOK, TypeOK
  <2> QED
    BY <1>2, <2>1, <2>2, <2>3, SeenOther
<1>5. ASSUME NEW r \in Requests,
             CheckAuthor(r) \/ ResolveRequested(r) \/ InsertRefused(r) \/ UpsertRefused(r)
      PROVE  ReadSupport'
  <2>1. UNCHANGED readVars
    BY <1>5 DEF CheckAuthor, ResolveRequested, InsertRefused, UpsertRefused
  <2>2. \/ pc[r] # "catchup" /\ UNCHANGED seen
        \/ seen' = [seen EXCEPT ![r] = {}]
    BY <1>5 DEF CheckAuthor, ResolveRequested, InsertRefused, UpsertRefused
  <2>3. \A q \in Requests \ {r} : pc'[q] = pc[q] /\ msg'[q] = msg[q]
    BY <1>5 DEF CheckAuthor, ResolveRequested, InsertRefused, UpsertRefused, Goto, Return, LogInv,
                ThreadTypeOK, TypeOK
  <2> QED
    BY <1>2, <2>1, <2>2, <2>3, SeenOther
<1>6. ASSUME NEW r \in Requests, ResolveLatest(r) PROVE ReadSupport'
  <2>1. CASE Return(r) /\ UNCHANGED seen
    <3>1. UNCHANGED readVars /\ pc[r] # "catchup"
      BY <1>6 DEF ResolveLatest
    <3>2. \A q \in Requests \ {r} : pc'[q] = pc[q] /\ msg'[q] = msg[q]
      BY <2>1 DEF Return, LogInv, ThreadTypeOK, TypeOK
    <3> QED
      BY <1>2, <2>1, <3>1, <3>2, SeenOther
  <2>2. CASE /\ \E m \in Latest : msg' = [msg EXCEPT ![r] = m]
             /\ pc' = [pc EXCEPT ![r] = "catchup"]
             /\ seen' = [seen EXCEPT ![r] = Live]
    BY <1>6, <2>2, ReadLatest DEF ResolveLatest
  <2> QED
    BY <1>6, <2>1, <2>2 DEF ResolveLatest
<1>7. ASSUME UNCHANGED <<readVars, seen, pc, msg>> PROVE ReadSupport'
  <2>1. SeenStays
    BY <1>7 DEF SeenStays, ReadSupport
  <2> QED
    BY <1>2, <1>7, <2>1
<1>8. CASE Watching
  BY <1>7, <1>8 DEF Watching, CheckSubscribe, Subscribe, FindAnchor, ListMessages, LoseAccess,
                    RegainAccess, Tick, localVars
<1>9. ASSUME NEW u \in Users, RejectThread(u) PROVE ReadSupport'
  <2> USE <1>9 DEF RejectThread, localVars
  <2>1. \A v \in Users : last_read'[v] = NoMessage /\ caught'[v] = {}
    OBVIOUS
  <2>2. ASSUME NEW q \in Requests, NEW m \in seen'[q] PROVE Used(m)' /\ ~Newer(m, msg[q])'
    BY <2>2 DEF ReadSupport, Used, Newer
  <2>3. \A q \in Requests : pc'[q] # "catchup" => seen'[q] = {}
    BY DEF ReadSupport
  <2> QED
    BY <2>1, <2>2, <2>3 DEF ReadSupport
<1>10. ASSUME NEW u \in Users, AcceptThread(u) PROVE ReadSupport'
  BY <1>7, <1>10 DEF AcceptThread, vars, localVars
<1>11. CASE UNCHANGED allVars
  BY <1>7, <1>11 DEF allVars, vars, localVars
<1>12. ThreadTypeOK
  BY DEF LogInv
<1> QED
  BY <1>3, <1>4, <1>5, <1>6, <1>8, <1>9, <1>10, <1>11, <1>12, ReadUpsert, Steps
     DEF CommonStep, Answering

(***************************************************************************)
(* What was live when a user caught up is not unread again before the next *)
(* read request (has_unread and resolve_..._last_read_message_id).         *)
(***************************************************************************)
THEOREM StaysRead == ThreadSpec => []CaughtUp
<1>1. ThreadInit => ReadSupport
  BY DEF ThreadInit, Init, ReadSupport
<1>2. LogInv /\ ReadSupport /\ [ThreadNext]_allVars => ReadSupport'
  BY ReadNext
<1>3. LogInv /\ ReadSupport => CaughtUp
  BY DEF ReadSupport, CaughtUp, Unread
<1> QED
  BY <1>1, <1>2, <1>3, LogInvariance, PTL DEF ThreadSpec

-----------------------------------------------------------------------------
(***************************************************************************)
(* Pages.                                                                  *)
(***************************************************************************)

\* (created_at, id) orders the messages.
LEMMA Order ==
    ASSUME ThreadTypeOK
    PROVE  /\ \A m, n, k \in Ids : Newer(m, n) /\ Newer(n, k) => Newer(m, k)
           /\ \A m, n \in Ids : ~(Newer(m, n) /\ Newer(n, m))
           /\ \A m, n \in Ids : m = n \/ Newer(m, n) \/ Newer(n, m)
<1>1. \A m \in Ids : created_at[m] \in Int /\ m \in Int
  BY DEF ThreadTypeOK, TypeOK
<1> QED
  BY <1>1 DEF Newer

\* Steps that only move a walk between its queries, or leave it alone.
LEMMA WalkKeep ==
    ASSUME LogInv, WalkSupport, RowsStay, UNCHANGED <<cursor, listed, base>>,
           \A u \in Readers : page'[u] = "done" <=> page[u] = "done"
    PROVE  WalkSupport'
<1> USE DEF LogInv
<1>0. /\ cursor \in [Readers -> Ids \cup {NoMessage}] /\ listed \in [Readers -> Seq(Ids)]
      /\ base \in [Readers -> SUBSET Ids]
  BY DEF ThreadTypeOK, TypeOK
<1> SUFFICES ASSUME NEW u \in Readers, WalkOf(u) PROVE WalkOf(u)'
  BY DEF WalkSupport
<1>1. \A i \in DOMAIN listed[u] : listed[u][i] \in Ids /\ Used(listed[u][i])
  BY <1>0 DEF WalkOf
<1>2. ASSUME NEW i \in DOMAIN listed[u], NEW j \in DOMAIN listed[u], i < j
      PROVE  Newer(listed[u][i], listed[u][j])'
  <2>1. Newer(listed[u][i], listed[u][j])
    BY <1>2 DEF WalkOf
  <2> QED
    BY <1>1, <2>1 DEF RowsStay, Newer
<1>3. \A i \in DOMAIN listed[u] : Used(listed[u][i])'
  BY <1>1 DEF RowsStay, Used
<1>4. \A m \in base[u] : m \in Ids /\ Used(m) /\ status[m] # "inserting"
  BY <1>0 DEF WalkOf
<1>5. \A m \in base[u] : author_id'[m] # NoUser /\ status'[m] # "inserting"
  BY <1>4 DEF RowsStay, Used
<1>6. \A m \in base[u] : status'[m] = "live" => m \in Live
  BY <1>4 DEF RowsStay, Live
<1>7. ASSUME cursor[u] # NoMessage
      PROVE  /\ listed[u] # <<>> /\ cursor[u] = listed[u][Len(listed[u])]
             /\ kind' # "GONE" => status'[cursor[u]] \in {"live", "deleted"}
             /\ \A m \in base[u] : status'[m] = "live" => m \in ToSet(listed[u]) \/ Newer(cursor[u], m)'
  <2>1. PICK c \in Ids : c = cursor[u]
    BY <1>0, <1>7
  <2>2. listed[u] # <<>> /\ c = listed[u][Len(listed[u])]
    BY <1>7, <2>1 DEF WalkOf
  <2>3. Used(c)
    <3>1. Len(listed[u]) \in DOMAIN listed[u]
      BY <1>0, <2>2
    <3> QED
      BY <1>1, <2>2, <3>1
  <2>4. kind' # "GONE" => status'[c] \in {"live", "deleted"}
    BY <1>7, <2>1 DEF WalkOf, RowsStay
  <2>5. ASSUME NEW m \in base[u], status'[m] = "live"
        PROVE  m \in ToSet(listed[u]) \/ Newer(c, m)'
    <3>1. m \in ToSet(listed[u]) \/ m \in Below(u)
      BY <1>6, <1>7, <2>5 DEF WalkOf
    <3>2. CASE m \in Below(u)
      BY <1>4, <2>1, <2>3, <3>2, PlaceStays DEF Below
    <3> QED
      BY <3>1, <3>2
  <2> QED
    BY <2>1, <2>2, <2>4, <2>5 DEF Newer
<1>8. /\ page[u] = "done" => cursor[u] = NoMessage
      /\ page[u] = "done" => base[u] \cap Live \subseteq ToSet(listed[u])
      /\ page[u] # "done" /\ cursor[u] = NoMessage => listed[u] = <<>>
  BY DEF WalkOf
<1>9. listed' = listed /\ cursor' = cursor /\ base' = base /\ (page'[u] = "done" <=> page[u] = "done")
  OBVIOUS
<1>10. page'[u] = "done" => base'[u] \cap Live' \subseteq ToSet(listed'[u])
  BY <1>6, <1>8, <1>9 DEF Live
<1>11. cursor'[u] # NoMessage => base'[u] \cap Live' \subseteq ToSet(listed'[u]) \cup Below(u)'
  BY <1>4, <1>7, <1>9 DEF Live, Below, Newer
<1>12. /\ \A i \in DOMAIN listed'[u] : Used(listed[u][i])'
       /\ \A i, j \in DOMAIN listed'[u] : i < j => Newer(listed[u][i], listed[u][j])'
       /\ \A m \in base'[u] : Used(m)' /\ status'[m] # "inserting"
  BY <1>2, <1>3, <1>5, <1>9 DEF Used
<1>13. cursor'[u] # NoMessage =>
           /\ listed'[u] # <<>> /\ cursor'[u] = listed'[u][Len(listed'[u])]
           /\ kind' # "GONE" => status'[cursor'[u]] \in {"live", "deleted"}
  BY <1>7, <1>9
<1> QED
  BY <1>8, <1>9, <1>10, <1>11, <1>12, <1>13 DEF WalkOf

\* A page goes on below all that its walk has listed, and with the rows that
\* were left for it it lists the rest of the base.
LEMMA PageGoesOn ==
    ASSUME LogInv, NEW u \in Readers, WalkOf(u), page[u] = "select",
           NEW all \in Seq(Ids), {all[i] : i \in 1 .. Len(all)} = Selected(u),
           base' = [base EXCEPT ![u] = IF cursor[u] = NoMessage THEN Live ELSE @]
    PROVE  /\ base'[u] \cap Live \subseteq ToSet(listed[u]) \cup {all[i] : i \in 1 .. Len(all)}
           /\ base'[u] \subseteq Live \cup base[u]
           /\ \A i \in 1 .. Len(listed[u]), j \in 1 .. Len(all) : Newer(listed[u][i], all[j])
<1> USE DEF LogInv
<1>0. /\ cursor \in [Readers -> Ids \cup {NoMessage}] /\ listed \in [Readers -> Seq(Ids)]
      /\ base \in [Readers -> SUBSET Ids]
  BY DEF ThreadTypeOK, TypeOK
<1>1. CASE cursor[u] = NoMessage
  <2>1. base'[u] = Live /\ Selected(u) = Live /\ listed[u] = <<>>
    BY <1>0, <1>1 DEF WalkOf, Selected
  <2>2. Len(listed[u]) = 0
    BY <2>1
  <2> QED
    BY <2>1, <2>2
<1>2. CASE cursor[u] # NoMessage
  <2>1. PICK c \in Ids : c = cursor[u]
    BY <1>0, <1>2
  <2>2. base'[u] = base[u] /\ Selected(u) = Live \cap Below(u)
    BY <1>0, <1>2 DEF Selected, Below, Live
  <2>3. /\ base[u] \cap Live \subseteq ToSet(listed[u]) \cup Below(u)
        /\ listed[u] # <<>> /\ c = listed[u][Len(listed[u])]
    BY <1>2, <2>1 DEF WalkOf
  <2>4. base'[u] \cap Live \subseteq ToSet(listed[u]) \cup {all[i] : i \in 1 .. Len(all)}
    BY <2>2, <2>3
  <2>5. ASSUME NEW i \in 1 .. Len(listed[u]), NEW j \in 1 .. Len(all)
        PROVE  Newer(listed[u][i], all[j])
    <3>0. all[j] \in Ids /\ listed[u] \in Seq(Ids)
      BY <1>0
    <3>1. PICK k \in Ids : k = all[j]
      BY <3>0
    <3>2. PICK l \in Ids : l = listed[u][i]
      <4>1. listed[u][i] \in Ids
        BY <3>0
      <4> QED
        BY <4>1
    <3>3. k \in Selected(u)
      BY <3>1
    <3>4. Newer(c, k)
      BY <2>1, <2>2, <3>3 DEF Below
    <3>5. l = c \/ Newer(l, c)
      <4>1. CASE i = Len(listed[u])
        BY <2>3, <3>2, <4>1
      <4>2. CASE i # Len(listed[u])
        <5>1. i < Len(listed[u]) /\ DOMAIN listed[u] = 1 .. Len(listed[u]) /\ Len(listed[u]) \in Nat
          BY <1>0, <4>2
        <5>2. Len(listed[u]) \in DOMAIN listed[u]
          BY <5>1
        <5> QED
          BY <2>3, <3>2, <5>1, <5>2 DEF WalkOf
      <4> QED
        BY <4>1, <4>2
    <3>6. Newer(l, k)
      BY <3>4, <3>5, Order
    <3> QED
      BY <3>1, <3>2, <3>6
  <2> QED
    BY <2>2, <2>4, <2>5
<1> QED
  BY <1>1, <1>2

\* A page appended to the list.
LEMMA Append2 ==
    ASSUME NEW L \in Seq(Ids), NEW all \in Seq(Ids), NEW n \in 0 .. Len(all)
    PROVE  /\ L \o Prefix(all, n) \in Seq(Ids)
           /\ Len(L) \in Nat /\ Len(L \o Prefix(all, n)) = Len(L) + n
           /\ DOMAIN (L \o Prefix(all, n)) = 1 .. Len(L) + n
           /\ \A i \in 1 .. Len(L) : (L \o Prefix(all, n))[i] = L[i]
           /\ \A i \in 1 .. n : (L \o Prefix(all, n))[Len(L) + i] = all[i]
<1>1. Prefix(all, n) \in Seq(Ids) /\ Len(Prefix(all, n)) = n
  BY DEF Prefix
<1>2. \A i \in 1 .. n : Prefix(all, n)[i] = all[i]
  BY DEF Prefix
<1> HIDE DEF Prefix
<1> QED
  BY <1>1, <1>2

\* The page of its reader.
LEMMA WalkPage ==
    ASSUME LogInv, NEW u \in Readers, WalkOf(u), page[u] = "select",
           NEW all \in Seq(Ids), NEW n \in Nat, Page(u, all, n), UNCHANGED <<rowVars, kind>>
    PROVE  WalkOf(u)'
<1> USE DEF LogInv
<1>0. /\ cursor \in [Readers -> Ids \cup {NoMessage}] /\ listed \in [Readers -> Seq(Ids)]
      /\ base \in [Readers -> SUBSET Ids] /\ page \in [Readers -> {"anchor", "select", "done"}]
  BY DEF ThreadTypeOK, TypeOK
<1> DEFINE L == listed[u]
           R == L \o Prefix(all, n)
           S == {all[i] : i \in 1 .. Len(all)}
<1>1. /\ n \in 0 .. Len(all) /\ S = Selected(u) /\ listed'[u] = R
      /\ \A i, j \in 1 .. Len(all) : i < j => Newer(all[i], all[j])
      /\ base' = [base EXCEPT ![u] = IF cursor[u] = NoMessage THEN Live ELSE @]
  BY <1>0 DEF Page
<1>2. /\ base'[u] \cap Live \subseteq ToSet(L) \cup S
      /\ base'[u] \subseteq Live \cup base[u]
      /\ \A i \in 1 .. Len(L), j \in 1 .. Len(all) : Newer(L[i], all[j])
  BY <1>1, PageGoesOn
<1>3. L \in Seq(Ids)
  BY <1>0
<1>4. /\ R \in Seq(Ids) /\ Len(L) \in Nat /\ Len(R) = Len(L) + n /\ DOMAIN R = 1 .. Len(L) + n
      /\ \A i \in 1 .. Len(L) : R[i] = L[i]
      /\ \A i \in 1 .. n : R[Len(L) + i] = all[i]
  <2>1. n \in 0 .. Len(all)
    BY <1>1
  <2> HIDE DEF L, S
  <2> QED
    BY <1>3, <2>1, Append2
<1>5. /\ \A i \in 1 .. Len(L) : Used(L[i])
      /\ \A i, j \in 1 .. Len(L) : i < j => Newer(L[i], L[j])
      /\ \A m \in base[u] : Used(m) /\ status[m] # "inserting"
  BY <1>3 DEF WalkOf
<1>6. \A i \in 1 .. Len(all) : all[i] \in Ids /\ all[i] \in Live /\ Used(all[i])
  BY <1>1 DEF Selected, Live, RowSupport
<1>7. /\ \A m \in Ids : Used(m)' <=> Used(m)
      /\ \A m, k \in Ids : Newer(m, k)' <=> Newer(m, k)
      /\ Live' = Live /\ status' = status /\ kind' = kind
      /\ created_at' = created_at /\ author_id' = author_id
  BY DEF rowVars, Used, Newer, Live
<1> HIDE DEF L, R, S
<1>8. ASSUME NEW i \in 1 .. Len(L) + n PROVE R[i] \in Ids /\ Used(R[i])
  <2>1. CASE i \in 1 .. Len(L)
    BY <1>3, <1>4, <1>5, <2>1
  <2>2. CASE i \notin 1 .. Len(L)
    <3>1. PICK k \in 1 .. n : i = Len(L) + k
      <4>1. i - Len(L) \in 1 .. n /\ i = Len(L) + (i - Len(L))
        BY <1>4, <2>2
      <4> QED
        BY <4>1
    <3>2. k \in 1 .. Len(all) /\ R[i] = all[k]
      BY <1>1, <1>4, <3>1
    <3> QED
      BY <1>6, <3>2
  <2> QED
    BY <2>1, <2>2
<1>9. ASSUME NEW i \in 1 .. Len(L) + n, NEW j \in 1 .. Len(L) + n, i < j
      PROVE  Newer(R[i], R[j])
  <2>1. CASE j \in 1 .. Len(L)
    <3>1. i \in 1 .. Len(L)
      BY <1>4, <1>9, <2>1
    <3> QED
      BY <1>4, <1>5, <1>9, <2>1, <3>1
  <2>2. CASE j \notin 1 .. Len(L)
    <3>1. PICK k \in 1 .. n : j = Len(L) + k
      <4>1. j - Len(L) \in 1 .. n /\ j = Len(L) + (j - Len(L))
        BY <1>4, <2>2
      <4> QED
        BY <4>1
    <3>2. R[j] = all[k] /\ k \in 1 .. Len(all)
      BY <1>1, <1>4, <3>1
    <3>3. CASE i \in 1 .. Len(L)
      BY <1>2, <1>4, <3>2, <3>3
    <3>4. CASE i \notin 1 .. Len(L)
      <4>1. PICK h \in 1 .. n : i = Len(L) + h
        <5>1. i - Len(L) \in 1 .. n /\ i = Len(L) + (i - Len(L))
          BY <1>4, <3>4
        <5> QED
          BY <5>1
      <4>2. h < k
        BY <1>4, <1>9, <3>1, <4>1
      <4>3. h \in 1 .. Len(all) /\ R[i] = all[h]
        BY <1>1, <1>4, <4>1
      <4> QED
        BY <1>1, <3>2, <4>2, <4>3
    <3> QED
      BY <3>3, <3>4
  <2> QED
    BY <2>1, <2>2
<1>10. ToSet(L) \cup {all[i] : i \in 1 .. n} \subseteq ToSet(R)
  <2>1. \A i \in 1 .. Len(L) : L[i] \in ToSet(R)
    <3> TAKE i \in 1 .. Len(L)
    <3>1. i \in DOMAIN R /\ R[i] = L[i]
      BY <1>1, <1>4
    <3> QED
      BY <3>1 DEF ToSet
  <2>2. \A i \in 1 .. n : all[i] \in ToSet(R)
    <3> TAKE i \in 1 .. n
    <3>1. Len(L) + i \in DOMAIN R
      BY <1>1, <1>4
    <3> QED
      BY <1>4, <3>1 DEF ToSet
  <2> QED
    BY <1>3, <2>1, <2>2 DEF ToSet
<1>11. \A m \in base'[u] : Used(m)' /\ status'[m] # "inserting"
  <2>1. \A m \in base'[u] : m \in Ids /\ Used(m) /\ status[m] # "inserting"
    BY <1>0, <1>2, <1>5 DEF Live, RowSupport
  <2> QED
    BY <1>7, <2>1
<1>12. /\ \A i \in DOMAIN listed'[u] : Used(listed[u][i])'
       /\ \A i, j \in DOMAIN listed'[u] : i < j => Newer(listed[u][i], listed[u][j])'
  BY <1>1, <1>4, <1>7, <1>8, <1>9 DEF Used, Newer
<1>13. CASE n = Len(all) /\ Progress(u, "done", NoMessage)
  <2>1. page'[u] = "done" /\ cursor'[u] = NoMessage
    BY <1>0, <1>13 DEF Progress
  <2>2. base'[u] \cap Live' \subseteq ToSet(listed'[u])
    BY <1>1, <1>2, <1>7, <1>10, <1>13 DEF S
  <2> QED
    BY <1>11, <1>12, <2>1, <2>2 DEF WalkOf
<1>14. CASE n \in 1 .. Len(all) - 1 /\ Progress(u, "anchor", all[n])
  <2>1. PICK c \in Ids : c = all[n]
    <3>1. n \in 1 .. Len(all)
      BY <1>14
    <3> QED
      BY <1>6, <3>1
  <2>2. page'[u] = "anchor" /\ cursor'[u] = c
    BY <1>0, <1>14, <2>1 DEF Progress
  <2>3. R # <<>> /\ c = R[Len(R)]
    BY <1>4, <1>14, <2>1
  <2>4. status'[c] = "live"
    BY <1>6, <1>7, <1>14, <2>1 DEF Live
  <2>5. S \subseteq {all[i] : i \in 1 .. n} \cup {m \in Ids : Newer(c, m)'}
    <3> SUFFICES ASSUME NEW i \in 1 .. Len(all), i > n PROVE Newer(c, all[i])'
      BY <1>6, <1>14 DEF S
    <3>1. Newer(c, all[i])
      BY <1>1, <1>14, <2>1
    <3> QED
      BY <1>7, <3>1 DEF Newer
  <2>6. {m \in Ids : Newer(c, m)'} = Below(u)'
    BY <2>2 DEF Below, Newer
  <2>7. base'[u] \cap Live' \subseteq ToSet(listed'[u]) \cup Below(u)'
    BY <1>1, <1>2, <1>7, <1>10, <2>5, <2>6
  <2>8. c # NoMessage
    BY <2>1
  <2> QED
    BY <1>1, <1>11, <1>12, <2>2, <2>3, <2>4, <2>7, <2>8 DEF WalkOf
<1> QED
  BY <1>13, <1>14 DEF Page

LEMMA WalkNext == LogInv /\ WalkSupport /\ [ThreadNext]_allVars => WalkSupport'
<1> SUFFICES ASSUME LogInv, WalkSupport, [ThreadNext]_allVars PROVE WalkSupport'
  OBVIOUS
<1>0. ThreadTypeOK
  BY DEF LogInv
<1>1. RowsStay
  BY RowsStayStep
<1>2. ASSUME UNCHANGED walkVars PROVE WalkSupport'
  BY <1>1, <1>2, WalkKeep DEF walkVars
<1>3. ASSUME NEW r \in Requests, Begins(r) PROVE WalkSupport'
  BY <1>2, <1>3 DEF Begins, CreateMessage, FindMessage, MarkChannelRead
<1>4. ASSUME NEW r \in Requests, Writing(r) PROVE WalkSupport'
  BY <1>2, <1>4 DEF Writing, Insert, Inserted, UpdateMessageContent, SoftDeleteMessage,
                    PublishMessage, PublishDelete, Drop
<1>5. ASSUME NEW r \in Requests, Answering(r) PROVE WalkSupport'
  BY <1>2, <1>5 DEF Answering, CheckAuthor, ResolveLatest, ResolveRequested, UpsertRead,
                    InsertRefused, UpsertRefused
<1>6. ASSUME NEW u \in Readers, FindAnchor(u) PROVE WalkSupport'
  <2>1. UNCHANGED <<cursor, listed, base>> /\ \A v \in Readers : page'[v] = "done" <=> page[v] = "done"
    BY <1>0, <1>6 DEF FindAnchor, ThreadTypeOK, TypeOK
  <2> QED
    BY <1>1, <2>1, WalkKeep
<1>7. ASSUME NEW u \in Readers, NEW l \in LimitArgs, ListMessages(u, l), UNCHANGED kind
      PROVE  WalkSupport'
  <2>1. PICK all \in Seq(Ids), n \in Nat : Page(u, all, n)
    BY <1>0, <1>7, PageShape
  <2>2. page[u] = "select" /\ UNCHANGED rowVars
    BY <1>7 DEF ListMessages
  <2>3. WalkOf(u)'
    BY <1>7, <2>1, <2>2, WalkPage DEF WalkSupport
  <2>4. ASSUME NEW v \in Readers, v # u PROVE WalkOf(v)'
    <3>1. /\ page'[v] = page[v] /\ cursor'[v] = cursor[v]
          /\ listed'[v] = listed[v] /\ base'[v] = base[v]
      BY <1>0, <2>1, <2>4 DEF Page, Progress, ThreadTypeOK, TypeOK
    <3>2. UNCHANGED <<status, created_at, author_id, kind>>
      BY <1>7, <2>2 DEF rowVars
    <3>3. WalkOf(v)
      BY DEF WalkSupport
    <3> QED
      BY <3>1, <3>2, <3>3 DEF WalkOf, Used, Newer, Live, Below
  <2> QED
    BY <2>3, <2>4 DEF WalkSupport
<1>8. ASSUME Watching, UNCHANGED kind PROVE WalkSupport'
  BY <1>2, <1>6, <1>7, <1>8 DEF Watching, CheckSubscribe, Subscribe, LoseAccess, RegainAccess, Tick
<1>9. ASSUME NEW u \in Users, RejectThread(u) \/ AcceptThread(u) PROVE WalkSupport'
  BY <1>2, <1>9 DEF RejectThread, AcceptThread, vars
<1>10. CASE UNCHANGED allVars
  BY <1>2, <1>10 DEF allVars, vars
<1> QED
  BY <1>0, <1>3, <1>4, <1>5, <1>8, <1>9, <1>10, Steps DEF CommonStep, threadVars

\* The support of the walks, along every behavior.
THEOREM WalkInvariance == ThreadSpec => []WalkSupport
<1>1. ThreadInit => WalkSupport
  BY DEF ThreadInit, Init, WalkSupport, WalkOf
<1>2. LogInv /\ WalkSupport /\ [ThreadNext]_allVars => WalkSupport'
  BY WalkNext
<1> QED
  BY <1>1, <1>2, LogInvariance, PTL DEF ThreadSpec

\* What holds of a walk even when the thread it is in is rejected: all of
\* StableWalk but that the cursor is accepted.
SoundWalk ==
    \A u \in Readers :
        /\ \A i, j \in DOMAIN listed[u] : i < j => Newer(listed[u][i], listed[u][j])
        /\ page[u] = "done" => base[u] \cap Live \subseteq ToSet(listed[u])

(***************************************************************************)
(* "Stable cursor pagination": walks never repeat or miss a message that   *)
(* was there throughout, and a cursor stays one (list_messages,            *)
(* find_anchor) as long as the thread itself is there.                     *)
(***************************************************************************)
THEOREM WalksAreStable == ThreadSpec => [](kind # "GONE" => StableWalk)
<1>1. LogInv /\ WalkSupport => (kind # "GONE" => StableWalk)
  <2> SUFFICES ASSUME LogInv, WalkSupport, kind # "GONE", NEW u \in Readers
               PROVE  /\ cursor[u] # NoMessage => Anchor(cursor[u]) # {}
                      /\ \A i, j \in DOMAIN listed[u] : i < j => Newer(listed[u][i], listed[u][j])
                      /\ page[u] = "done" => base[u] \cap Live \subseteq ToSet(listed[u])
    BY DEF StableWalk
  <2>1. WalkOf(u)
    BY DEF WalkSupport
  <2>2. ASSUME cursor[u] # NoMessage PROVE Anchor(cursor[u]) # {}
    <3>1. cursor[u] \in Ids /\ status[cursor[u]] \in {"live", "deleted"}
      BY <2>1, <2>2 DEF WalkOf, LogInv, ThreadTypeOK, TypeOK
    <3> QED
      BY <3>1 DEF Anchor
  <2> QED
    BY <2>1, <2>2 DEF WalkOf
<1> QED
  BY <1>1, LogInvariance, WalkInvariance, PTL

(***************************************************************************)
(* A thread that is rejected between two pages only refuses the cursor:    *)
(* what was listed stays in descending order without repetition, and no    *)
(* walk that ended missed a message (list_thread_messages).                *)
(***************************************************************************)
THEOREM NothingRepeated == ThreadSpec => []SoundWalk
<1>1. WalkSupport => SoundWalk
  BY DEF WalkSupport, WalkOf, SoundWalk
<1> QED
  BY <1>1, WalkInvariance, PTL

-----------------------------------------------------------------------------
(***************************************************************************)
(* What followers show.                                                    *)
(***************************************************************************)

\* Only request r moves.
Alone(r) ==
    \A q \in Requests \ {r} :
        pc'[q] = pc[q] /\ who'[q] = who[q] /\ msg'[q] = msg[q] /\ text'[q] = text[q]

LEMMA OneRequest ==
    ASSUME ThreadTypeOK, NEW r \in Requests,
           \/ \E u \in Users, m \in Ids \cup {NoMessage}, c \in Contents \cup {NoContent}, label \in PCs :
                  Begin(r, u, label, m, c)
           \/ \E label \in PCs : Goto(r, label)
           \/ Return(r)
    PROVE  Alone(r)
  BY DEF ThreadTypeOK, TypeOK, Alone, Begin, Goto, Return

\* A request that does not come to write a message is in nobody's way.
LEMMA SoleStays ==
    ASSUME SoleWriter, NEW r \in Requests, Alone(r), raced \subseteq raced', UNCHANGED author_id,
           \A m \in Ids : Writes(r, m)' => Writes(r, m) /\ who'[r] = who[r]
    PROVE  SoleWriter'
<1> SUFFICES ASSUME NEW m \in Ids \ raced', NEW p \in Requests, NEW q \in Requests,
                    Writes(p, m)', who'[p] = author_id[m], Writes(q, m)', who'[q] = author_id[m]
             PROVE  p = q
  BY DEF SoleWriter
<1>1. \A h \in Requests : Writes(h, m)' => Writes(h, m) /\ who'[h] = who[h]
  BY DEF Alone, Writes
<1> QED
  BY <1>1 DEF SoleWriter

\* A request that has nothing to tell, or is dropped, goes on.
LEMMA ViewRequest ==
    ASSUME LogInv, ViewInv, NEW r \in Requests, Alone(r), raced \subseteq raced',
           UNCHANGED <<created_at, author_id, page, cursor, subs, shown>>,
           \A m \in Ids \ raced' : status'[m] = status[m] /\ content'[m] = content[m],
           pc'[r] \notin {"inserting", "created", "updated", "erased"},
           pc[r] \in {"created", "updated", "erased"} => msg[r] \in raced',
           SoleWriter'
    PROVE  ViewInv'
<1> USE DEF ViewInv
<1>1. AckSupport'
  BY DEF AckSupport
<1>2. TellsStored'
  <2> SUFFICES ASSUME NEW q \in Requests, msg'[q] \in Ids \ raced',
                      pc'[q] \in {"inserting", "created", "updated", "erased"}
               PROVE  /\ pc'[q] = "inserting" => content'[msg'[q]] = text'[q]
                      /\ pc'[q] \in {"created", "updated"} =>
                             status'[msg'[q]] = "live" /\ content'[msg'[q]] = text'[q]
                      /\ pc'[q] = "erased" => status'[msg'[q]] = "deleted"
    BY DEF TellsStored
  <2>1. q # r
    OBVIOUS
  <2>2. pc'[q] = pc[q] /\ msg'[q] = msg[q] /\ text'[q] = text[q]
    BY <2>1 DEF Alone
  <2>3. PICK m \in Ids \ raced' : m = msg[q]
    BY <2>2
  <2>4. /\ pc[q] = "inserting" => content[m] = text[q]
        /\ pc[q] \in {"created", "updated"} => status[m] = "live" /\ content[m] = text[q]
        /\ pc[q] = "erased" => status[m] = "deleted"
    BY <2>3 DEF TellsStored
  <2> QED
    BY <2>2, <2>3, <2>4
<1>3. ASSUME NEW q \in Requests, msg[q] \in Ids \ raced', pc[q] \in {"created", "updated", "erased"}
      PROVE  msg'[q] = msg[q] /\ pc'[q] = pc[q]
  BY <1>3 DEF Alone
<1>4. ShownIsStored'
  <2> SUFFICES ASSUME NEW u \in Followers, NEW m \in Ids \ raced'
               PROVE  \/ shown[u][m] = NoContent
                      \/ \E q \in Requests : msg'[q] = m /\ pc'[q] \in {"updated", "erased"}
                      \/ status'[m] = "live" /\ shown[u][m] = content'[m]
                      \/ status'[m] = "deleted" /\ shown[u][m] = "gone"
    BY DEF ShownIsStored
  <2>1. ASSUME NEW q \in Requests, msg[q] = m, pc[q] \in {"updated", "erased"}
        PROVE  msg'[q] = m /\ pc'[q] \in {"updated", "erased"}
    BY <1>3, <2>1
  <2> QED
    BY <2>1 DEF ShownIsStored
<1>5. LiveIsShown'
  <2> SUFFICES ASSUME NEW u \in Followers, NEW m \in Ids \ raced', status'[m] = "live"
               PROVE  \/ shown[u][m] # NoContent
                      \/ \E q \in Requests : msg'[q] = m /\ pc'[q] = "created"
                      \/ page[u] # "done" /\ (cursor[u] = NoMessage \/ m \in Below(u)')
    BY DEF LiveIsShown, Live
  <2>1. ASSUME NEW q \in Requests, msg[q] = m, pc[q] = "created"
        PROVE  msg'[q] = m /\ pc'[q] = "created"
    BY <1>3, <2>1
  <2>2. m \in Live \ raced
    BY DEF Live
  <2>3. m \in Below(u) => m \in Below(u)'
    BY DEF Below, Newer
  <2> QED
    BY <2>1, <2>2, <2>3 DEF LiveIsShown
<1> QED
  BY <1>1, <1>2, <1>4, <1>5

\* A request writes the row of its message and has that to tell.
LEMMA ViewWrite ==
    ASSUME LogInv, ViewInv, NEW r \in Requests, NEW m \in Ids, m = msg[r],
           pc[r] \in {"inserting", "update", "erase"},
           NEW label \in {"created", "updated", "erased"}, Goto(r, label),
           UNCHANGED <<created_at, author_id, page, cursor, subs, shown, raced>>,
           \A n \in Ids \ {m} : status'[n] = status[n] /\ content'[n] = content[n],
           label = "created" => status[m] = "inserting",
           label = "updated" => status[m] = "live",
           label \in {"created", "updated"} =>
               status'[m] = "live" /\ (m \notin raced => content'[m] = text[r]),
           label = "erased" => status'[m] = "deleted"
    PROVE  ViewInv'
<1> USE DEF ViewInv, LogInv
<1>1. Alone(r)
  <2>1. label \in PCs
    BY DEF PCs
  <2> QED
    BY <2>1, OneRequest
<1>2. pc'[r] = label /\ msg'[r] = m /\ text'[r] = text[r] /\ who'[r] = who[r]
  BY DEF Goto, ThreadTypeOK, TypeOK
<1>3. SoleWriter'
  BY <1>1, <1>2, SoleStays DEF Writes
<1>4. AckSupport'
  BY DEF AckSupport
<1>5. ASSUME NEW q \in Requests, q # r, msg[q] = m, m \notin raced,
             pc[q] \in {"inserting", "created", "updated", "erased"}
      PROVE  FALSE
  <2>1. who[q] = author_id[m] /\ who[r] = author_id[m]
    BY <1>5 DEF WriteSupport
  <2>2. Writes(q, m) /\ Writes(r, m)
    BY <1>5 DEF Writes
  <2> QED
    BY <1>5, <2>1, <2>2 DEF SoleWriter
<1>6. TellsStored'
  <2> SUFFICES ASSUME NEW q \in Requests, msg'[q] \in Ids \ raced,
                      pc'[q] \in {"inserting", "created", "updated", "erased"}
               PROVE  /\ pc'[q] = "inserting" => content'[msg'[q]] = text'[q]
                      /\ pc'[q] \in {"created", "updated"} =>
                             status'[msg'[q]] = "live" /\ content'[msg'[q]] = text'[q]
                      /\ pc'[q] = "erased" => status'[msg'[q]] = "deleted"
    BY DEF TellsStored
  <2>1. CASE q = r
    BY <1>2, <2>1
  <2>2. CASE q # r
    <3>1. pc'[q] = pc[q] /\ msg'[q] = msg[q] /\ text'[q] = text[q]
      BY <1>1, <2>2 DEF Alone
    <3>2. PICK n \in Ids \ raced : n = msg[q]
      BY <3>1
    <3>3. n # m
      BY <1>5, <2>2, <3>1, <3>2
    <3>4. /\ pc[q] = "inserting" => content[n] = text[q]
          /\ pc[q] \in {"created", "updated"} => status[n] = "live" /\ content[n] = text[q]
          /\ pc[q] = "erased" => status[n] = "deleted"
      BY <3>2 DEF TellsStored
    <3> QED
      BY <3>1, <3>2, <3>3, <3>4
  <2> QED
    BY <2>1, <2>2
<1>7. ASSUME NEW q \in Requests, pc[q] \in {"created", "updated", "erased"}
      PROVE  msg'[q] = msg[q] /\ pc'[q] = pc[q]
  BY <1>1, <1>7 DEF Alone
<1>8. ShownIsStored'
  <2> SUFFICES ASSUME NEW u \in Followers, NEW n \in Ids \ raced
               PROVE  \/ shown[u][n] = NoContent
                      \/ \E q \in Requests : msg'[q] = n /\ pc'[q] \in {"updated", "erased"}
                      \/ status'[n] = "live" /\ shown[u][n] = content'[n]
                      \/ status'[n] = "deleted" /\ shown[u][n] = "gone"
    BY DEF ShownIsStored
  <2>1. \/ shown[u][n] = NoContent
        \/ \E q \in Requests : msg[q] = n /\ pc[q] \in {"updated", "erased"}
        \/ status[n] = "live" /\ shown[u][n] = content[n]
        \/ status[n] = "deleted" /\ shown[u][n] = "gone"
    BY DEF ShownIsStored
  <2>2. ASSUME NEW q \in Requests, msg[q] = n, pc[q] \in {"updated", "erased"}
        PROVE  msg'[q] = n /\ pc'[q] \in {"updated", "erased"}
    BY <1>7, <2>2
  <2>3. CASE n # m
    BY <2>1, <2>2, <2>3
  <2>4. CASE n = m /\ label = "created"
    BY <2>1, <2>2, <2>4
  <2>5. CASE n = m /\ label # "created"
    BY <1>2, <2>5
  <2> QED
    BY <2>3, <2>4, <2>5
<1>9. LiveIsShown'
  <2> SUFFICES ASSUME NEW u \in Followers, NEW n \in Ids \ raced, status'[n] = "live"
               PROVE  \/ shown[u][n] # NoContent
                      \/ \E q \in Requests : msg'[q] = n /\ pc'[q] = "created"
                      \/ page[u] # "done" /\ (cursor[u] = NoMessage \/ n \in Below(u)')
    BY DEF LiveIsShown, Live
  <2>1. CASE n = m /\ label = "created"
    BY <1>2, <2>1
  <2>2. CASE ~(n = m /\ label = "created")
    <3>1. n \in Live \ raced
      BY <2>2 DEF Live
    <3>2. n \in Below(u) => n \in Below(u)'
      BY DEF Below, Newer
    <3> QED
      BY <1>7, <3>1, <3>2 DEF LiveIsShown
  <2> QED
    BY <2>1, <2>2
<1> QED
  BY <1>3, <1>4, <1>6, <1>8, <1>9

\* The INSERT takes an id nobody has heard of.
LEMMA ViewInsert ==
    ASSUME LogInv, WalkSupport, ViewInv, NEW r \in Requests, NEW m \in Ids, Insert(r, m)
    PROVE  ViewInv'
<1> USE DEF ViewInv, LogInv
<1>1. /\ pc[r] = "create" /\ msg[r] = NoMessage /\ status[m] = "none" /\ ~Used(m)
      /\ pc'[r] = "inserting" /\ msg'[r] = m /\ content'[m] = text[r] /\ text' = text
      /\ status'[m] = "inserting"
  BY DEF Insert, Used, RequestSupport, ThreadTypeOK, TypeOK
<1>2. Alone(r)
  BY DEF Insert, Alone, ThreadTypeOK, TypeOK
<1>3. \A n \in Ids \ {m} : /\ status'[n] = status[n] /\ created_at'[n] = created_at[n]
                           /\ author_id'[n] = author_id[n] /\ content'[n] = content[n]
  BY DEF Insert, ThreadTypeOK, TypeOK
<1>4. UNCHANGED <<page, cursor, subs, shown, raced>>
  BY DEF Insert, walkVars, eventVars
<1>5. ASSUME NEW q \in Requests, pc[q] \in PCs \ {"idle", "create", "latest", "read"}
      PROVE  msg[q] # m /\ q # r
  BY <1>1, <1>5 DEF WriteSupport
<1>6. AckSupport'
  BY <1>4 DEF AckSupport
<1>7. SoleWriter'
  <2> SUFFICES ASSUME NEW n \in Ids \ raced, NEW p \in Requests, NEW q \in Requests,
                      Writes(p, n)', who'[p] = author_id'[n], Writes(q, n)', who'[q] = author_id'[n]
               PROVE  p = q
    BY <1>4 DEF SoleWriter
  <2>1. ASSUME NEW h \in Requests, h # r, Writes(h, n)'
        PROVE  Writes(h, n) /\ who'[h] = who[h] /\ n # m
    <3>1. Writes(h, n) /\ who'[h] = who[h]
      BY <1>2, <2>1 DEF Writes, Alone
    <3>2. pc[h] \in PCs \ {"idle", "create", "latest", "read"}
      BY <3>1 DEF Writes, RequestSupport, ThreadTypeOK, TypeOK
    <3> QED
      BY <1>5, <3>1, <3>2 DEF Writes
  <2>2. Writes(r, n)' => n = m
    BY <1>1 DEF Writes
  <2> QED
    BY <1>3, <2>1, <2>2 DEF SoleWriter
<1>8. TellsStored'
  <2> SUFFICES ASSUME NEW q \in Requests, msg'[q] \in Ids \ raced,
                      pc'[q] \in {"inserting", "created", "updated", "erased"}
               PROVE  /\ pc'[q] = "inserting" => content'[msg'[q]] = text'[q]
                      /\ pc'[q] \in {"created", "updated"} =>
                             status'[msg'[q]] = "live" /\ content'[msg'[q]] = text'[q]
                      /\ pc'[q] = "erased" => status'[msg'[q]] = "deleted"
    BY <1>4 DEF TellsStored
  <2>1. CASE q = r
    BY <1>1, <2>1
  <2>2. CASE q # r
    <3>1. pc'[q] = pc[q] /\ msg'[q] = msg[q] /\ text'[q] = text[q]
      BY <1>2, <2>2 DEF Alone
    <3>2. PICK n \in Ids \ raced : n = msg[q]
      BY <3>1
    <3>3. n # m
      BY <1>5, <3>1, <3>2 DEF PCs
    <3>4. /\ pc[q] = "inserting" => content[n] = text[q]
          /\ pc[q] \in {"created", "updated"} => status[n] = "live" /\ content[n] = text[q]
          /\ pc[q] = "erased" => status[n] = "deleted"
      BY <3>2 DEF TellsStored
    <3> QED
      BY <1>3, <3>1, <3>2, <3>3, <3>4
  <2> QED
    BY <2>1, <2>2
<1>9. ASSUME NEW q \in Requests, pc[q] \in {"created", "updated", "erased"}
      PROVE  msg'[q] = msg[q] /\ pc'[q] = pc[q] /\ msg[q] # m
  BY <1>1, <1>2, <1>5, <1>9 DEF Alone, PCs
<1>10. ShownIsStored'
  <2> SUFFICES ASSUME NEW u \in Followers, NEW n \in Ids \ raced
               PROVE  \/ shown[u][n] = NoContent
                      \/ \E q \in Requests : msg'[q] = n /\ pc'[q] \in {"updated", "erased"}
                      \/ status'[n] = "live" /\ shown[u][n] = content'[n]
                      \/ status'[n] = "deleted" /\ shown[u][n] = "gone"
    BY <1>4 DEF ShownIsStored
  <2>1. \/ shown[u][n] = NoContent
        \/ \E q \in Requests : msg[q] = n /\ pc[q] \in {"updated", "erased"}
        \/ status[n] = "live" /\ shown[u][n] = content[n]
        \/ status[n] = "deleted" /\ shown[u][n] = "gone"
    BY DEF ShownIsStored
  <2>2. CASE n # m
    BY <1>3, <1>9, <2>1, <2>2
  <2>3. CASE n = m
    BY <1>1, <1>9, <2>1, <2>3
  <2> QED
    BY <2>2, <2>3
<1>11. LiveIsShown'
  <2> SUFFICES ASSUME NEW u \in Followers, NEW n \in Ids \ raced, status'[n] = "live"
               PROVE  \/ shown[u][n] # NoContent
                      \/ \E q \in Requests : msg'[q] = n /\ pc'[q] = "created"
                      \/ page[u] # "done" /\ (cursor[u] = NoMessage \/ n \in Below(u)')
    BY <1>4 DEF LiveIsShown, Live
  <2>1. n # m /\ n \in Live \ raced
    BY <1>1, <1>3 DEF Live
  <2>2. ASSUME n \in Below(u), cursor[u] # NoMessage PROVE n \in Below(u)'
    <3>1. WalkOf(u) /\ u \in Readers
      BY DEF WalkSupport
    <3>2. listed[u] \in Seq(Ids) /\ listed[u] # <<>> /\ cursor[u] = listed[u][Len(listed[u])]
      BY <2>2, <3>1 DEF WalkOf, ThreadTypeOK, TypeOK
    <3>3. Len(listed[u]) \in DOMAIN listed[u] /\ cursor[u] \in Ids
      BY <3>2
    <3>4. Used(cursor[u])
      BY <3>1, <3>2, <3>3 DEF WalkOf
    <3>5. cursor[u] # m
      BY <1>1, <3>4
    <3> QED
      BY <1>3, <1>4, <2>1, <2>2, <3>3, <3>5 DEF Below, Newer
  <2> QED
    BY <1>9, <2>1, <2>2 DEF LiveIsShown
<1> QED
  BY <1>6, <1>7, <1>8, <1>10, <1>11

\* A request tells the followers what it has written.
LEMMA ViewTell ==
    ASSUME LogInv, ViewInv, NEW r \in Requests, NEW m \in Ids, m = msg[r],
           pc[r] \in {"created", "updated", "erased"}, NEW what, Apply(m, what), Return(r),
           pc[r] \in {"created", "updated"} => what = text[r],
           pc[r] = "erased" => what = "gone",
           UNCHANGED <<rowVars, page, cursor, subs, raced>>
    PROVE  ViewInv'
<1> USE DEF ViewInv, LogInv
<1>1. Alone(r) /\ pc'[r] = "idle" /\ msg'[r] = NoMessage
  BY OneRequest DEF Return, ThreadTypeOK, TypeOK
<1>2. UNCHANGED <<status, created_at, author_id, content>>
  BY DEF rowVars
<1>3. ASSUME NEW u \in Followers, subs[u] = "acked", NEW n \in Ids
      PROVE  (n = m => shown'[u][n] = what) /\ (n # m => shown'[u][n] = shown[u][n])
  BY <1>3 DEF Apply, ThreadTypeOK, TypeOK
<1>4. ASSUME NEW u \in Followers, subs[u] # "acked"
      PROVE  shown'[u] = shown[u] /\ page[u] = "anchor" /\ cursor[u] = NoMessage
             /\ \A n \in Ids : shown[u][n] = NoContent
  BY <1>4 DEF Apply, AckSupport
<1>5. AckSupport'
  BY <1>4 DEF AckSupport
<1>6. SoleWriter'
  BY <1>1, <1>2, SoleStays DEF Writes
<1>7. TellsStored'
  <2> SUFFICES ASSUME NEW q \in Requests, msg'[q] \in Ids \ raced,
                      pc'[q] \in {"inserting", "created", "updated", "erased"}
               PROVE  /\ pc'[q] = "inserting" => content[msg'[q]] = text'[q]
                      /\ pc'[q] \in {"created", "updated"} =>
                             status[msg'[q]] = "live" /\ content[msg'[q]] = text'[q]
                      /\ pc'[q] = "erased" => status[msg'[q]] = "deleted"
    BY <1>2 DEF TellsStored
  <2>1. q # r
    BY <1>1
  <2> QED
    BY <1>1, <2>1 DEF Alone, TellsStored
<1>8. ASSUME NEW q \in Requests, msg[q] # m, pc[q] \in {"created", "updated", "erased"}
      PROVE  msg'[q] = msg[q] /\ pc'[q] = pc[q]
  BY <1>1, <1>8 DEF Alone
<1>9. ASSUME m \notin raced
      PROVE  /\ pc[r] \in {"created", "updated"} => status[m] = "live" /\ content[m] = what
             /\ pc[r] = "erased" => status[m] = "deleted" /\ what = "gone"
  BY <1>9 DEF TellsStored
<1>10. ShownIsStored'
  <2> SUFFICES ASSUME NEW u \in Followers, NEW n \in Ids \ raced
               PROVE  \/ shown'[u][n] = NoContent
                      \/ \E q \in Requests : msg'[q] = n /\ pc'[q] \in {"updated", "erased"}
                      \/ status[n] = "live" /\ shown'[u][n] = content[n]
                      \/ status[n] = "deleted" /\ shown'[u][n] = "gone"
    BY <1>2 DEF ShownIsStored
  <2>1. CASE subs[u] # "acked"
    BY <1>4, <2>1
  <2>2. CASE subs[u] = "acked" /\ n = m
    BY <1>3, <1>9, <2>2
  <2>3. CASE subs[u] = "acked" /\ n # m
    BY <1>3, <1>8, <2>3 DEF ShownIsStored
  <2> QED
    BY <2>1, <2>2, <2>3
<1>11. LiveIsShown'
  <2> SUFFICES ASSUME NEW u \in Followers, NEW n \in Ids \ raced, status[n] = "live"
               PROVE  \/ shown'[u][n] # NoContent
                      \/ \E q \in Requests : msg'[q] = n /\ pc'[q] = "created"
                      \/ page[u] # "done" /\ (cursor[u] = NoMessage \/ n \in Below(u)')
    BY <1>2 DEF LiveIsShown, Live
  <2>1. CASE subs[u] # "acked"
    BY <1>4, <2>1
  <2>2. CASE subs[u] = "acked" /\ n = m
    <3>1. pc[r] \in {"created", "updated"}
      BY <1>9, <2>2
    <3>2. what \in Contents
      BY <3>1 DEF RequestSupport
    <3> QED
      BY <1>3, <2>2, <3>2
  <2>3. CASE subs[u] = "acked" /\ n # m
    <3>1. n \in Live \ raced
      BY DEF Live
    <3>2. n \in Below(u) => n \in Below(u)'
      BY <1>2 DEF Below, Newer
    <3> QED
      BY <1>3, <1>8, <2>3, <3>1, <3>2 DEF LiveIsShown
  <2> QED
    BY <2>1, <2>2, <2>3
<1> QED
  BY <1>5, <1>6, <1>7, <1>10, <1>11

\* A subscription or a walk goes on, or something else does.
LEMMA ViewWatch ==
    ASSUME LogInv, ViewInv, AckSupport', UNCHANGED <<rowVars, localVars, cursor, shown, raced>>,
           \A u \in Readers : page'[u] = "done" <=> page[u] = "done"
    PROVE  ViewInv'
<1> USE DEF ViewInv, LogInv, rowVars, localVars
<1>1. SoleWriter'
  BY DEF SoleWriter, Writes
<1>2. TellsStored'
  BY DEF TellsStored
<1>3. ShownIsStored'
  BY DEF ShownIsStored
<1>4. LiveIsShown'
  BY DEF LiveIsShown, Live, Below, Newer
<1> QED
  BY <1>1, <1>2, <1>3, <1>4

\* The follower adds its page.
LEMMA ViewPage ==
    ASSUME LogInv, ViewInv, NEW u \in Readers, page[u] = "select",
           NEW all \in Seq(Ids), NEW n \in Nat, Page(u, all, n),
           UNCHANGED <<rowVars, localVars, subs, raced>>
    PROVE  ViewInv'
<1> USE DEF ViewInv, LogInv
<1>1. UNCHANGED <<status, created_at, author_id, content, pc, who, msg, text>>
  BY DEF rowVars, localVars
<1>2. /\ n \in 0 .. Len(all) /\ {all[i] : i \in 1 .. Len(all)} = Selected(u)
      /\ \A i, j \in 1 .. Len(all) : i < j => Newer(all[i], all[j])
      /\ Merge(u, {all[i] : i \in 1 .. n})
      /\ \/ n = Len(all)
         \/ n \in 1 .. Len(all) - 1 /\ page'[u] = "anchor" /\ cursor'[u] = all[n]
  BY DEF Page, Progress, ThreadTypeOK, TypeOK
<1>3. \A v \in Readers \ {u} : page'[v] = page[v] /\ cursor'[v] = cursor[v]
  BY DEF Page, Progress, ThreadTypeOK, TypeOK
<1>4. \A v \in Followers \ {u} : shown'[v] = shown[v]
  BY <1>2 DEF Merge
<1>5. ASSUME u \in Followers, NEW m \in Ids
      PROVE  /\ shown[u][m] # NoContent => shown'[u][m] = shown[u][m]
             /\ shown[u][m] = NoContent /\ m \in {all[i] : i \in 1 .. n} => shown'[u][m] = content[m]
             /\ shown[u][m] = NoContent /\ m \notin {all[i] : i \in 1 .. n} =>
                    shown'[u][m] = NoContent
  <2> DEFINE body == {all[i] : i \in 1 .. n}
  <2>1. shown'[u][m] = IF shown[u][m] = NoContent /\ m \in body THEN content[m] ELSE shown[u][m]
    <3> HIDE DEF body
    <3>1. Merge(u, body)
      BY <1>2 DEF body
    <3> QED
      BY <1>5, <3>1 DEF Merge
  <2> HIDE DEF body
  <2>2. /\ shown[u][m] # NoContent => shown'[u][m] = shown[u][m]
        /\ shown[u][m] = NoContent /\ m \in body => shown'[u][m] = content[m]
        /\ shown[u][m] = NoContent /\ m \notin body => shown'[u][m] = NoContent
    BY <2>1
  <2> QED
    BY <2>2 DEF body
<1>6. \A i \in 1 .. n : all[i] \in Ids /\ status[all[i]] = "live"
  <2>1. \A i \in 1 .. Len(all) : all[i] \in Live
    BY <1>2 DEF Selected
  <2> QED
    BY <1>2, <2>1 DEF Live
<1>7. AckSupport'
  <2>1. u \in Followers => subs[u] = "acked"
    BY DEF AckSupport
  <2>2. \A v \in Followers : v # u => page'[v] = page[v] /\ cursor'[v] = cursor[v] /\ shown'[v] = shown[v]
    BY <1>3, <1>4
  <2> QED
    BY <2>1, <2>2 DEF AckSupport
<1>8. SoleWriter'
  BY <1>1 DEF SoleWriter, Writes
<1>9. TellsStored'
  BY <1>1 DEF TellsStored
<1>10. ShownIsStored'
  <2> SUFFICES ASSUME NEW v \in Followers, NEW m \in Ids \ raced
               PROVE  \/ shown'[v][m] = NoContent
                      \/ \E q \in Requests : msg[q] = m /\ pc[q] \in {"updated", "erased"}
                      \/ status[m] = "live" /\ shown'[v][m] = content[m]
                      \/ status[m] = "deleted" /\ shown'[v][m] = "gone"
    BY <1>1 DEF ShownIsStored
  <2>1. CASE v = u
    BY <1>5, <1>6, <2>1 DEF ShownIsStored
  <2>2. CASE v # u
    <3>1. shown'[v] = shown[v]
      BY <1>4, <2>2
    <3>2. \/ shown[v][m] = NoContent
          \/ \E q \in Requests : msg[q] = m /\ pc[q] \in {"updated", "erased"}
          \/ status[m] = "live" /\ shown[v][m] = content[m]
          \/ status[m] = "deleted" /\ shown[v][m] = "gone"
      BY DEF ShownIsStored
    <3> QED
      BY <3>1, <3>2
  <2> QED
    BY <2>1, <2>2
<1>11. LiveIsShown'
  <2> SUFFICES ASSUME NEW v \in Followers, NEW m \in Ids \ raced, status[m] = "live"
               PROVE  \/ shown'[v][m] # NoContent
                      \/ \E q \in Requests : msg[q] = m /\ pc[q] = "created"
                      \/ page'[v] # "done" /\ (cursor'[v] = NoMessage \/ m \in Below(v)')
    BY <1>1 DEF LiveIsShown, Live
  <2>0. \/ shown[v][m] # NoContent
        \/ \E q \in Requests : msg[q] = m /\ pc[q] = "created"
        \/ page[v] # "done" /\ (cursor[v] = NoMessage \/ m \in Below(v))
    BY DEF LiveIsShown, Live
  <2>1. CASE v # u
    <3>1. page'[v] = page[v] /\ cursor'[v] = cursor[v] /\ shown'[v] = shown[v]
      BY <1>3, <1>4, <2>1
    <3>2. m \in Below(v) => m \in Below(v)'
      BY <1>1, <3>1 DEF Below, Newer
    <3> QED
      BY <2>0, <3>1, <3>2
  <2>2. CASE v = u /\ shown[u][m] # NoContent
    BY <1>5, <2>2
  <2>3. CASE v = u /\ (cursor[u] = NoMessage \/ m \in Below(u))
    <3>1. m \in Selected(u)
      BY <2>3 DEF Selected, Live, Below
    <3>2. PICK i \in 1 .. Len(all) : m = all[i]
      BY <1>2, <3>1
    <3>3. CASE i <= n
      <4>1. i \in 1 .. n
        BY <3>3
      <4>2. m \in {all[k] : k \in 1 .. n}
        BY <3>2, <4>1
      <4>3. content[m] # NoContent
        BY DEF RowSupport
      <4> QED
        BY <1>5, <2>3, <4>2, <4>3
    <3>4. CASE n < i
      <4>1. n \in 1 .. Len(all) - 1 /\ page'[u] = "anchor" /\ cursor'[u] = all[n]
        BY <1>2, <3>4
      <4>2. Newer(all[n], m)
        BY <1>2, <3>2, <3>4, <4>1
      <4>3. m \in Below(u)'
        BY <1>1, <4>1, <4>2 DEF Below, Newer
      <4> QED
        BY <2>3, <4>1, <4>3
    <3> QED
      BY <3>3, <3>4
  <2> QED
    BY <2>0, <2>1, <2>2, <2>3
<1> QED
  BY <1>7, <1>8, <1>9, <1>10, <1>11

\* A request begins; an author who has one for the message already makes it
\* a raced one.
LEMMA ViewBegin ==
    ASSUME LogInv, ViewInv, NEW r \in Requests, Begins(r)
    PROVE  ViewInv'
<1> USE DEF ViewInv, LogInv
<1>1. /\ UNCHANGED <<rowVars, page, cursor, subs, shown>>
      /\ pc[r] = "idle"
  BY DEF Begins, CreateMessage, FindMessage, MarkChannelRead, Begin, walkVars, eventVars
<1>2. \A m \in Ids : ~Writes(r, m)
  BY <1>1 DEF Writes
<1>3. Alone(r) /\ pc'[r] \in {"create", "edit", "delete", "read", "latest"}
  BY DEF Begins, CreateMessage, FindMessage, MarkChannelRead, Begin, Alone, ThreadTypeOK, TypeOK
<1>4. raced \subseteq raced'
  BY DEF Begins, CreateMessage, FindMessage, MarkChannelRead, eventVars
<1>5. SoleWriter'
  <2>1. ASSUME NEW u \in Users, NEW c \in Contents, CreateMessage(r, u, c) PROVE SoleWriter'
    <3>1. \A m \in Ids : ~Writes(r, m)'
      BY <2>1 DEF CreateMessage, Begin, Writes, ThreadTypeOK, TypeOK
    <3> QED
      BY <1>1, <1>3, <1>4, <3>1, SoleStays DEF rowVars
  <2>2. ASSUME NEW u \in Users, NEW m \in Ids \cup {NoMessage}, MarkChannelRead(r, u, m)
        PROVE  SoleWriter'
    <3>1. msg'[r] = m /\ (m # NoMessage => pc'[r] = "read")
      BY <2>2 DEF MarkChannelRead, Begin, ThreadTypeOK, TypeOK
    <3>2. \A n \in Ids : ~Writes(r, n)'
      BY <3>1 DEF Writes
    <3> QED
      BY <1>1, <1>3, <1>4, <3>2, SoleStays DEF rowVars
  <2>3. ASSUME NEW u \in Users, NEW m \in Ids, NEW op \in {"edit", "delete"},
               NEW c \in Contents \cup {NoContent}, FindMessage(r, u, m, op, c)
        PROVE  SoleWriter'
    <3>1. /\ msg'[r] = m /\ who'[r] = u /\ UNCHANGED author_id
          /\ u = author_id[m] /\ (\E q \in Requests : Writes(q, m) /\ who[q] = u) => m \in raced'
      BY <2>3 DEF FindMessage, Begin, ThreadTypeOK, TypeOK, rowVars
    <3> SUFFICES ASSUME NEW n \in Ids \ raced', NEW p \in Requests, NEW q \in Requests,
                        Writes(p, n)', who'[p] = author_id[n], Writes(q, n)', who'[q] = author_id[n]
                 PROVE  p = q
      BY <3>1 DEF SoleWriter
    <3>2. ASSUME NEW h \in Requests, h # r, Writes(h, n)', who'[h] = author_id[n]
          PROVE  Writes(h, n) /\ who[h] = author_id[n]
      BY <1>3, <3>2 DEF Alone, Writes
    <3>3. ASSUME NEW h \in Requests, h # r, Writes(h, n)', who'[h] = author_id[n],
                 Writes(r, n)', who'[r] = author_id[n]
          PROVE  FALSE
      <4>1. n = m /\ u = author_id[m]
        BY <3>1, <3>3 DEF Writes
      <4>2. Writes(h, m) /\ who[h] = u
        BY <3>2, <3>3, <4>1
      <4> QED
        BY <3>1, <4>1, <4>2
    <3>4. CASE p # r /\ q # r
      BY <1>4, <3>2, <3>4 DEF SoleWriter
    <3> QED
      BY <3>3, <3>4
  <2> QED
    BY <2>1, <2>2, <2>3 DEF Begins
<1>6. \A m \in Ids \ raced' : status'[m] = status[m] /\ content'[m] = content[m]
  BY <1>1 DEF rowVars
<1>7. UNCHANGED <<created_at, author_id, page, cursor, subs, shown>>
  BY <1>1 DEF rowVars
<1> QED
  BY <1>1, <1>3, <1>4, <1>5, <1>6, <1>7, ViewRequest

\* A request returns with nothing to tell, or goes on after its check.
LEMMA ViewQuiet ==
    ASSUME LogInv, ViewInv, NEW r \in Requests, pc[r] \notin {"inserting", "created", "updated", "erased"},
           \/ Return(r)
           \/ pc[r] = "read" /\ Goto(r, "upsert")
           \/ pc[r] \in {"edit", "delete"} /\ Goto(r, "update")
           \/ pc[r] \in {"edit", "delete"} /\ Goto(r, "erase"),
           UNCHANGED <<rowVars, walkVars, subs, shown, raced>>
    PROVE  ViewInv'
<1> USE DEF ViewInv, LogInv
<1>1. Alone(r)
  BY OneRequest DEF PCs
<1>2. /\ pc'[r] \in {"idle", "upsert", "update", "erase"}
      /\ pc'[r] \in {"update", "erase"} => pc[r] \in {"edit", "delete"}
      /\ pc'[r] = "idle" \/ (msg'[r] = msg[r] /\ who'[r] = who[r])
  BY DEF Return, Goto, ThreadTypeOK, TypeOK
<1>3. \A m \in Ids : Writes(r, m)' => Writes(r, m) /\ who'[r] = who[r]
  BY <1>2 DEF Writes
<1>4. UNCHANGED <<status, content, created_at, author_id, page, cursor, subs, shown, raced>>
  BY DEF rowVars, walkVars
<1>5. SoleWriter'
  BY <1>1, <1>3, <1>4, SoleStays
<1> QED
  BY <1>1, <1>2, <1>4, <1>5, ViewRequest

\* A message whose request is dropped is a raced one.
LEMMA ViewDrop ==
    ASSUME LogInv, ViewInv, NEW r \in Requests, Drop(r)
    PROVE  ViewInv'
<1> USE DEF ViewInv, LogInv
<1>1. Alone(r) /\ pc'[r] = "idle"
  BY OneRequest DEF Drop, Return, ThreadTypeOK, TypeOK
<1>2. \A m \in Ids : m \in raced' <=> m \in raced \/ Writes(r, m)
  BY DEF Drop
<1>3. raced \subseteq raced'
  BY <1>2 DEF ThreadTypeOK, TypeOK
<1>4. pc[r] \in {"inserting", "created", "updated", "erased"} => msg[r] \in Ids /\ msg[r] \in raced'
  BY <1>2 DEF Writes, RequestSupport, PCs
<1>5. \A m \in Ids \ raced' : status'[m] = status[m] /\ content'[m] = content[m]
  <2>1. CASE pc[r] # "inserting"
    BY <2>1 DEF Drop
  <2>2. CASE pc[r] = "inserting"
    <3>1. PICK k \in Ids : k = msg[r] /\ k \in raced'
      BY <1>4, <2>2
    <3>2. \A m \in Ids \ {k} : status'[m] = status[m] /\ content'[m] = content[m]
      BY <2>2, <3>1 DEF Drop, ThreadTypeOK, TypeOK
    <3> QED
      BY <3>1, <3>2
  <2> QED
    BY <2>1, <2>2
<1>6. UNCHANGED <<created_at, author_id, page, cursor, subs, shown>>
  BY DEF Drop, walkVars
<1>7. SoleWriter'
  <2>1. \A m \in Ids : ~Writes(r, m)'
    BY <1>1 DEF Writes
  <2> QED
    BY <1>1, <1>3, <1>6, <2>1, SoleStays
<1> QED
  BY <1>1, <1>3, <1>4, <1>5, <1>6, <1>7, ViewRequest

\* The steps of a request that writes.
LEMMA ViewWriting ==
    ASSUME LogInv, WalkSupport, ViewInv, NEW r \in Requests, Writing(r)
    PROVE  ViewInv'
<1> USE DEF LogInv
<1>1. CASE \E m \in Ids : Insert(r, m)
  BY <1>1, ViewInsert
<1>2. ASSUME pc[r] \in PCs \ {"idle", "create", "latest"} PROVE \E m \in Ids : m = msg[r]
  BY <1>2 DEF RequestSupport
<1>3. CASE Inserted(r)
  <2>1. PICK m \in Ids : m = msg[r]
    BY <1>2, <1>3 DEF Inserted, PCs
  <2>2. /\ pc[r] = "inserting" /\ Goto(r, "created") /\ status[m] = "inserting"
        /\ UNCHANGED <<created_at, author_id, content, page, cursor, subs, shown, raced>>
    BY <1>3, <2>1 DEF Inserted, InsertSupport, walkVars, eventVars
  <2>3. status'[m] = "live" /\ \A n \in Ids \ {m} : status'[n] = status[n]
    BY <1>3, <2>1 DEF Inserted, ThreadTypeOK, TypeOK
  <2>4. m \notin raced => content'[m] = text[r]
    BY <2>1, <2>2 DEF ViewInv, TellsStored
  <2> QED
    BY <2>1, <2>2, <2>3, <2>4, ViewWrite
<1>4. CASE UpdateMessageContent(r)
  <2>1. PICK m \in Ids : m = msg[r]
    BY <1>2, <1>4 DEF UpdateMessageContent, PCs
  <2>2. /\ pc[r] = "update"
        /\ UNCHANGED <<status, created_at, author_id, walkVars, page, cursor, subs, shown, raced>>
    BY <1>4 DEF UpdateMessageContent, walkVars, eventVars
  <2>3. CASE status[msg[r]] = "live" /\ Goto(r, "updated")
             /\ content' = [content EXCEPT ![msg[r]] = text[r]]
    <3>1. content'[m] = text[r] /\ \A n \in Ids \ {m} : content'[n] = content[n]
      BY <2>1, <2>3 DEF ThreadTypeOK, TypeOK
    <3> QED
      BY <2>1, <2>2, <2>3, <3>1, ViewWrite
  <2>4. CASE Return(r) /\ UNCHANGED content
    BY <2>2, <2>4, ViewQuiet DEF rowVars
  <2> QED
    BY <1>4, <2>3, <2>4 DEF UpdateMessageContent
<1>5. CASE SoftDeleteMessage(r)
  <2>1. PICK m \in Ids : m = msg[r]
    BY <1>2, <1>5 DEF SoftDeleteMessage, PCs
  <2>2. /\ pc[r] = "erase"
        /\ UNCHANGED <<content, created_at, author_id, walkVars, page, cursor, subs, shown, raced>>
    BY <1>5 DEF SoftDeleteMessage, walkVars, eventVars
  <2>3. CASE Goto(r, "erased") /\ status' = [status EXCEPT ![msg[r]] = "deleted"]
    <3>1. status'[m] = "deleted" /\ \A n \in Ids \ {m} : status'[n] = status[n]
      BY <2>1, <2>3 DEF ThreadTypeOK, TypeOK
    <3> QED
      BY <2>1, <2>2, <2>3, <3>1, ViewWrite
  <2>4. CASE Return(r) /\ UNCHANGED status
    BY <2>2, <2>4, ViewQuiet DEF rowVars
  <2> QED
    BY <1>5, <2>3, <2>4 DEF SoftDeleteMessage
<1>6. CASE PublishMessage(r)
  <2>1. PICK m \in Ids : m = msg[r]
    BY <1>2, <1>6 DEF PublishMessage, PCs
  <2>2. /\ pc[r] \in {"created", "updated"} /\ Apply(m, text[r]) /\ Return(r)
        /\ UNCHANGED <<rowVars, page, cursor, subs, raced>>
    BY <1>6, <2>1 DEF PublishMessage, walkVars
  <2> QED
    BY <2>1, <2>2, ViewTell
<1>7. CASE PublishDelete(r)
  <2>1. PICK m \in Ids : m = msg[r]
    BY <1>2, <1>7 DEF PublishDelete, PCs
  <2>2. /\ pc[r] = "erased" /\ Apply(m, "gone") /\ Return(r)
        /\ UNCHANGED <<rowVars, page, cursor, subs, raced>>
    BY <1>7, <2>1 DEF PublishDelete, walkVars
  <2> QED
    BY <2>1, <2>2, ViewTell
<1> QED
  BY <1>1, <1>3, <1>4, <1>5, <1>6, <1>7, ViewDrop DEF Writing

\* The steps of a request that reads, checks or is refused.
LEMMA ViewAnswering ==
    ASSUME LogInv, ViewInv, NEW r \in Requests, Answering(r)
    PROVE  ViewInv'
<1>1. UNCHANGED <<rowVars, walkVars, subs, shown, raced>>
  BY DEF Answering, CheckAuthor, ResolveLatest, ResolveRequested, UpsertRead, InsertRefused,
         UpsertRefused, eventVars
<1>2. pc[r] \notin {"inserting", "created", "updated", "erased"}
  BY DEF Answering, CheckAuthor, ResolveLatest, ResolveRequested, UpsertRead, InsertRefused,
         UpsertRefused
<1>3. CASE \/ Return(r)
           \/ pc[r] = "read" /\ Goto(r, "upsert")
           \/ pc[r] \in {"edit", "delete"} /\ Goto(r, "update")
           \/ pc[r] \in {"edit", "delete"} /\ Goto(r, "erase")
  BY <1>1, <1>2, <1>3, ViewQuiet
<1>4. CASE CheckAuthor(r)
  <2>1. CASE pc[r] = "edit"
    BY <1>3, <1>4, <2>1 DEF CheckAuthor
  <2>2. CASE pc[r] # "edit"
    BY <1>3, <1>4, <2>2 DEF CheckAuthor
  <2> QED
    BY <2>1, <2>2
<1>5. CASE ResolveLatest(r) /\ ~Return(r)
  <2> USE DEF ViewInv, LogInv
  <2>1. /\ pc[r] = "latest" /\ pc' = [pc EXCEPT ![r] = "catchup"] /\ UNCHANGED <<who, text>>
        /\ \E m \in Latest : msg' = [msg EXCEPT ![r] = m]
    BY <1>5 DEF ResolveLatest
  <2>2. Alone(r) /\ pc'[r] = "catchup"
    BY <2>1 DEF Alone, ThreadTypeOK, TypeOK
  <2>3. UNCHANGED <<status, content, created_at, author_id, page, cursor, subs, shown, raced>>
    BY <1>1 DEF rowVars, walkVars
  <2>4. \A m \in Ids : ~Writes(r, m)'
    BY <2>2 DEF Writes
  <2>5. SoleWriter'
    BY <2>2, <2>3, <2>4, SoleStays
  <2> QED
    BY <2>1, <2>2, <2>3, <2>5, ViewRequest
<1>6. CASE ResolveRequested(r)
  BY <1>3, <1>6 DEF ResolveRequested
<1>7. CASE UpsertRead(r) \/ InsertRefused(r) \/ UpsertRefused(r)
  BY <1>3, <1>7 DEF UpsertRead, InsertRefused, UpsertRefused
<1> QED
  BY <1>3, <1>4, <1>5, <1>6, <1>7 DEF Answering

LEMMA ViewNext == LogInv /\ WalkSupport /\ ViewInv /\ [ThreadNext]_allVars => ViewInv'
<1> SUFFICES ASSUME LogInv, WalkSupport, ViewInv, [ThreadNext]_allVars PROVE ViewInv'
  OBVIOUS
<1> USE DEF ViewInv, LogInv
<1>1. ASSUME AckSupport', UNCHANGED <<rowVars, localVars, cursor, shown, raced>>,
             \A u \in Readers : page'[u] = "done" <=> page[u] = "done"
      PROVE  ViewInv'
  <2> HIDE DEF ViewInv, LogInv
  <2> QED
    BY <1>1, ViewWatch
<1>2. ASSUME UNCHANGED <<rowVars, localVars, page, cursor, shown, subs, raced>> PROVE ViewInv'
  <2>1. AckSupport'
    BY <1>2 DEF AckSupport
  <2> HIDE DEF ViewInv, LogInv
  <2> QED
    BY <1>1, <1>2, <2>1
<1>3. ASSUME NEW u \in Followers, CheckSubscribe(u) \/ Subscribe(u) PROVE ViewInv'
  <2>1. AckSupport'
    <3> SUFFICES ASSUME NEW v \in Followers, subs'[v] # "acked"
                 PROVE  /\ page[v] = "anchor" /\ cursor[v] = NoMessage
                        /\ \A m \in Ids : shown[v][m] = NoContent
      <4>1. UNCHANGED <<page, cursor, shown>>
        BY <1>3 DEF CheckSubscribe, Subscribe, walkVars
      <4> QED
        BY <4>1 DEF AckSupport
    <3>1. subs[v] # "acked"
      BY <1>3 DEF CheckSubscribe, Subscribe, ThreadTypeOK, TypeOK
    <3> QED
      BY <3>1 DEF AckSupport
  <2>2. UNCHANGED <<rowVars, localVars, page, cursor, shown, raced>>
    BY <1>3 DEF CheckSubscribe, Subscribe, walkVars
  <2> HIDE DEF ViewInv, LogInv
  <2> QED
    BY <1>1, <2>1, <2>2
<1>4. ASSUME NEW u \in Readers, FindAnchor(u) PROVE ViewInv'
  <2>1. UNCHANGED <<rowVars, localVars, cursor, shown, subs, raced>>
    BY <1>4 DEF FindAnchor, eventVars
  <2>2. \A v \in Readers : /\ v # u => page'[v] = page[v]
                           /\ page'[v] = "done" <=> page[v] = "done"
    BY <1>4 DEF FindAnchor, ThreadTypeOK, TypeOK
  <2>3. u \in Followers => subs[u] = "acked"
    BY <1>4 DEF FindAnchor
  <2>4. AckSupport'
    BY <2>1, <2>2, <2>3 DEF AckSupport
  <2> HIDE DEF ViewInv, LogInv
  <2> QED
    BY <1>1, <2>1, <2>2, <2>4
<1>5. ASSUME NEW u \in Readers, NEW l \in LimitArgs, ListMessages(u, l) PROVE ViewInv'
  <2>1. PICK all \in Seq(Ids), n \in Nat : Page(u, all, n)
    BY <1>5, PageShape
  <2>2. page[u] = "select" /\ UNCHANGED <<rowVars, localVars, subs, raced>>
    BY <1>5 DEF ListMessages
  <2> HIDE DEF ViewInv, LogInv
  <2> QED
    BY <2>1, <2>2, ViewPage
<1> HIDE DEF ViewInv
<1>6. CASE Watching
  BY <1>2, <1>3, <1>4, <1>5, <1>6 DEF Watching, LoseAccess, RegainAccess, Tick, walkVars, eventVars
<1>7. ASSUME NEW u \in Users, RejectThread(u) PROVE ViewInv'
  <2> USE <1>7 DEF RejectThread
  <2>1. raced' = Ids /\ UNCHANGED <<page, cursor, subs, shown>>
    BY DEF walkVars
  <2>2. AckSupport'
    BY <2>1 DEF AckSupport, ViewInv
  <2>3. SoleWriter' /\ TellsStored' /\ ShownIsStored'
    BY <2>1 DEF SoleWriter, TellsStored, ShownIsStored
  <2>4. LiveIsShown'
    BY <2>1 DEF LiveIsShown, Live
  <2> QED
    BY <2>2, <2>3, <2>4 DEF ViewInv
<1>8. ASSUME NEW u \in Users, AcceptThread(u) PROVE ViewInv'
  BY <1>2, <1>8 DEF AcceptThread, vars, walkVars, eventVars
<1>9. CASE UNCHANGED allVars
  BY <1>2, <1>9 DEF allVars, vars, walkVars, eventVars
<1> QED
  BY <1>6, <1>7, <1>8, <1>9, ViewBegin, ViewWriting, ViewAnswering, Steps DEF CommonStep

(***************************************************************************)
(* A client that subscribes, waits for the ack and then loads the pages    *)
(* shows what is stored of every message nobody is at work on: what its    *)
(* pages miss the events bring, and only the author writes.                *)
(***************************************************************************)
THEOREM FollowersConverge == ThreadSpec => []Converged
<1>1. ThreadInit => LogInv /\ WalkSupport /\ ViewInv
  <2> SUFFICES ASSUME ThreadInit PROVE LogInv /\ WalkSupport /\ ViewInv
    OBVIOUS
  <2>1. LogInv
    BY LogInit
  <2>2. WalkSupport
    BY DEF ThreadInit, Init, WalkSupport, WalkOf
  <2>3. AckSupport /\ ShownIsStored
    BY DEF ThreadInit, Init, AckSupport, ShownIsStored
  <2>4. SoleWriter /\ TellsStored /\ LiveIsShown
    BY DEF ThreadInit, Init, SoleWriter, Writes, TellsStored, LiveIsShown, Live
  <2> QED
    BY <2>1, <2>2, <2>3, <2>4 DEF ViewInv
<1>2. LogInv /\ WalkSupport /\ ViewInv /\ [ThreadNext]_allVars => LogInv' /\ WalkSupport' /\ ViewInv'
  BY LogNext, WalkNext, ViewNext
<1>3. LogInv /\ ViewInv => Converged
  <2> SUFFICES ASSUME LogInv, ViewInv, NEW u \in Followers, NEW m \in Ids \ raced,
                      page[u] = "done", \A r \in Requests : ~Writes(r, m)
               PROVE  /\ status[m] = "live" => shown[u][m] = content[m]
                      /\ status[m] = "deleted" => shown[u][m] \in {"gone", NoContent}
                      /\ status[m] \notin {"live", "deleted"} => shown[u][m] = NoContent
    BY DEF Converged
  <2>1. \A r \in Requests : msg[r] = m => pc[r] \notin {"created", "updated", "erased"}
    BY DEF Writes
  <2>2. \/ shown[u][m] = NoContent
        \/ status[m] = "live" /\ shown[u][m] = content[m]
        \/ status[m] = "deleted" /\ shown[u][m] = "gone"
    BY <2>1 DEF ViewInv, ShownIsStored
  <2>3. status[m] = "live" => shown[u][m] # NoContent
    BY <2>1 DEF ViewInv, LiveIsShown, Live
  <2> QED
    BY <2>2, <2>3
<1> QED
  BY <1>1, <1>2, <1>3, PTL DEF ThreadSpec
=============================================================================
