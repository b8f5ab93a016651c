---------------------------- MODULE DirectThreads ----------------------------
(***************************************************************************)
(* Friend requests and the direct thread of one pair of users, as the HTTP *)
(* requests of both change them concurrently (friendship_repository.rs,    *)
(* conversation_repository.rs and their use cases).                        *)
(*                                                                         *)
(* PostgreSQL runs at READ COMMITTED: a statement outside a transaction is *)
(* one step; a transaction's writes appear at its commit; a row read FOR   *)
(* UPDATE or updated stays locked until then.  A transaction whose only    *)
(* decision is about a row it holds locked is therefore one step, at its   *)
(* commit.  Rows of different pairs are never touched together.            *)
(***************************************************************************)
EXTENDS Naturals

CONSTANTS
    A, B,        \* the two users
    Nobody,      \* requested_by is NULL
    Requests,    \* HTTP requests in flight at the same time
    MaxThreads   \* bound: the thread with this number is not rejected

Users == {A, B}

Other(u) == IF u = A THEN B ELSE A

NoThread == 0

ThreadIds == 1 .. MaxThreads

ASSUME DirectAssumption ==
    /\ A # B
    /\ Nobody \notin Users
    /\ MaxThreads \in Nat \ {0}

VARIABLES
    req,           \* u -> status of the friend_requests row from u to Other(u)
    friends,       \* rows of the friends table for the pair: {} or Users
    tid,           \* id of the pair's thread row, NoThread when there is none
    used,          \* highest id given out (ids are UUIDs, never reused)
    status,        \* direct_status of the thread
    requested_by,  \* requested_by of the thread
    pc,            \* where each HTTP request is
    who,           \* its authenticated user
    got,           \* thread id it has read or locked
    posted,        \* history: author and thread state of the last message insert
    fconsent,      \* history: users who asked for or accepted friendship
    answered,      \* history: u -> who answered the last request of u
    tconsent,      \* history: users who opened or answered this thread
    crossed        \* history: the PENDING thread if it was inserted across
                   \* an accept of friendship

friendVars == <<req, friends, fconsent, answered>>
threadVars == <<tid, used, status, requested_by, tconsent, crossed>>
localVars  == <<pc, who, got>>
vars == <<friendVars, threadVars, localVars, posted>>

PCs == {"idle", "check_incoming", "upsert", "accept_commit", "insert_active",
        "insert_pending", "get", "summary", "notify", "accepted",
        "accepted_get", "message", "failed"}

(***************************************************************************)
(* Type invariant of the tables and of the requests.                       *)
(***************************************************************************)
TypeOK ==
    /\ req \in [Users -> {"none", "PENDING", "ACCEPTED", "REJECTED"}]
    /\ friends \in {{}, Users}
    /\ tid \in ThreadIds \cup {NoThread}
    /\ used \in 0 .. MaxThreads
    /\ status \in {"PENDING", "ACTIVE"}
    /\ requested_by \in Users \cup {Nobody}
    /\ pc \in [Requests -> PCs]
    /\ who \in [Requests -> Users]
    /\ got \in [Requests -> ThreadIds \cup {NoThread}]
    /\ posted \subseteq [author : Users, status : {"PENDING", "ACTIVE"},
                         requested_by : Users \cup {Nobody}]
    /\ fconsent \subseteq Users
    /\ answered \in [Users -> Users \cup {Nobody}]
    /\ tconsent \subseteq Users
    /\ crossed \subseteq ThreadIds

Init ==
    /\ req = [u \in Users |-> "none"]
    /\ friends = {}
    /\ tid = NoThread
    /\ used = 0
    /\ status = "PENDING"
    /\ requested_by = Nobody
    /\ pc = [r \in Requests |-> "idle"]
    /\ who = [r \in Requests |-> A]
    /\ got = [r \in Requests |-> NoThread]
    /\ posted = {}
    /\ fconsent = {}
    /\ answered = [u \in Users |-> Nobody]
    /\ tconsent = {}
    /\ crossed = {}

Goto(r, label) ==
    /\ pc' = [pc EXCEPT ![r] = label]
    /\ UNCHANGED <<who, got>>

\* The request is answered; its locals mean nothing any more.
Return(r) ==
    /\ pc' = [pc EXCEPT ![r] = "idle"]
    /\ who' = [who EXCEPT ![r] = A]
    /\ got' = [got EXCEPT ![r] = NoThread]

\* The request of user u starts; its first statement leaves it at label,
\* holding thread id t.
Start(r, u, label, t) ==
    /\ pc[r] = "idle"
    /\ pc' = [pc EXCEPT ![r] = label]
    /\ who' = [who EXCEPT ![r] = u]
    /\ got' = [got EXCEPT ![r] = t]

Exists == tid # NoThread

AreFriends == friends # {}

\* Accepting a friend request holds its row (and the friends row) until the
\* commit, and the thread row its UPDATE has matched.
AcceptInFlight(r) == pc[r] = "accept_commit"

RequestRowFree(from) ==
    \A r \in Requests : AcceptInFlight(r) => Other(who[r]) # from

ThreadRowFree ==
    \A r \in Requests : AcceptInFlight(r) => got[r] # tid

-----------------------------------------------------------------------------
(* create_friend_request: two checks and an upsert, each a statement.      *)

CreateFriendRequest(r, u) ==
    /\ ~AreFriends
    /\ Start(r, u, "check_incoming", NoThread)
    /\ UNCHANGED <<friendVars, threadVars, posted>>

CheckIncoming(r) ==
    /\ pc[r] = "check_incoming"
    /\ IF req[Other(who[r])] = "PENDING" THEN Return(r) ELSE Goto(r, "upsert")
    /\ UNCHANGED <<friendVars, threadVars, posted>>

\* ON CONFLICT DO UPDATE ... WHERE status <> 'PENDING'.
UpsertRequest(r) ==
    /\ pc[r] = "upsert"
    /\ RequestRowFree(who[r])
    /\ req' = [req EXCEPT ![who[r]] = "PENDING"]
    /\ fconsent' = fconsent \cup {who[r]}
    /\ answered' = [answered EXCEPT ![who[r]] = Nobody]
    /\ Return(r)
    /\ UNCHANGED <<friends, threadVars, posted>>

-----------------------------------------------------------------------------
(* accept_friend_request, one transaction.  u answers Other(u)'s request.  *)

\* The row is locked and is PENDING or already ACCEPTED; the UPDATE of
\* threads sees the pair's thread only if it is committed and PENDING now.
\* Of two accepts (one per direction) the second waits on the friends row.
AcceptFriend(r, u) ==
    /\ req[Other(u)] \in {"PENDING", "ACCEPTED"}
    /\ \A q \in Requests : ~AcceptInFlight(q)
    /\ Start(r, u, "accept_commit",
             IF Exists /\ status = "PENDING" THEN tid ELSE NoThread)
    /\ UNCHANGED <<friendVars, threadVars, posted>>

\* Mutant: the accept does not touch the thread.
MutAcceptFriendCommit(r) ==
    /\ AcceptInFlight(r)
    /\ req' = [req EXCEPT ![Other(who[r])] = "ACCEPTED"]
    /\ friends' = Users
    /\ fconsent' = fconsent \cup {who[r]}
    /\ answered' = [answered EXCEPT ![Other(who[r])] = who[r]]
    /\ Return(r)
    /\ UNCHANGED <<threadVars, posted>>

\* Commit: the request row, the friends row and the matched thread.
AcceptFriendCommit(r) ==
    /\ AcceptInFlight(r)
    /\ req' = [req EXCEPT ![Other(who[r])] = "ACCEPTED"]
    /\ friends' = Users
    /\ fconsent' = fconsent \cup {who[r]}
    /\ answered' = [answered EXCEPT ![Other(who[r])] = who[r]]
    /\ status' = IF Exists /\ got[r] = tid THEN "ACTIVE" ELSE status
    /\ crossed' = crossed \ {got[r]}
    /\ Return(r)
    /\ UNCHANGED <<tid, used, requested_by, tconsent, posted>>

\* Mutant: the row is rejected while an accept holds it.
MutRejectFriend(r, u) ==
    /\ pc[r] = "idle"
    /\ req[Other(u)] = "PENDING"
    /\ req' = [req EXCEPT ![Other(u)] = "REJECTED"]
    /\ answered' = [answered EXCEPT ![Other(u)] = u]
    /\ UNCHANGED <<friends, fconsent, threadVars, localVars, posted>>

\* reject_friend_request: one UPDATE ... WHERE status = 'PENDING'.
RejectFriend(r, u) ==
    /\ pc[r] = "idle"
    /\ req[Other(u)] = "PENDING"
    /\ RequestRowFree(Other(u))
    /\ req' = [req EXCEPT ![Other(u)] = "REJECTED"]
    /\ answered' = [answered EXCEPT ![Other(u)] = u]
    /\ UNCHANGED <<friends, fconsent, threadVars, localVars, posted>>

-----------------------------------------------------------------------------
(* create_or_get_direct_thread.                                            *)

\* The transaction's first statement decides the status of the new row.
CreateDirect(r, u) ==
    /\ Start(r, u, IF AreFriends THEN "insert_active" ELSE "insert_pending",
             NoThread)
    /\ UNCHANGED <<friendVars, threadVars, posted>>

\* History: friendship is being accepted, or was since the insert's first
\* statement read that there is none.
Accepting == AreFriends \/ \E q \in Requests : AcceptInFlight(q)

\* INSERT succeeds (with both memberships, summary and commit).
InsertThread(r, at, state, requester) ==
    /\ pc[r] = at
    /\ ~Exists
    /\ used' = used + 1
    /\ tid' = used + 1
    /\ status' = state
    /\ requested_by' = requester
    /\ tconsent' = {who[r]}
    /\ crossed' = IF state = "PENDING" /\ Accepting THEN {used + 1} ELSE {}
    /\ UNCHANGED <<friendVars, posted>>

InsertActive(r) ==
    /\ InsertThread(r, "insert_active", "ACTIVE", Nobody)
    /\ Return(r)

InsertPending(r) ==
    /\ InsertThread(r, "insert_pending", "PENDING", who[r])
    /\ Goto(r, "notify")

\* Mutant: ON CONFLICT DO UPDATE instead of DO NOTHING.
MutInsertConflict(r) ==
    /\ pc[r] \in {"insert_active", "insert_pending"}
    /\ Exists
    /\ status' = IF pc[r] = "insert_active" THEN "ACTIVE" ELSE "PENDING"
    /\ requested_by' = IF pc[r] = "insert_active" THEN Nobody ELSE who[r]
    /\ Goto(r, "get")
    /\ UNCHANGED <<friendVars, tid, used, tconsent, crossed, posted>>

\* ON CONFLICT DO NOTHING: there is a thread already.
InsertConflict(r) ==
    /\ pc[r] \in {"insert_active", "insert_pending"}
    /\ Exists
    /\ Goto(r, "get")
    /\ UNCHANGED <<friendVars, threadVars, posted>>

\* SELECT id, a later statement: fetch_one fails when a reject came between.
GetThread(r) ==
    /\ pc[r] = "get"
    /\ IF Exists
       THEN /\ pc' = [pc EXCEPT ![r] = "summary"]
            /\ got' = [got EXCEPT ![r] = tid]
            /\ UNCHANGED who
       ELSE Goto(r, "failed")
    /\ UNCHANGED <<friendVars, threadVars, posted>>

\* ensure_direct_membership and direct_summary_for_member.
Summary(r) ==
    /\ pc[r] = "summary"
    /\ IF got[r] = tid THEN Return(r) ELSE Goto(r, "failed")
    /\ UNCHANGED <<friendVars, threadVars, posted>>

\* The handler publishes ThreadRequestReceived to the peer.
NotifyRequest(r) ==
    /\ pc[r] = "notify"
    /\ Return(r)
    /\ UNCHANGED <<friendVars, threadVars, posted>>

-----------------------------------------------------------------------------
(* Accepting and rejecting the thread: the row is locked by the read.      *)

\* Mutant: requested_by is not compared with the user.
MutPendingFor(u) ==
    /\ Exists
    /\ ThreadRowFree
    /\ status = "PENDING"

\* The thread is PENDING and u is not the one who asked for it.
PendingFor(u) ==
    /\ Exists
    /\ ThreadRowFree
    /\ status = "PENDING"
    /\ requested_by # u

\* accept_direct_thread_request.
AcceptDirect(r, u) ==
    /\ PendingFor(u)
    /\ Start(r, u, "accepted", tid)
    /\ status' = "ACTIVE"
    /\ tconsent' = tconsent \cup {u}
    /\ crossed' = {}
    /\ UNCHANGED <<friendVars, tid, used, requested_by, posted>>

\* The handler publishes ThreadAccepted to the requester and the receiver...
PublishAccepted(r) ==
    /\ pc[r] = "accepted"
    /\ Goto(r, "accepted_get")
    /\ UNCHANGED <<friendVars, threadVars, posted>>

\* ... and then reads the thread again for its answer.
AcceptedGet(r) ==
    /\ pc[r] = "accepted_get"
    /\ IF got[r] = tid THEN Return(r) ELSE Goto(r, "failed")
    /\ UNCHANGED <<friendVars, threadVars, posted>>

\* reject_direct_thread_request: DELETE, members and messages cascade.
RejectDirect(r, u) ==
    /\ pc[r] = "idle"
    /\ PendingFor(u)
    /\ used < MaxThreads
    /\ tid' = NoThread
    /\ tconsent' = tconsent \cup {u}
    /\ crossed' = {}
    /\ UNCHANGED <<friendVars, used, status, requested_by, localVars, posted>>

-----------------------------------------------------------------------------
(* create_thread_message: find_thread_access, then the INSERT.             *)

CreateMessage(r, u) ==
    /\ Exists
    /\ ~(status = "PENDING" /\ requested_by # u)
    /\ Start(r, u, "message", tid)
    /\ UNCHANGED <<friendVars, threadVars, posted>>

\* The foreign key refuses the INSERT when the thread is gone.
InsertMessage(r) ==
    /\ pc[r] = "message"
    /\ posted' = IF got[r] = tid
                 THEN {[author |-> who[r], status |-> status,
                        requested_by |-> requested_by]}
                 ELSE posted
    /\ Return(r)
    /\ UNCHANGED <<friendVars, threadVars>>

\* The request ends with an error, or its handler is dropped at an await
\* (client gone, process stopped): open transactions roll back.
Abort(r) ==
    /\ pc[r] # "idle"
    /\ Return(r)
    /\ UNCHANGED <<friendVars, threadVars, posted>>

-----------------------------------------------------------------------------
\* A request begins.  Those refused by their first statement change nothing.
Begin(r, u) ==
    \/ CreateFriendRequest(r, u)
    \/ AcceptFriend(r, u)
    \/ RejectFriend(r, u)
    \/ CreateDirect(r, u)
    \/ AcceptDirect(r, u)
    \/ RejectDirect(r, u)
    \/ CreateMessage(r, u)

Continue(r) ==
    \/ CheckIncoming(r)
    \/ UpsertRequest(r)
    \/ AcceptFriendCommit(r)
    \/ InsertActive(r)
    \/ InsertPending(r)
    \/ InsertConflict(r)
    \/ GetThread(r)
    \/ Summary(r)
    \/ NotifyRequest(r)
    \/ PublishAccepted(r)
    \/ AcceptedGet(r)
    \/ InsertMessage(r)
    \/ Abort(r)

Next ==
    \E r \in Requests : Continue(r) \/ \E u \in Users : Begin(r, u)

Spec == Init /\ [][Next]_vars

-----------------------------------------------------------------------------
(***************************************************************************)
(* Nobody is drawn in alone: users become friends only after both acted    *)
(* (one asked, the other accepted), and a thread is ACTIVE only when its   *)
(* two users are friends or both took part in it, however requests,        *)
(* accepts, rejects and re-creations interleave.                           *)
(***************************************************************************)
ConsentOfBoth ==
    /\ AreFriends => fconsent = Users
    /\ Exists /\ status = "ACTIVE" => AreFriends \/ tconsent = Users

(***************************************************************************)
(* "direct thread request must be accepted before receiver can send        *)
(* messages": no message of the receiver is ever inserted into a PENDING   *)
(* thread, although the status is checked one statement earlier.           *)
(***************************************************************************)
ReceiverWaits ==
    \A m \in posted : m.status = "PENDING" => m.author = m.requested_by

(***************************************************************************)
(* "accepted friendship creates ACTIVE DM flow": friends have an ACTIVE    *)
(* thread, whichever of thread and friendship came first, unless the       *)
(* thread was inserted as PENDING after the accept had looked for threads  *)
(* or after the insert had looked for the friendship (crossed).            *)
(***************************************************************************)
FriendsActive ==
    AreFriends /\ Exists /\ status = "PENDING" => tid \in crossed

(***************************************************************************)
(* An ACTIVE thread is for ever: no step deletes it, replaces it or makes  *)
(* it PENDING again.  (The checks that read the status a statement before  *)
(* they use it, and the read after the accept, rely on this.)              *)
(***************************************************************************)
ActiveForever ==
    [][Exists /\ status = "ACTIVE" => tid' = tid /\ status' = "ACTIVE"]_vars

(***************************************************************************)
(* An accept that committed is answered: the thread it reads back after    *)
(* publishing is there.                                                    *)
(***************************************************************************)
AcceptAnswered ==
    \A r \in Requests : pc[r] \in {"accepted", "accepted_get"} =>
        got[r] = tid /\ status = "ACTIVE"

-----------------------------------------------------------------------------
(* The contract of a pair, seen in the committed rows.                     *)

askedBar == {u \in Users : req[u] = "PENDING"}

threadBar == IF Exists THEN status ELSE "none"

byBar == IF Exists /\ status = "PENDING" THEN requested_by ELSE Nobody

Contract == INSTANCE DirectContract
    WITH asked <- askedBar, thread <- threadBar, by <- byBar,
         party <- tconsent

(***************************************************************************)
(* The rows implement the contract of the pair: whatever the requests in   *)
(* flight have read, every commit is one of its transitions.  An accept    *)
(* uses a friend request that stands when the accept commits and never one *)
(* that was declined meanwhile; a request or a thread is answered by the   *)
(* user who was asked, never by the one who asked (answered and tconsent   *)
(* record who did).                                                        *)
(***************************************************************************)
ImplementsContract == Contract!Spec

-----------------------------------------------------------------------------
(* The inductive invariant: ids grow, a PENDING thread was opened by its   *)
(* requester, locks keep what their holder read, and a request that passed *)
(* the access check still passes it unless the thread is gone.             *)
Support ==
    /\ tid <= used
    /\ ~Exists => used < MaxThreads
    /\ \A r \in Requests :
           /\ got[r] <= used
           /\ pc[r] = "insert_active" => AreFriends
           /\ AcceptInFlight(r) => Other(who[r]) \in fconsent
           /\ AcceptInFlight(r) => req[Other(who[r])] \in {"PENDING", "ACCEPTED"}
           /\ AcceptInFlight(r) /\ got[r] # NoThread => got[r] = tid
           /\ AcceptInFlight(r) /\ Exists /\ status = "PENDING" =>
                  got[r] = tid \/ tid \in crossed
           /\ pc[r] = "message" /\ got[r] = tid =>
                  ~(status = "PENDING" /\ requested_by # who[r])
           /\ pc[r] \in {"message", "accepted", "accepted_get"} => got[r] # NoThread
    /\ \A u \in Users : req[u] # "none" => u \in fconsent
    /\ \A u \in Users : req[u] = "ACCEPTED" => AreFriends /\ answered[u] = Other(u)
    /\ Exists /\ status = "PENDING" => tconsent = {requested_by}

Inv == TypeOK /\ ConsentOfBoth /\ FriendsActive /\ ReceiverWaits /\ AcceptAnswered /\ Support

=============================================================================
