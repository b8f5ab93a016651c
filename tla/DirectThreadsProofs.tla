------------------------- MODULE DirectThreadsProofs -------------------------
(***************************************************************************)
(* The invariants of friend requests and direct threads, for any number of *)
(* concurrent requests and any number of threads opened and rejected.      *)
(***************************************************************************)
EXTENDS DirectThreads, TLAPS

USE DirectAssumption DEF Users, Other, NoThread, ThreadIds, Exists, AreFriends,
    AcceptInFlight

\* The tables start empty.
LEMMA InitInv == Init => Inv
<1> SUFFICES ASSUME Init PROVE Inv
  OBVIOUS
<1>1. TypeOK
  BY DEF Init, TypeOK, PCs
<1>2. ConsentOfBoth /\ FriendsActive /\ ReceiverWaits /\ AcceptAnswered /\ Support
  BY DEF Init, ConsentOfBoth, FriendsActive, ReceiverWaits, AcceptAnswered, Support
<1> QED
  BY <1>1, <1>2 DEF Inv

\* Inv is preserved by the friendship check of a new friend request.
LEMMA CreateFriendRequestStep ==
    ASSUME Inv, NEW r \in Requests, NEW u \in Users, CreateFriendRequest(r, u)
    PROVE  Inv'
<1> USE DEF Inv, friendVars, threadVars, localVars, CreateFriendRequest, Start
<1>1. TypeOK'
  BY DEF TypeOK, Support, PCs
<1>2. ConsentOfBoth'
  BY DEF TypeOK, ConsentOfBoth, Support
<1>3. ReceiverWaits'
  BY DEF TypeOK, ReceiverWaits, Support
<1>4. AcceptAnswered'
  BY DEF TypeOK, AcceptAnswered, Support
<1>5. Support'
  BY DEF TypeOK, AcceptAnswered, Support
<1>6. FriendsActive'
  BY DEF TypeOK, FriendsActive, Support
<1> QED
  BY <1>1, <1>2, <1>3, <1>4, <1>5, <1>6

\* Inv is preserved by the locking half of an accept.
LEMMA AcceptFriendStep ==
    ASSUME Inv, NEW r \in Requests, NEW u \in Users, AcceptFriend(r, u)
    PROVE  Inv'
<1> USE DEF Inv, friendVars, threadVars, localVars, AcceptFriend, Start
<1>1. TypeOK'
  BY DEF TypeOK, Support, PCs
<1>2. ConsentOfBoth'
  BY DEF TypeOK, ConsentOfBoth, Support
<1>3. ReceiverWaits'
  BY DEF TypeOK, ReceiverWaits, Support
<1>4. AcceptAnswered'
  BY DEF TypeOK, AcceptAnswered, Support
<1>5. Support'
  BY DEF TypeOK, AcceptAnswered, Support
<1>6. FriendsActive'
  BY DEF TypeOK, FriendsActive, Support
<1> QED
  BY <1>1, <1>2, <1>3, <1>4, <1>5, <1>6

\* Inv is preserved by a rejected friend request.
LEMMA RejectFriendStep ==
    ASSUME Inv, NEW r \in Requests, NEW u \in Users, RejectFriend(r, u)
    PROVE  Inv'
<1> USE DEF Inv, friendVars, threadVars, localVars, RejectFriend, RequestRowFree
<1>1. TypeOK'
  BY DEF TypeOK, Support, PCs
<1>2. ConsentOfBoth'
  BY DEF TypeOK, ConsentOfBoth, Support
<1>3. ReceiverWaits'
  BY DEF TypeOK, ReceiverWaits, Support
<1>4. AcceptAnswered'
  BY DEF TypeOK, AcceptAnswered, Support
<1>5. Support'
  BY DEF TypeOK, AcceptAnswered, Support
<1>6. FriendsActive'
  BY DEF TypeOK, FriendsActive, Support
<1> QED
  BY <1>1, <1>2, <1>3, <1>4, <1>5, <1>6

\* Inv is preserved by the friendship check of a new thread.
LEMMA CreateDirectStep ==
    ASSUME Inv, NEW r \in Requests, NEW u \in Users, CreateDirect(r, u)
    PROVE  Inv'
<1> USE DEF Inv, friendVars, threadVars, localVars, CreateDirect, Start
<1>1. TypeOK'
  BY DEF TypeOK, Support, PCs
<1>2. ConsentOfBoth'
  BY DEF TypeOK, ConsentOfBoth, Support
<1>3. ReceiverWaits'
  BY DEF TypeOK, ReceiverWaits, Support
<1>4. AcceptAnswered'
  BY DEF TypeOK, AcceptAnswered, Support
<1>5. Support'
  BY DEF TypeOK, AcceptAnswered, Support
<1>6. FriendsActive'
  BY DEF TypeOK, FriendsActive, Support
<1> QED
  BY <1>1, <1>2, <1>3, <1>4, <1>5, <1>6

\* Inv is preserved by an accepted thread.
LEMMA AcceptDirectStep ==
    ASSUME Inv, NEW r \in Requests, NEW u \in Users, AcceptDirect(r, u)
    PROVE  Inv'
<1> USE DEF Inv, friendVars, threadVars, localVars, AcceptDirect, Start, PendingFor, ThreadRowFree
<1>1. TypeOK'
  BY DEF TypeOK, Support, PCs
<1>2. ConsentOfBoth'
  BY DEF TypeOK, ConsentOfBoth, Support
<1>3. ReceiverWaits'
  BY DEF TypeOK, ReceiverWaits, Support
<1>4. AcceptAnswered'
  BY DEF TypeOK, AcceptAnswered, Support
<1>5. Support'
  BY DEF TypeOK, AcceptAnswered, Support
<1>6. FriendsActive'
  BY DEF TypeOK, FriendsActive, Support
<1> QED
  BY <1>1, <1>2, <1>3, <1>4, <1>5, <1>6

\* Inv is preserved by a rejected thread.
LEMMA RejectDirectStep ==
    ASSUME Inv, NEW r \in Requests, NEW u \in Users, RejectDirect(r, u)
    PROVE  Inv'
<1> USE DEF Inv, friendVars, threadVars, localVars, RejectDirect, PendingFor, ThreadRowFree
<1>1. TypeOK'
  BY DEF TypeOK, Support, PCs
<1>2. ConsentOfBoth'
  BY DEF TypeOK, ConsentOfBoth, Support
<1>3. ReceiverWaits'
  BY DEF TypeOK, ReceiverWaits, Support
<1>4. AcceptAnswered'
  BY DEF TypeOK, AcceptAnswered, Support
<1>5. Support'
  BY DEF TypeOK, AcceptAnswered, Support
<1>6. FriendsActive'
  BY DEF TypeOK, FriendsActive, Support
<1> QED
  BY <1>1, <1>2, <1>3, <1>4, <1>5, <1>6

\* Inv is preserved by the access check of a message.
LEMMA CreateMessageStep ==
    ASSUME Inv, NEW r \in Requests, NEW u \in Users, CreateMessage(r, u)
    PROVE  Inv'
<1> USE DEF Inv, friendVars, threadVars, localVars, CreateMessage, Start
<1>1. TypeOK'
  BY DEF TypeOK, Support, PCs
<1>2. ConsentOfBoth'
  BY DEF TypeOK, ConsentOfBoth, Support
<1>3. ReceiverWaits'
  BY DEF TypeOK, ReceiverWaits, Support
<1>4. AcceptAnswered'
  BY DEF TypeOK, AcceptAnswered, Support
<1>5. Support'
  BY DEF TypeOK, AcceptAnswered, Support
<1>6. FriendsActive'
  BY DEF TypeOK, FriendsActive, Support
<1> QED
  BY <1>1, <1>2, <1>3, <1>4, <1>5, <1>6

\* Inv is preserved by the check for a crossing request.
LEMMA CheckIncomingStep ==
    ASSUME Inv, NEW r \in Requests, CheckIncoming(r)
    PROVE  Inv'
<1> USE DEF Inv, friendVars, threadVars, localVars, CheckIncoming, Goto, Return
<1>1. TypeOK'
  BY DEF TypeOK, Support, PCs
<1>2. ConsentOfBoth'
  BY DEF TypeOK, ConsentOfBoth, Support
<1>3. ReceiverWaits'
  BY DEF TypeOK, ReceiverWaits, Support
<1>4. AcceptAnswered'
  BY DEF TypeOK, AcceptAnswered, Support
<1>5. Support'
  BY DEF TypeOK, AcceptAnswered, Support
<1>6. FriendsActive'
  BY DEF TypeOK, FriendsActive, Support
<1> QED
  BY <1>1, <1>2, <1>3, <1>4, <1>5, <1>6

\* Inv is preserved by the upsert of a friend request.
LEMMA UpsertRequestStep ==
    ASSUME Inv, NEW r \in Requests, UpsertRequest(r)
    PROVE  Inv'
<1> USE DEF Inv, friendVars, threadVars, localVars, UpsertRequest, Return
<1>1. TypeOK'
  BY DEF TypeOK, Support, PCs
<1>2. ConsentOfBoth'
  BY DEF TypeOK, ConsentOfBoth, Support
<1>3. ReceiverWaits'
  BY DEF TypeOK, ReceiverWaits, Support
<1>4. AcceptAnswered'
  BY DEF TypeOK, AcceptAnswered, Support
<1>5. Support'
  BY DEF TypeOK, AcceptAnswered, Support
<1>6. FriendsActive'
  BY DEF TypeOK, FriendsActive, Support
<1> QED
  BY <1>1, <1>2, <1>3, <1>4, <1>5, <1>6

\* Inv is preserved by the commit of an accept.
LEMMA AcceptFriendCommitStep ==
    ASSUME Inv, NEW r \in Requests, AcceptFriendCommit(r)
    PROVE  Inv'
<1> USE DEF Inv, friendVars, threadVars, localVars, AcceptFriendCommit, Return
<1>1. TypeOK'
  BY DEF TypeOK, Support, PCs
<1>2. ConsentOfBoth'
  BY DEF TypeOK, ConsentOfBoth, Support
<1>3. ReceiverWaits'
  BY DEF TypeOK, ReceiverWaits, Support
<1>4. AcceptAnswered'
  BY DEF TypeOK, AcceptAnswered, Support
<1>5. Support'
  BY DEF TypeOK, AcceptAnswered, Support
<1>6. FriendsActive'
  BY DEF TypeOK, FriendsActive, Support
<1> QED
  BY <1>1, <1>2, <1>3, <1>4, <1>5, <1>6

\* Inv is preserved by the insert of an ACTIVE thread.
LEMMA InsertActiveStep ==
    ASSUME Inv, NEW r \in Requests, InsertActive(r)
    PROVE  Inv'
<1> USE DEF Inv, friendVars, threadVars, localVars, InsertActive, InsertThread, Accepting, Return
<1>1. TypeOK'
  BY DEF TypeOK, Support, PCs
<1>2. ConsentOfBoth'
  BY DEF TypeOK, ConsentOfBoth, Support
<1>3. ReceiverWaits'
  BY DEF TypeOK, ReceiverWaits, Support
<1>4. AcceptAnswered'
  BY DEF TypeOK, AcceptAnswered, Support
<1>5. Support'
  BY DEF TypeOK, AcceptAnswered, Support
<1>6. FriendsActive'
  BY DEF TypeOK, FriendsActive, Support
<1> QED
  BY <1>1, <1>2, <1>3, <1>4, <1>5, <1>6

\* Inv is preserved by the insert of a PENDING thread.
LEMMA InsertPendingStep ==
    ASSUME Inv, NEW r \in Requests, InsertPending(r)
    PROVE  Inv'
<1> USE DEF Inv, friendVars, threadVars, localVars, InsertPending, InsertThread, Accepting, Goto
<1>1. TypeOK'
  BY DEF TypeOK, Support, PCs
<1>2. ConsentOfBoth'
  BY DEF TypeOK, ConsentOfBoth, Support
<1>3. ReceiverWaits'
  BY DEF TypeOK, ReceiverWaits, Support
<1>4. AcceptAnswered'
  BY DEF TypeOK, AcceptAnswered, Support
<1>5. Support'
  BY DEF TypeOK, AcceptAnswered, Support
<1>6. FriendsActive'
  BY DEF TypeOK, FriendsActive, Support
<1> QED
  BY <1>1, <1>2, <1>3, <1>4, <1>5, <1>6

\* Inv is preserved by an insert that finds a thread.
LEMMA InsertConflictStep ==
    ASSUME Inv, NEW r \in Requests, InsertConflict(r)
    PROVE  Inv'
<1> USE DEF Inv, friendVars, threadVars, localVars, InsertConflict, Goto
<1>1. TypeOK'
  BY DEF TypeOK, Support, PCs
<1>2. ConsentOfBoth'
  BY DEF TypeOK, ConsentOfBoth, Support
<1>3. ReceiverWaits'
  BY DEF TypeOK, ReceiverWaits, Support
<1>4. AcceptAnswered'
  BY DEF TypeOK, AcceptAnswered, Support
<1>5. Support'
  BY DEF TypeOK, AcceptAnswered, Support
<1>6. FriendsActive'
  BY DEF TypeOK, FriendsActive, Support
<1> QED
  BY <1>1, <1>2, <1>3, <1>4, <1>5, <1>6

\* Inv is preserved by the lookup of the existing thread.
LEMMA GetThreadStep ==
    ASSUME Inv, NEW r \in Requests, GetThread(r)
    PROVE  Inv'
<1> USE DEF Inv, friendVars, threadVars, localVars, GetThread, Goto
<1>1. TypeOK'
  BY DEF TypeOK, Support, PCs
<1>2. ConsentOfBoth'
  BY DEF TypeOK, ConsentOfBoth, Support
<1>3. ReceiverWaits'
  BY DEF TypeOK, ReceiverWaits, Support
<1>4. AcceptAnswered'
  BY DEF TypeOK, AcceptAnswered, Support
<1>5. Support'
  BY DEF TypeOK, AcceptAnswered, Support
<1>6. FriendsActive'
  BY DEF TypeOK, FriendsActive, Support
<1> QED
  BY <1>1, <1>2, <1>3, <1>4, <1>5, <1>6

\* Inv is preserved by the summary of the existing thread.
LEMMA SummaryStep ==
    ASSUME Inv, NEW r \in Requests, Summary(r)
    PROVE  Inv'
<1> USE DEF Inv, friendVars, threadVars, localVars, Summary, Goto, Return
<1>1. TypeOK'
  BY DEF TypeOK, Support, PCs
<1>2. ConsentOfBoth'
  BY DEF TypeOK, ConsentOfBoth, Support
<1>3. ReceiverWaits'
  BY DEF TypeOK, ReceiverWaits, Support
<1>4. AcceptAnswered'
  BY DEF TypeOK, AcceptAnswered, Support
<1>5. Support'
  BY DEF TypeOK, AcceptAnswered, Support
<1>6. FriendsActive'
  BY DEF TypeOK, FriendsActive, Support
<1> QED
  BY <1>1, <1>2, <1>3, <1>4, <1>5, <1>6

\* Inv is preserved by the publication of a thread request.
LEMMA NotifyRequestStep ==
    ASSUME Inv, NEW r \in Requests, NotifyRequest(r)
    PROVE  Inv'
<1> USE DEF Inv, friendVars, threadVars, localVars, NotifyRequest, Return
<1>1. TypeOK'
  BY DEF TypeOK, Support, PCs
<1>2. ConsentOfBoth'
  BY DEF TypeOK, ConsentOfBoth, Support
<1>3. ReceiverWaits'
  BY DEF TypeOK, ReceiverWaits, Support
<1>4. AcceptAnswered'
  BY DEF TypeOK, AcceptAnswered, Support
<1>5. Support'
  BY DEF TypeOK, AcceptAnswered, Support
<1>6. FriendsActive'
  BY DEF TypeOK, FriendsActive, Support
<1> QED
  BY <1>1, <1>2, <1>3, <1>4, <1>5, <1>6

\* Inv is preserved by the publication of an accept.
LEMMA PublishAcceptedStep ==
    ASSUME Inv, NEW r \in Requests, PublishAccepted(r)
    PROVE  Inv'
<1> USE DEF Inv, friendVars, threadVars, localVars, PublishAccepted, Goto
<1>1. TypeOK'
  BY DEF TypeOK, Support, PCs
<1>2. ConsentOfBoth'
  BY DEF TypeOK, ConsentOfBoth, Support
<1>3. ReceiverWaits'
  BY DEF TypeOK, ReceiverWaits, Support
<1>4. AcceptAnswered'
  BY DEF TypeOK, AcceptAnswered, Support
<1>5. Support'
  BY DEF TypeOK, AcceptAnswered, Support
<1>6. FriendsActive'
  BY DEF TypeOK, FriendsActive, Support
<1> QED
  BY <1>1, <1>2, <1>3, <1>4, <1>5, <1>6

\* Inv is preserved by the read after an accept.
LEMMA AcceptedGetStep ==
    ASSUME Inv, NEW r \in Requests, AcceptedGet(r)
    PROVE  Inv'
<1> USE DEF Inv, friendVars, threadVars, localVars, AcceptedGet, Goto, Return
<1>1. TypeOK'
  BY DEF TypeOK, Support, PCs
<1>2. ConsentOfBoth'
  BY DEF TypeOK, ConsentOfBoth, Support
<1>3. ReceiverWaits'
  BY DEF TypeOK, ReceiverWaits, Support
<1>4. AcceptAnswered'
  BY DEF TypeOK, AcceptAnswered, Support
<1>5. Support'
  BY DEF TypeOK, AcceptAnswered, Support
<1>6. FriendsActive'
  BY DEF TypeOK, FriendsActive, Support
<1> QED
  BY <1>1, <1>2, <1>3, <1>4, <1>5, <1>6

\* Inv is preserved by the insert of a message.
LEMMA InsertMessageStep ==
    ASSUME Inv, NEW r \in Requests, InsertMessage(r)
    PROVE  Inv'
<1> USE DEF Inv, friendVars, threadVars, localVars, InsertMessage, Return
<1>1. TypeOK'
  BY DEF TypeOK, Support, PCs
<1>2. ConsentOfBoth'
  BY DEF TypeOK, ConsentOfBoth, Support
<1>3. ReceiverWaits'
  BY DEF TypeOK, ReceiverWaits, Support
<1>4. AcceptAnswered'
  BY DEF TypeOK, AcceptAnswered, Support
<1>5. Support'
  BY DEF TypeOK, AcceptAnswered, Support
<1>6. FriendsActive'
  BY DEF TypeOK, FriendsActive, Support
<1> QED
  BY <1>1, <1>2, <1>3, <1>4, <1>5, <1>6

\* Inv is preserved by an aborted request.
LEMMA AbortStep ==
    ASSUME Inv, NEW r \in Requests, Abort(r)
    PROVE  Inv'
<1> USE DEF Inv, friendVars, threadVars, localVars, Abort, Return
<1>1. TypeOK'
  BY DEF TypeOK, Support, PCs
<1>2. ConsentOfBoth'
  BY DEF TypeOK, ConsentOfBoth, Support
<1>3. ReceiverWaits'
  BY DEF TypeOK, ReceiverWaits, Support
<1>4. AcceptAnswered'
  BY DEF TypeOK, AcceptAnswered, Support
<1>5. Support'
  BY DEF TypeOK, AcceptAnswered, Support
<1>6. FriendsActive'
  BY DEF TypeOK, FriendsActive, Support
<1> QED
  BY <1>1, <1>2, <1>3, <1>4, <1>5, <1>6

\* Every step preserves Inv.
LEMMA NextInv == Inv /\ [Next]_vars => Inv'
<1> SUFFICES ASSUME Inv, [Next]_vars PROVE Inv'
  OBVIOUS
<1>1. ASSUME NEW r \in Requests, NEW u \in Users, Begin(r, u) PROVE Inv'
  BY <1>1, CreateFriendRequestStep, AcceptFriendStep, RejectFriendStep,
     CreateDirectStep, AcceptDirectStep, RejectDirectStep, CreateMessageStep
     DEF Begin
<1>2. ASSUME NEW r \in Requests, Continue(r) PROVE Inv'
  BY <1>2, CheckIncomingStep, UpsertRequestStep, AcceptFriendCommitStep,
     InsertActiveStep, InsertPendingStep, InsertConflictStep, GetThreadStep,
     SummaryStep, NotifyRequestStep, PublishAcceptedStep, AcceptedGetStep,
     InsertMessageStep, AbortStep DEF Continue
<1>3. CASE UNCHANGED vars
  BY <1>3 DEF vars, friendVars, threadVars, localVars, Inv, TypeOK,
     ConsentOfBoth, FriendsActive, ReceiverWaits, AcceptAnswered, Support
<1> QED
  BY <1>1, <1>2, <1>3 DEF Next

\* Inv holds in every reachable state.
THEOREM Invariance == Spec => []Inv
  BY InitInv, NextInv, PTL DEF Spec

\* No friendship and no ACTIVE thread without both users having acted.
THEOREM Consent == Spec => []ConsentOfBoth
<1>1. Inv => ConsentOfBoth
  BY DEF Inv
<1> QED
  BY <1>1, Invariance, PTL

\* Friends have an ACTIVE thread unless its insert crossed their accept.
THEOREM FriendsHaveActive == Spec => []FriendsActive
<1>1. Inv => FriendsActive
  BY DEF Inv
<1> QED
  BY <1>1, Invariance, PTL

\* The receiver of a PENDING thread never gets a message into it.
THEOREM NoEarlyMessage == Spec => []ReceiverWaits
<1>1. Inv => ReceiverWaits
  BY DEF Inv
<1> QED
  BY <1>1, Invariance, PTL

\* The thread an accept reads back is there.
THEOREM AcceptIsAnswered == Spec => []AcceptAnswered
<1>1. Inv => AcceptAnswered
  BY DEF Inv
<1> QED
  BY <1>1, Invariance, PTL

\* No step deletes, replaces or reopens an ACTIVE thread.
THEOREM ActiveIsForever == Spec => ActiveForever
<1>1. ASSUME Inv, [Next]_vars, Exists, status = "ACTIVE"
      PROVE  tid' = tid /\ status' = "ACTIVE"
  <2> USE <1>1
  <2>1. ASSUME NEW r \in Requests, NEW u \in Users, Begin(r, u)
        PROVE  tid' = tid /\ status' = "ACTIVE"
    BY <2>1 DEF Begin, CreateFriendRequest, AcceptFriend, RejectFriend,
       CreateDirect, AcceptDirect, RejectDirect, CreateMessage, PendingFor,
       threadVars
  <2>2. ASSUME NEW r \in Requests, Continue(r)
        PROVE  tid' = tid /\ status' = "ACTIVE"
    BY <2>2 DEF Continue, CheckIncoming, UpsertRequest, AcceptFriendCommit,
       InsertActive, InsertPending, InsertThread, InsertConflict, GetThread,
       Summary, NotifyRequest, PublishAccepted, AcceptedGet, InsertMessage,
       Abort, threadVars
  <2> QED
    BY <2>1, <2>2 DEF Next, vars, threadVars
<1>2. Inv /\ [Next]_vars =>
          [Exists /\ status = "ACTIVE" => tid' = tid /\ status' = "ACTIVE"]_vars
  BY <1>1
<1> QED
  BY <1>2, Invariance, PTL DEF Spec, ActiveForever

-----------------------------------------------------------------------------
(***************************************************************************)
(* The rows implement DirectContract.                                      *)
(***************************************************************************)

\* A step that leaves the request and friends rows alone leaves the
\* friendship of the contract alone, and likewise for the thread row.
LEMMA QuietRows ==
    /\ UNCHANGED req => UNCHANGED askedBar
    /\ UNCHANGED <<tid, status, requested_by>> => UNCHANGED <<threadBar, byBar>>
  BY DEF askedBar, threadBar, byBar

\* What the thread of the contract is, case by case.
LEMMA ThreadIs ==
    /\ tid = NoThread => threadBar = "none" /\ byBar = Nobody
    /\ tid # NoThread /\ status = "PENDING" =>
           threadBar = "PENDING" /\ byBar = requested_by
    /\ tid # NoThread /\ status = "ACTIVE" => threadBar = "ACTIVE" /\ byBar = Nobody
  BY DEF threadBar, byBar

\* The same after a step.
LEMMA ThreadBecomes ==
    /\ tid' = NoThread => threadBar' = "none" /\ byBar' = Nobody
    /\ tid' # NoThread /\ status' = "PENDING" =>
           threadBar' = "PENDING" /\ byBar' = requested_by'
    /\ tid' # NoThread /\ status' = "ACTIVE" => threadBar' = "ACTIVE" /\ byBar' = Nobody
  BY DEF threadBar, byBar

\* The upsert of a friend request is Ask.
LEMMA UpsertAsks ==
    ASSUME Inv, NEW r \in Requests, UpsertRequest(r)
    PROVE  Contract!Ask(who[r])
<1>1. who[r] \in Users
  BY DEF Inv, TypeOK
<1>2. req \in [Users -> {"none", "PENDING", "ACCEPTED", "REJECTED"}]
  BY DEF Inv, TypeOK
<1>3. /\ req' = [req EXCEPT ![who[r]] = "PENDING"]
      /\ answered' = [answered EXCEPT ![who[r]] = Nobody]
      /\ UNCHANGED <<friends, tid, status, requested_by, tconsent>>
  BY DEF UpsertRequest, threadVars
<1>4. askedBar' = askedBar \cup {who[r]}
  BY <1>1, <1>2, <1>3 DEF askedBar
<1> QED
  BY <1>3, <1>4, QuietRows DEF Contract!Ask

\* A rejected friend request is Decline.
LEMMA RejectDeclines ==
    ASSUME Inv, NEW r \in Requests, NEW u \in Users, RejectFriend(r, u)
    PROVE  Contract!Decline(u, Other(u))
<1>1. req \in [Users -> {"none", "PENDING", "ACCEPTED", "REJECTED"}]
  BY DEF Inv, TypeOK
<1>2. /\ req[Other(u)] = "PENDING"
      /\ req' = [req EXCEPT ![Other(u)] = "REJECTED"]
      /\ answered' = [answered EXCEPT ![Other(u)] = u]
      /\ UNCHANGED <<friends, tid, status, requested_by, tconsent>>
  BY DEF RejectFriend, threadVars
<1>3. askedBar' = askedBar \ {Other(u)} /\ Other(u) \in askedBar
  BY <1>1, <1>2 DEF askedBar
<1> QED
  BY <1>2, <1>3, QuietRows DEF Contract!Decline, Contract!Answers

\* The commit of an accept is Befriend, or Activate or nothing when its
\* request had been accepted before.
LEMMA AcceptBefriends ==
    ASSUME Inv, NEW r \in Requests, AcceptFriendCommit(r)
    PROVE  \/ Contract!Befriend(who[r], Other(who[r]))
           \/ Contract!Activate
           \/ UNCHANGED Contract!vars
<1>1. PICK u \in Users, v \in Users : u = who[r] /\ v = Other(u) /\ u = Other(v)
  BY DEF Inv, TypeOK
<1>2. req \in [Users -> {"none", "PENDING", "ACCEPTED", "REJECTED"}]
  BY DEF Inv, TypeOK
<1>3. friends \in {{}, Users} /\ status \in {"PENDING", "ACTIVE"}
  BY DEF Inv, TypeOK
<1>4. /\ req' = [req EXCEPT ![v] = "ACCEPTED"]
      /\ friends' = Users
      /\ answered' = [answered EXCEPT ![v] = u]
      /\ UNCHANGED tconsent
  BY <1>1 DEF AcceptFriendCommit
<1>5. req[v] \in {"PENDING", "ACCEPTED"}
  BY <1>1 DEF AcceptFriendCommit, Inv, Support
<1>6. Contract!Activated \/ UNCHANGED <<threadBar, byBar>>
  <2>1. UNCHANGED <<tid, requested_by>> /\ AcceptInFlight(r)
    BY DEF AcceptFriendCommit
  <2>2. CASE Exists /\ got[r] = tid /\ status = "PENDING"
    <3>1. status' = "ACTIVE"
      BY <2>2 DEF AcceptFriendCommit
    <3> QED
      BY <2>1, <2>2, <3>1, ThreadIs, ThreadBecomes DEF Contract!Activated
  <2>3. CASE ~(Exists /\ got[r] = tid /\ status = "PENDING")
    <3>1. status' = status
      BY <1>3, <2>3 DEF AcceptFriendCommit
    <3> QED
      BY <2>1, <3>1, QuietRows
  <2> QED
    BY <2>2, <2>3
<1>7. CASE req[v] = "PENDING"
  <2>1. askedBar' = askedBar \ {v} /\ v \in askedBar
    BY <1>2, <1>4, <1>7 DEF askedBar
  <2>2. v # u
    BY <1>1
  <2>3. Contract!Befriend(u, v)
    BY <1>4, <1>6, <2>1, <2>2 DEF Contract!Befriend, Contract!Answers
  <2> QED
    BY <1>1, <2>3
<1>8. CASE req[v] = "ACCEPTED"
  <2>1. req' = req /\ friends = Users
    BY <1>2, <1>3, <1>4, <1>8 DEF Inv, Support
  <2>2. answered[v] = u /\ answered \in [Users -> Users \cup {Nobody}]
    BY <1>1, <1>8 DEF Inv, Support, TypeOK
  <2>3. UNCHANGED <<askedBar, friends, answered, tconsent>>
    BY <1>4, <2>1, <2>2, QuietRows
  <2> QED
    BY <1>6, <2>1, <2>3 DEF Contract!Activate, Contract!vars
<1> QED
  BY <1>5, <1>7, <1>8

\* Both inserts are Open.
LEMMA InsertOpens ==
    ASSUME Inv, NEW r \in Requests, InsertActive(r) \/ InsertPending(r)
    PROVE  Contract!Open(who[r])
<1>1. tid = NoThread /\ tid' # NoThread /\ UNCHANGED <<req, friends>>
  <2>1. used \in Nat
    BY DEF Inv, TypeOK
  <2> QED
    BY <2>1 DEF InsertActive, InsertPending, InsertThread, friendVars
<1>2. UNCHANGED <<askedBar, friends, answered>> /\ threadBar = "none"
  <2>1. UNCHANGED answered
    BY DEF InsertActive, InsertPending, InsertThread, friendVars
  <2> QED
    BY <1>1, <2>1, QuietRows, ThreadIs
<1>0. tconsent' = {who[r]}
  BY DEF InsertActive, InsertPending, InsertThread
<1>3. CASE InsertActive(r)
  <2>1. status' = "ACTIVE" /\ pc[r] = "insert_active"
    BY <1>3 DEF InsertActive, InsertThread
  <2>2. friends = Users
    BY <2>1 DEF Inv, TypeOK, Support
  <2> QED
    BY <1>0, <1>1, <1>2, <2>1, <2>2, ThreadBecomes DEF Contract!Open
<1>4. CASE InsertPending(r)
  <2>1. status' = "PENDING" /\ requested_by' = who[r]
    BY <1>4 DEF InsertPending, InsertThread
  <2> QED
    BY <1>0, <1>1, <1>2, <2>1, ThreadBecomes DEF Contract!Open
<1> QED
  BY <1>3, <1>4

\* An accepted thread is Accept, a rejected one Reject.
LEMMA AnswersThread ==
    ASSUME Inv, NEW r \in Requests, NEW u \in Users
    PROVE  /\ AcceptDirect(r, u) => Contract!Accept(u)
           /\ RejectDirect(r, u) => Contract!Reject(u)
<1>1. ASSUME PendingFor(u)
      PROVE  threadBar = "PENDING" /\ byBar # u /\ tid # NoThread
  BY <1>1, ThreadIs DEF PendingFor
<1>2. ASSUME AcceptDirect(r, u) PROVE Contract!Accept(u)
  <2>1. /\ PendingFor(u) /\ tid' = tid /\ status' = "ACTIVE"
        /\ tconsent' = tconsent \cup {u}
        /\ UNCHANGED <<req, friends, answered>>
    BY <1>2 DEF AcceptDirect, friendVars
  <2> QED
    BY <1>1, <2>1, QuietRows, ThreadBecomes DEF Contract!Accept,
       Contract!AnswersThread, Contract!Activated
<1>3. ASSUME RejectDirect(r, u) PROVE Contract!Reject(u)
  <2>1. /\ PendingFor(u) /\ tid' = NoThread
        /\ tconsent' = tconsent \cup {u}
        /\ UNCHANGED <<req, friends, answered>>
    BY <1>3 DEF RejectDirect, friendVars
  <2> QED
    BY <1>1, <2>1, QuietRows, ThreadBecomes DEF Contract!Reject,
       Contract!AnswersThread
<1> QED
  BY <1>2, <1>3

\* Every other step leaves the rows alone.
LEMMA OthersStutter ==
    ASSUME UNCHANGED <<friendVars, threadVars>>
    PROVE  UNCHANGED Contract!vars
  BY QuietRows DEF friendVars, threadVars, Contract!vars

\* Every step is a transition of the contract, or none.
LEMMA ContractStep == Inv /\ [Next]_vars => [Contract!Next]_(Contract!vars)
<1> SUFFICES ASSUME Inv, [Next]_vars
             PROVE  Contract!Next \/ UNCHANGED Contract!vars
  OBVIOUS
<1>1. ASSUME NEW r \in Requests, NEW u \in Users, Begin(r, u)
      PROVE  Contract!Next \/ UNCHANGED Contract!vars
  <2>1. CASE RejectFriend(r, u)
    BY <2>1, RejectDeclines DEF Contract!Next
  <2>2. CASE AcceptDirect(r, u) \/ RejectDirect(r, u)
    BY <2>2, AnswersThread DEF Contract!Next
  <2>3. CASE \/ CreateFriendRequest(r, u) \/ AcceptFriend(r, u)
             \/ CreateDirect(r, u) \/ CreateMessage(r, u)
    BY <2>3, OthersStutter DEF CreateFriendRequest, AcceptFriend, CreateDirect,
       CreateMessage
  <2> QED
    BY <1>1, <2>1, <2>2, <2>3 DEF Begin
<1>2. ASSUME NEW r \in Requests, Continue(r)
      PROVE  Contract!Next \/ UNCHANGED Contract!vars
  <2>0. who[r] \in Users /\ Other(who[r]) \in Users
    BY DEF Inv, TypeOK
  <2>1. CASE UpsertRequest(r)
    BY <2>0, <2>1, UpsertAsks DEF Contract!Next
  <2>2. CASE AcceptFriendCommit(r)
    BY <2>0, <2>2, AcceptBefriends DEF Contract!Next
  <2>3. CASE InsertActive(r) \/ InsertPending(r)
    BY <2>0, <2>3, InsertOpens DEF Contract!Next
  <2>4. CASE \/ CheckIncoming(r) \/ InsertConflict(r) \/ GetThread(r)
             \/ Summary(r) \/ NotifyRequest(r) \/ PublishAccepted(r)
             \/ AcceptedGet(r) \/ InsertMessage(r) \/ Abort(r)
    BY <2>4, OthersStutter DEF CheckIncoming, InsertConflict, GetThread, Summary,
       NotifyRequest, PublishAccepted, AcceptedGet, InsertMessage, Abort
  <2> QED
    BY <1>2, <2>1, <2>2, <2>3, <2>4 DEF Continue
<1>3. CASE UNCHANGED vars
  BY <1>3, OthersStutter DEF vars
<1> QED
  BY <1>1, <1>2, <1>3 DEF Next

\* The rows of the pair implement the contract.
THEOREM ContractHolds == Spec => ImplementsContract
<1>1. Init => Contract!Init
  BY ThreadIs DEF Init, Contract!Init, askedBar
<1> QED
  BY <1>1, ContractStep, Invariance, PTL DEF Spec, ImplementsContract, Contract!Spec

=============================================================================
