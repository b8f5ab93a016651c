--------------------------- MODULE DirectContract ---------------------------
(***************************************************************************)
(* What a pair of users may rely on, each transition at one instant: they  *)
(* become friends when one accepts a request of the other that stands at   *)
(* that moment; a thread is opened for the other to answer, unless they    *)
(* are friends; only the one who was asked answers it (answered and party  *)
(* make the actor of an answer visible); it becomes ACTIVE by that answer  *)
(* or by the friendship, and stays so.                                     *)
(* DirectThreads implements this specification.                            *)
(***************************************************************************)
CONSTANTS Users, Nobody

VARIABLES
    asked,     \* users whose friend request stands
    friends,   \* Users once they are friends, else {}
    thread,    \* none, PENDING or ACTIVE
    by,        \* who waits for the other to answer the thread, or Nobody
    answered,  \* u -> who answered the last friend request of u, or Nobody
    party      \* who opened or answered the last thread

vars == <<asked, friends, thread, by, answered, party>>

Init ==
    /\ asked = {}
    /\ friends = {}
    /\ thread = "none"
    /\ by = Nobody
    /\ answered = [u \in Users |-> Nobody]
    /\ party = {}

Ask(u) ==
    /\ asked' = asked \cup {u}
    /\ answered' = [answered EXCEPT ![u] = Nobody]
    /\ UNCHANGED <<friends, thread, by, party>>

\* The request of u stands and v, the other user, answers it.
Answers(v, u) ==
    /\ u \in asked
    /\ v # u
    /\ asked' = asked \ {u}
    /\ answered' = [answered EXCEPT ![u] = v]

Decline(v, u) ==
    /\ Answers(v, u)
    /\ UNCHANGED <<friends, thread, by, party>>

Activated == thread = "PENDING" /\ thread' = "ACTIVE" /\ by' = Nobody

Befriend(v, u) ==
    /\ Answers(v, u)
    /\ friends' = Users
    /\ Activated \/ UNCHANGED <<thread, by>>
    /\ UNCHANGED party

\* A friendship brings the thread with it.
Activate ==
    /\ friends = Users
    /\ Activated
    /\ UNCHANGED <<asked, friends, answered, party>>

Open(u) ==
    /\ thread = "none"
    /\ \/ thread' = "PENDING" /\ by' = u
       \/ friends = Users /\ thread' = "ACTIVE" /\ by' = Nobody
    /\ party' = {u}
    /\ UNCHANGED <<asked, friends, answered>>

\* The thread is answered by u, who did not open it.
AnswersThread(u) ==
    /\ thread = "PENDING"
    /\ by # u
    /\ party' = party \cup {u}
    /\ UNCHANGED <<asked, friends, answered>>

Accept(u) ==
    /\ AnswersThread(u)
    /\ Activated

Reject(u) ==
    /\ AnswersThread(u)
    /\ thread' = "none" /\ by' = Nobody

Next ==
    \/ \E u \in Users : Ask(u) \/ Open(u) \/ Accept(u) \/ Reject(u)
    \/ \E u, v \in Users : Decline(v, u) \/ Befriend(v, u)
    \/ Activate

Spec == Init /\ [][Next]_vars
=============================================================================
