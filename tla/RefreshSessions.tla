--------------------------- MODULE RefreshSessions ---------------------------
(***************************************************************************)
(* Refresh tokens: login, rotation and logout of the table user_sessions   *)
(* by concurrent HTTP requests (use_cases/auth.rs, auth_repository.rs).    *)
(*                                                                         *)
(* A row is named by its token (refresh_token_hash is UNIQUE).  Rotation   *)
(* is one READ COMMITTED transaction: its UPDATE locks the row of the old  *)
(* token, a later UPDATE of that row waits for the lock and evaluates its  *)
(* WHERE clause again on what was committed.                               *)
(***************************************************************************)
CONSTANTS
    Tokens,     \* refresh tokens (256 random bits: never generated twice)
    NoToken,
    Requests    \* HTTP requests in flight at the same time

ASSUME TokenAssumption == NoToken \notin Tokens

VARIABLES
    row,        \* token -> "none", "live" (revoked_at IS NULL) or "revoked"
    expired,    \* tokens with expires_at <= NOW()
    root,       \* history: the login a row descends from (with its user_id)
    pc,         \* where each request is
    old,        \* refresh: the token presented
    new,        \* the token generated for the answer
    known,      \* tokens some client has received
    loggedOut   \* history: tokens a logout has answered for

rowVars   == <<row, expired, root>>
localVars == <<pc, old, new>>
vars == <<rowVars, localVars, known, loggedOut>>

(***************************************************************************)
(* Type invariant; every row descends from a login.                        *)
(***************************************************************************)
TypeOK ==
    /\ row \in [Tokens -> {"none", "live", "revoked"}]
    /\ expired \subseteq Tokens
    /\ root \in [Tokens -> Tokens \cup {NoToken}]
    /\ \A t \in Tokens : row[t] # "none" => root[t] \in Tokens
    /\ pc \in [Requests -> {"idle", "begun", "late", "rotating", "answer"}]
    /\ old \in [Requests -> Tokens \cup {NoToken}]
    /\ new \in [Requests -> Tokens \cup {NoToken}]
    /\ known \subseteq Tokens
    /\ loggedOut \subseteq Tokens

Init ==
    /\ row = [t \in Tokens |-> "none"]
    /\ expired = {}
    /\ root = [t \in Tokens |-> NoToken]
    /\ pc = [r \in Requests |-> "idle"]
    /\ old = [r \in Requests |-> NoToken]
    /\ new = [r \in Requests |-> NoToken]
    /\ known = {}
    /\ loggedOut = {}

\* generate_refresh_token: a token nobody has seen.
Fresh(t) == row[t] = "none" /\ \A r \in Requests : new[r] # t

\* Mutant: a SELECT decides, the UPDATE does not look again.
MutRowFree(t) == TRUE

\* No transaction has updated the row of t and not committed yet.
RowFree(t) == \A r \in Requests : pc[r] = "rotating" => old[r] # t

Return(r) ==
    /\ pc' = [pc EXCEPT ![r] = "idle"]
    /\ old' = [old EXCEPT ![r] = NoToken]
    /\ new' = [new EXCEPT ![r] = NoToken]

-----------------------------------------------------------------------------
\* login: the credentials are right; create_session is one INSERT.
Login(r, t) ==
    /\ pc[r] = "idle"
    /\ Fresh(t)
    /\ row' = [row EXCEPT ![t] = "live"]
    /\ root' = [root EXCEPT ![t] = t]
    /\ pc' = [pc EXCEPT ![r] = "answer"]
    /\ new' = [new EXCEPT ![r] = t]
    /\ UNCHANGED <<expired, old, known, loggedOut>>

\* refresh: the new token is generated and the transaction begins.  NOW() is
\* the time of this step for the whole transaction.
Refresh(r, t, n) ==
    /\ pc[r] = "idle"
    /\ t \in known
    /\ Fresh(n)
    /\ pc' = [pc EXCEPT ![r] = IF t \in expired THEN "late" ELSE "begun"]
    /\ old' = [old EXCEPT ![r] = t]
    /\ new' = [new EXCEPT ![r] = n]
    /\ UNCHANGED <<rowVars, known, loggedOut>>

\* Mutant: the UPDATE is not part of the transaction.
MutRevokeOld(r) ==
    /\ pc[r] = "begun"
    /\ RowFree(old[r])
    /\ row[old[r]] = "live"
    /\ pc' = [pc EXCEPT ![r] = "rotating"]
    /\ row' = [row EXCEPT ![old[r]] = "revoked"]
    /\ UNCHANGED <<expired, root, old, new, known, loggedOut>>

\* revoke_old_refresh_token finds the row live and unexpired, and locks it.
RevokeOld(r) ==
    /\ pc[r] = "begun"
    /\ RowFree(old[r])
    /\ row[old[r]] = "live"
    /\ pc' = [pc EXCEPT ![r] = "rotating"]
    /\ UNCHANGED <<rowVars, old, new, known, loggedOut>>

\* ... or finds no such row: "invalid refresh token", rollback.
Unauthorized(r) ==
    /\ \/ pc[r] = "late"
       \/ pc[r] = "begun" /\ row[old[r]] = "revoked"
    /\ Return(r)
    /\ UNCHANGED <<rowVars, known, loggedOut>>

\* insert_rotated_session and commit.
RotateCommit(r) ==
    /\ pc[r] = "rotating"
    /\ row' = [row EXCEPT ![old[r]] = "revoked", ![new[r]] = "live"]
    /\ root' = [root EXCEPT ![new[r]] = root[old[r]]]
    /\ pc' = [pc EXCEPT ![r] = "answer"]
    /\ UNCHANGED <<expired, old, new, known, loggedOut>>

\* The token pair reaches the client.
Answer(r) ==
    /\ pc[r] = "answer"
    /\ known' = known \cup {new[r]}
    /\ Return(r)
    /\ UNCHANGED <<rowVars, loggedOut>>

\* The request ends without an answer (database error, client gone, process
\* stopped): an open transaction rolls back, a committed one stays.
Abort(r) ==
    /\ pc[r] # "idle"
    /\ Return(r)
    /\ UNCHANGED <<rowVars, known, loggedOut>>

\* Mutant: revokes without waiting for the row's lock.
MutLogout(r, t) ==
    /\ pc[r] = "idle"
    /\ t \in known
    /\ row' = [row EXCEPT ![t] = "revoked"]
    /\ loggedOut' = loggedOut \cup {t}
    /\ UNCHANGED <<expired, root, localVars, known>>

\* logout: revoke_by_refresh_hash is one UPDATE; it succeeds also when no
\* row is left to revoke.
Logout(r, t) ==
    /\ pc[r] = "idle"
    /\ t \in known
    /\ RowFree(t)
    /\ row' = [row EXCEPT ![t] = "revoked"]
    /\ loggedOut' = loggedOut \cup {t}
    /\ UNCHANGED <<expired, root, localVars, known>>

\* Thirty days pass.
Expire(t) ==
    /\ row[t] # "none"
    /\ t \notin expired
    /\ expired' = expired \cup {t}
    /\ UNCHANGED <<row, root, localVars, known, loggedOut>>

Step(r) ==
    \/ RevokeOld(r)
    \/ Unauthorized(r)
    \/ RotateCommit(r)
    \/ Answer(r)
    \/ Abort(r)

Next ==
    \/ \E r \in Requests : Step(r)
    \/ \E r \in Requests, t \in Tokens : Login(r, t) \/ Logout(r, t)
    \/ \E r \in Requests, t, n \in Tokens : Refresh(r, t, n)
    \/ \E t \in Tokens : Expire(t)

Spec == Init /\ [][Next]_vars

-----------------------------------------------------------------------------
LiveOf(l) == {t \in Tokens : row[t] = "live" /\ root[t] = l}

Logins == {l \in Tokens : root[l] = l}

(***************************************************************************)
(* Rotation neither forks nor loses a login: whatever refreshes, retries,  *)
(* logouts and aborts overlap, a login has exactly one row that is not     *)
(* revoked, until a logout revoked it; then it has none, and the last      *)
(* token of the login is one that was logged out.                          *)
(***************************************************************************)
OneHead ==
    \A l \in Logins :
        \/ \E t \in Tokens : LiveOf(l) = {t}
        \/ LiveOf(l) = {} /\ \E t \in loggedOut : root[t] = l

(***************************************************************************)
(* A logout is final for its token: once it has answered, the token is     *)
(* revoked and no rotation still in flight can turn it into a new session. *)
(***************************************************************************)
LogoutFinal ==
    \A t \in loggedOut : row[t] = "revoked" /\ RowFree(t)

(***************************************************************************)
(* A refresh token is exchanged at most once: a row that is revoked stays  *)
(* revoked, and a new row only appears in a login whose head it replaces.  *)
(***************************************************************************)
ExchangedOnce ==
    [][\A t \in Tokens :
          /\ row[t] = "revoked" => row'[t] = "revoked"
          /\ row[t] = "none" /\ row'[t] = "live" /\ root'[t] # t =>
                \E o \in Tokens : /\ row[o] = "live" /\ root[o] = root'[t]
                                  /\ row'[o] = "revoked"]_vars

-----------------------------------------------------------------------------
(* The inductive invariant.  A row descends from a login that has a row;   *)
(* requests hold tokens of the right kind and never share a new one; the   *)
(* lock of a rotation keeps the old row live and is held once; the live    *)
(* rows of a login are as OneHead says.                                    *)
Rows ==
    /\ \A t \in Tokens : row[t] # "none" <=> root[t] # NoToken
    /\ \A t \in Tokens : root[t] # NoToken => root[root[t]] = root[t]
    /\ \A t \in known : row[t] # "none"

Locals ==
    /\ \A r \in Requests :
           /\ pc[r] \in {"begun", "late", "rotating"} =>
                  /\ old[r] \in Tokens /\ row[old[r]] # "none"
                  /\ new[r] \in Tokens /\ row[new[r]] = "none"
           /\ pc[r] = "rotating" => row[old[r]] = "live"
           /\ pc[r] = "answer" => new[r] \in Tokens /\ row[new[r]] # "none"
    /\ \A r, q \in Requests :
           /\ r # q /\ new[r] = new[q] => new[r] = NoToken
           /\ r # q /\ pc[r] = "rotating" /\ pc[q] = "rotating" => old[r] # old[q]

AtMostOneLive ==
    \A t, u \in Tokens :
        row[t] = "live" /\ row[u] = "live" /\ root[t] = root[u] => t = u

SomeLive ==
    \A l \in Logins :
        \/ \E t \in Tokens : row[t] = "live" /\ root[t] = l
        \/ \E t \in loggedOut : root[t] = l

Inv == TypeOK /\ Rows /\ Locals /\ AtMostOneLive /\ SomeLive /\ LogoutFinal

-----------------------------------------------------------------------------
(* Refinement: the working token of a login is its row that is not revoked. *)
TheOne(S) == IF S = {} THEN NoToken ELSE CHOOSE t \in Tokens : t \in S

headBar == [l \in Tokens |-> TheOne(LiveOf(l))]

issuedBar == {t \in Tokens : row[t] # "none"}

Chain == INSTANCE SessionChain WITH head <- headBar, issued <- issuedBar

(***************************************************************************)
(* The table implements the promise of SessionChain.                       *)
(***************************************************************************)
ImplementsChain == Chain!Spec

=============================================================================
