------------------------ MODULE RefreshSessionsProofs ------------------------
(***************************************************************************)
(* The invariants of refresh sessions for any number of tokens and         *)
(* concurrent requests, and the proof that they implement SessionChain.    *)
(***************************************************************************)
EXTENDS RefreshSessions, TLAPS

\* The table starts empty.
LEMMA InitInv == Init => Inv
  BY TokenAssumption DEF Init, Inv, TypeOK, Rows, Locals, AtMostOneLive, SomeLive,
     Logins, LogoutFinal, RowFree

\* Inv is preserved by a login.
LEMMA LoginStep ==
    ASSUME Inv, NEW r \in Requests, NEW t \in Tokens, Login(r, t)
    PROVE  Inv'
<1> USE TokenAssumption DEF Inv, rowVars, localVars, Login, Fresh
<1>1. TypeOK'
  BY DEF TypeOK, Rows, Locals
<1>2. Rows'
  BY DEF TypeOK, Rows, Locals
<1>3. Locals'
  BY DEF TypeOK, Rows, Locals, RowFree
<1>4. AtMostOneLive'
  BY DEF TypeOK, Rows, Locals, AtMostOneLive
<1>5. SomeLive'
  BY DEF TypeOK, Rows, Locals, SomeLive, Logins, AtMostOneLive
<1>6. LogoutFinal'
  BY DEF TypeOK, Rows, Locals, LogoutFinal, RowFree
<1> QED
  BY <1>1, <1>2, <1>3, <1>4, <1>5, <1>6

\* Inv is preserved by the start of a rotation.
LEMMA RefreshStep ==
    ASSUME Inv, NEW r \in Requests, NEW t \in Tokens, NEW n \in Tokens, Refresh(r, t, n)
    PROVE  Inv'
<1> USE TokenAssumption DEF Inv, rowVars, localVars, Refresh, Fresh
<1>1. TypeOK'
  BY DEF TypeOK, Rows, Locals
<1>2. Rows'
  BY DEF TypeOK, Rows, Locals
<1>3. Locals'
  BY DEF TypeOK, Rows, Locals, RowFree
<1>4. AtMostOneLive'
  BY DEF TypeOK, Rows, Locals, AtMostOneLive
<1>5. SomeLive'
  BY DEF TypeOK, Rows, Locals, SomeLive, Logins, AtMostOneLive
<1>6. LogoutFinal'
  BY DEF TypeOK, Rows, Locals, LogoutFinal, RowFree
<1> QED
  BY <1>1, <1>2, <1>3, <1>4, <1>5, <1>6

\* Inv is preserved by the UPDATE that locks the old row.
LEMMA RevokeOldStep ==
    ASSUME Inv, NEW r \in Requests, RevokeOld(r)
    PROVE  Inv'
<1> USE TokenAssumption DEF Inv, rowVars, localVars, RevokeOld
<1>1. TypeOK'
  BY DEF TypeOK, Rows, Locals
<1>2. Rows'
  BY DEF TypeOK, Rows, Locals
<1>3. Locals'
  BY DEF TypeOK, Rows, Locals, RowFree
<1>4. AtMostOneLive'
  BY DEF TypeOK, Rows, Locals, AtMostOneLive
<1>5. SomeLive'
  BY DEF TypeOK, Rows, Locals, SomeLive, Logins, AtMostOneLive
<1>6. LogoutFinal'
  BY DEF TypeOK, Rows, Locals, LogoutFinal, RowFree
<1> QED
  BY <1>1, <1>2, <1>3, <1>4, <1>5, <1>6

\* Inv is preserved by a refused refresh.
LEMMA UnauthorizedStep ==
    ASSUME Inv, NEW r \in Requests, Unauthorized(r)
    PROVE  Inv'
<1> USE TokenAssumption DEF Inv, rowVars, localVars, Unauthorized, Return
<1>1. TypeOK'
  BY DEF TypeOK, Rows, Locals
<1>2. Rows'
  BY DEF TypeOK, Rows, Locals
<1>3. Locals'
  BY DEF TypeOK, Rows, Locals, RowFree
<1>4. AtMostOneLive'
  BY DEF TypeOK, Rows, Locals, AtMostOneLive
<1>5. SomeLive'
  BY DEF TypeOK, Rows, Locals, SomeLive, Logins, AtMostOneLive
<1>6. LogoutFinal'
  BY DEF TypeOK, Rows, Locals, LogoutFinal, RowFree
<1> QED
  BY <1>1, <1>2, <1>3, <1>4, <1>5, <1>6

\* Inv is preserved by the commit of a rotation.
LEMMA RotateCommitStep ==
    ASSUME Inv, NEW r \in Requests, RotateCommit(r)
    PROVE  Inv'
<1> USE TokenAssumption DEF Inv, rowVars, localVars, RotateCommit
<1>1. TypeOK'
  BY DEF TypeOK, Rows, Locals
<1>2. Rows'
  BY DEF TypeOK, Rows, Locals
<1>3. Locals'
  BY DEF TypeOK, Rows, Locals, RowFree
<1>4. AtMostOneLive'
  BY DEF TypeOK, Rows, Locals, AtMostOneLive
<1>5. SomeLive'
  BY DEF TypeOK, Rows, Locals, SomeLive, Logins, AtMostOneLive
<1>6. LogoutFinal'
  BY DEF TypeOK, Rows, Locals, LogoutFinal, RowFree
<1> QED
  BY <1>1, <1>2, <1>3, <1>4, <1>5, <1>6

\* Inv is preserved by an answer.
LEMMA AnswerStep ==
    ASSUME Inv, NEW r \in Requests, Answer(r)
    PROVE  Inv'
<1> USE TokenAssumption DEF Inv, rowVars, localVars, Answer, Return
<1>1. TypeOK'
  BY DEF TypeOK, Rows, Locals
<1>2. Rows'
  BY DEF TypeOK, Rows, Locals
<1>3. Locals'
  BY DEF TypeOK, Rows, Locals, RowFree
<1>4. AtMostOneLive'
  BY DEF TypeOK, Rows, Locals, AtMostOneLive
<1>5. SomeLive'
  BY DEF TypeOK, Rows, Locals, SomeLive, Logins, AtMostOneLive
<1>6. LogoutFinal'
  BY DEF TypeOK, Rows, Locals, LogoutFinal, RowFree
<1> QED
  BY <1>1, <1>2, <1>3, <1>4, <1>5, <1>6

\* Inv is preserved by an aborted request.
LEMMA AbortStep ==
    ASSUME Inv, NEW r \in Requests, Abort(r)
    PROVE  Inv'
<1> USE TokenAssumption DEF Inv, rowVars, localVars, Abort, Return
<1>1. TypeOK'
  BY DEF TypeOK, Rows, Locals
<1>2. Rows'
  BY DEF TypeOK, Rows, Locals
<1>3. Locals'
  BY DEF TypeOK, Rows, Locals, RowFree
<1>4. AtMostOneLive'
  BY DEF TypeOK, Rows, Locals, AtMostOneLive
<1>5. SomeLive'
  BY DEF TypeOK, Rows, Locals, SomeLive, Logins, AtMostOneLive
<1>6. LogoutFinal'
  BY DEF TypeOK, Rows, Locals, LogoutFinal, RowFree
<1> QED
  BY <1>1, <1>2, <1>3, <1>4, <1>5, <1>6

\* Inv is preserved by a logout.
LEMMA LogoutStep ==
    ASSUME Inv, NEW r \in Requests, NEW t \in Tokens, Logout(r, t)
    PROVE  Inv'
<1> USE TokenAssumption DEF Inv, rowVars, localVars, Logout
<1>1. TypeOK'
  BY DEF TypeOK, Rows, Locals
<1>2. Rows'
  BY DEF TypeOK, Rows, Locals
<1>3. Locals'
  BY DEF TypeOK, Rows, Locals, RowFree
<1>4. AtMostOneLive'
  BY DEF TypeOK, Rows, Locals, AtMostOneLive
<1>5. SomeLive'
  BY DEF TypeOK, Rows, Locals, SomeLive, Logins, AtMostOneLive
<1>6. LogoutFinal'
  BY DEF TypeOK, Rows, Locals, LogoutFinal, RowFree
<1> QED
  BY <1>1, <1>2, <1>3, <1>4, <1>5, <1>6

\* Inv is preserved by time.
LEMMA ExpireStep ==
    ASSUME Inv, NEW t \in Tokens, Expire(t)
    PROVE  Inv'
<1> USE TokenAssumption DEF Inv, rowVars, localVars, Expire
<1>1. TypeOK'
  BY DEF TypeOK, Rows, Locals
<1>2. Rows'
  BY DEF TypeOK, Rows, Locals
<1>3. Locals'
  BY DEF TypeOK, Rows, Locals, RowFree
<1>4. AtMostOneLive'
  BY DEF TypeOK, Rows, Locals, AtMostOneLive
<1>5. SomeLive'
  BY DEF TypeOK, Rows, Locals, SomeLive, Logins, AtMostOneLive
<1>6. LogoutFinal'
  BY DEF TypeOK, Rows, Locals, LogoutFinal, RowFree
<1> QED
  BY <1>1, <1>2, <1>3, <1>4, <1>5, <1>6

\* Every step preserves Inv.
LEMMA NextInv == Inv /\ [Next]_vars => Inv'
<1> SUFFICES ASSUME Inv, [Next]_vars PROVE Inv'
  OBVIOUS
<1>1. CASE \E r \in Requests, t \in Tokens : Login(r, t)
  BY <1>1, LoginStep
<1>2. CASE \E r \in Requests, t \in Tokens : Logout(r, t)
  BY <1>2, LogoutStep
<1>3. CASE \E r \in Requests, t, n \in Tokens : Refresh(r, t, n)
  BY <1>3, RefreshStep
<1>4. CASE \E t \in Tokens : Expire(t)
  BY <1>4, ExpireStep
<1>5. CASE \E r \in Requests : RevokeOld(r)
  BY <1>5, RevokeOldStep
<1>6. CASE \E r \in Requests : Unauthorized(r)
  BY <1>6, UnauthorizedStep
<1>7. CASE \E r \in Requests : RotateCommit(r)
  BY <1>7, RotateCommitStep
<1>8. CASE \E r \in Requests : Answer(r)
  BY <1>8, AnswerStep
<1>9. CASE \E r \in Requests : Abort(r)
  BY <1>9, AbortStep
<1>10. CASE UNCHANGED vars
  BY <1>10 DEF vars, rowVars, localVars, Inv, TypeOK, Rows, Locals, AtMostOneLive,
     SomeLive, Logins, LogoutFinal, RowFree
<1> QED
  BY <1>1, <1>2, <1>3, <1>4, <1>5, <1>6, <1>7, <1>8, <1>9, <1>10 DEF Next, Step

\* The inductive invariant holds in every reachable state.
THEOREM Invariance == Spec => []Inv
  BY InitInv, NextInv, PTL DEF Spec

\* A login has exactly one row that is not revoked, until it is logged out
\* (rotate_refresh_session, revoke_by_refresh_hash).
THEOREM SingleHead == Spec => []OneHead
<1>1. Inv => OneHead
  <2> SUFFICES ASSUME Inv, NEW l \in Logins
               PROVE  \/ \E t \in Tokens : LiveOf(l) = {t}
                      \/ LiveOf(l) = {} /\ \E t \in loggedOut : root[t] = l
    BY DEF OneHead
  <2>1. CASE \E t \in Tokens : row[t] = "live" /\ root[t] = l
    <3>1. PICK t \in Tokens : row[t] = "live" /\ root[t] = l
      BY <2>1
    <3>2. LiveOf(l) = {t}
      BY <3>1 DEF LiveOf, Inv, AtMostOneLive
    <3> QED
      BY <3>2
  <2>2. CASE ~ \E t \in Tokens : row[t] = "live" /\ root[t] = l
    BY <2>2 DEF LiveOf, Inv, SomeLive
  <2> QED
    BY <2>1, <2>2
<1> QED
  BY <1>1, Invariance, PTL

\* A token a logout has answered for is revoked and cannot be rotated any
\* more (revoke_by_refresh_hash racing rotate_refresh_session).
THEOREM LogoutIsFinal == Spec => []LogoutFinal
  BY Invariance, PTL DEF Inv

\* A revoked row stays revoked, and a row that is not a login's first takes
\* the place of the live row of its login.
THEOREM NoReuse == Spec => ExchangedOnce
<1> DEFINE Once ==
       \A t \in Tokens :
          /\ row[t] = "revoked" => row'[t] = "revoked"
          /\ row[t] = "none" /\ row'[t] = "live" /\ root'[t] # t =>
                \E o \in Tokens : /\ row[o] = "live" /\ root[o] = root'[t]
                                  /\ row'[o] = "revoked"
<1>1. Inv /\ [Next]_vars => [Once]_vars
  <2> SUFFICES ASSUME Inv, Next PROVE Once
    OBVIOUS
  <2> USE DEF Inv, TypeOK, Rows, Locals, rowVars, localVars
  <2>1. CASE \E r \in Requests, t \in Tokens : Login(r, t)
    BY <2>1, TokenAssumption DEF Login, Fresh
  <2>2. CASE \E r \in Requests, t \in Tokens : Logout(r, t)
    BY <2>2, TokenAssumption DEF Logout
  <2>3. CASE \E r \in Requests, t, n \in Tokens : Refresh(r, t, n)
    BY <2>3, TokenAssumption DEF Refresh, Fresh
  <2>4. CASE \E t \in Tokens : Expire(t)
    BY <2>4, TokenAssumption DEF Expire
  <2>5. CASE \E r \in Requests : RevokeOld(r)
    BY <2>5, TokenAssumption DEF RevokeOld
  <2>6. CASE \E r \in Requests : Unauthorized(r)
    BY <2>6, TokenAssumption DEF Unauthorized, Return
  <2>7. CASE \E r \in Requests : RotateCommit(r)
    BY <2>7, TokenAssumption DEF RotateCommit
  <2>8. CASE \E r \in Requests : Answer(r)
    BY <2>8, TokenAssumption DEF Answer, Return
  <2>9. CASE \E r \in Requests : Abort(r)
    BY <2>9, TokenAssumption DEF Abort, Return
  <2> QED
    BY <2>1, <2>2, <2>3, <2>4, <2>5, <2>6, <2>7, <2>8, <2>9 DEF Next, Step
<1> QED
  BY <1>1, Invariance, PTL DEF Spec, ExchangedOnce

-----------------------------------------------------------------------------
(* Refinement.                                                             *)

\* TheOne of a singleton and of the empty set.
LEMMA TheOneOf ==
    /\ \A t \in Tokens : TheOne({t}) = t
    /\ TheOne({}) = NoToken
  BY DEF TheOne

\* The row that is live is the head, in every state of Inv.
LEMMA HeadOfRow ==
    ASSUME Inv, NEW t \in Tokens, row[t] = "live"
    PROVE  /\ root[t] \in Tokens
           /\ LiveOf(root[t]) = {t}
           /\ headBar[root[t]] = t
<1>1. root[t] \in Tokens /\ LiveOf(root[t]) = {t}
  BY DEF Inv, TypeOK, AtMostOneLive, LiveOf
<1> QED
  BY <1>1, TheOneOf DEF headBar

\* A step that changes neither the rows nor their descent is a stutter.
LEMMA Stutter ==
    ASSUME UNCHANGED <<row, root>>
    PROVE  UNCHANGED <<headBar, issuedBar>>
  BY DEF headBar, issuedBar, LiveOf

\* A login starts a chain.
LEMMA LoginMaps ==
    ASSUME Inv, NEW r \in Requests, NEW t \in Tokens, Login(r, t)
    PROVE  Chain!Login(t)
<1>1. t \notin issuedBar /\ issuedBar' = issuedBar \cup {t}
  BY DEF Login, Fresh, issuedBar, Inv, TypeOK
<1>2. LiveOf(t)' = {t}
  BY DEF Login, Fresh, LiveOf, Inv, TypeOK, Rows
<1>3. ASSUME NEW l \in Tokens, l # t PROVE LiveOf(l)' = LiveOf(l)
  BY <1>3 DEF Login, Fresh, LiveOf, Inv, TypeOK, Rows
<1>4. headBar' = [headBar EXCEPT ![t] = t]
  BY <1>2, <1>3, TheOneOf DEF headBar
<1> QED
  BY <1>1, <1>4 DEF Chain!Login

\* A committed rotation exchanges the head.
LEMMA RotateMaps ==
    ASSUME Inv, NEW r \in Requests, RotateCommit(r)
    PROVE  Chain!Exchange(root[old[r]], new[r])
<1>1. PICK l, n \in Tokens :
        /\ l = root[old[r]] /\ n = new[r]
        /\ old[r] \in Tokens
        /\ row[old[r]] = "live" /\ row[n] = "none"
        /\ root[n] = NoToken
  BY TokenAssumption DEF RotateCommit, Inv, TypeOK, Rows, Locals
<1>2. n \notin issuedBar /\ issuedBar' = issuedBar \cup {n}
  BY <1>1 DEF RotateCommit, issuedBar, Inv, TypeOK
<1>3. headBar[l] # NoToken
  BY <1>1, HeadOfRow, TokenAssumption
<1>4. LiveOf(l)' = {n}
  BY <1>1 DEF RotateCommit, LiveOf, Inv, TypeOK, AtMostOneLive
<1>5. ASSUME NEW k \in Tokens, k # l PROVE LiveOf(k)' = LiveOf(k)
  BY <1>1, <1>5, TokenAssumption DEF RotateCommit, LiveOf, Inv, TypeOK
<1>6. headBar' = [headBar EXCEPT ![l] = n]
  BY <1>1, <1>4, <1>5, TheOneOf DEF headBar
<1> QED
  BY <1>1, <1>2, <1>3, <1>6 DEF Chain!Exchange

\* A logout ends the chain of a live row and changes nothing otherwise.
LEMMA LogoutMaps ==
    ASSUME Inv, NEW r \in Requests, NEW t \in Tokens, Logout(r, t)
    PROVE  Chain!End(root[t]) \/ UNCHANGED <<headBar, issuedBar>>
<1>1. row[t] # "none"
  BY DEF Logout, Inv, Rows
<1>2. CASE row[t] = "revoked"
  <2>1. UNCHANGED <<row, root>>
    BY <1>2 DEF Logout, Inv, TypeOK
  <2> QED
    BY <2>1, Stutter
<1>3. CASE row[t] = "live"
  <2>1. PICK l \in Tokens :
           l = root[t] /\ LiveOf(l) = {t} /\ headBar[l] # NoToken
    BY <1>3, HeadOfRow, TokenAssumption
  <2>2. LiveOf(l)' = {}
    BY <1>3, <2>1 DEF Logout, LiveOf, Inv, TypeOK, AtMostOneLive
  <2>3. ASSUME NEW k \in Tokens, k # l PROVE LiveOf(k)' = LiveOf(k)
    BY <2>1, <2>3 DEF Logout, LiveOf, Inv, TypeOK
  <2>4. headBar' = [headBar EXCEPT ![l] = NoToken]
    BY <2>1, <2>2, <2>3, TheOneOf DEF headBar
  <2>5. UNCHANGED issuedBar
    BY <1>1 DEF Logout, issuedBar, Inv, TypeOK
  <2> QED
    BY <2>1, <2>4, <2>5 DEF Chain!End
<1> QED
  BY <1>1, <1>2, <1>3 DEF Inv, TypeOK

\* The tables of user_sessions keep the promise of SessionChain, for any
\* number of tokens and concurrent requests.
THEOREM Refinement == Spec => ImplementsChain
<1>1. Init => Chain!Init
  BY TheOneOf DEF Init, Chain!Init, headBar, issuedBar, LiveOf
<1>2. Inv /\ [Next]_vars => [Chain!Next]_(Chain!chainVars)
  <2> SUFFICES ASSUME Inv, [Next]_vars
               PROVE  Chain!Next \/ UNCHANGED <<headBar, issuedBar>>
    BY DEF Chain!chainVars
  <2>1. CASE \E r \in Requests, t \in Tokens : Login(r, t)
    BY <2>1, LoginMaps DEF Chain!Next
  <2>2. CASE \E r \in Requests : RotateCommit(r)
    <3>1. PICK r \in Requests : RotateCommit(r)
      BY <2>2
    <3>2. old[r] \in Tokens /\ new[r] \in Tokens /\ row[old[r]] = "live"
      BY <3>1 DEF RotateCommit, Inv, Locals
    <3>3. root[old[r]] \in Tokens
      BY <3>2, HeadOfRow
    <3> QED
      BY <3>1, <3>2, <3>3, RotateMaps DEF Chain!Next
  <2>3. CASE \E r \in Requests, t \in Tokens : Logout(r, t)
    <3>1. PICK r \in Requests, t \in Tokens : Logout(r, t)
      BY <2>3
    <3>2. root[t] \in Tokens
      BY <3>1, TokenAssumption DEF Logout, Inv, TypeOK, Rows
    <3> QED
      BY <3>1, <3>2, LogoutMaps DEF Chain!Next
  <2>4. CASE \/ \E r \in Requests : RevokeOld(r) \/ Unauthorized(r) \/ Answer(r) \/ Abort(r)
             \/ \E r \in Requests, t, n \in Tokens : Refresh(r, t, n)
             \/ \E t \in Tokens : Expire(t)
             \/ UNCHANGED vars
    <3>1. UNCHANGED <<row, root>>
      BY <2>4 DEF RevokeOld, Unauthorized, Answer, Abort, Refresh, Expire, rowVars, vars
    <3> QED
      BY <3>1, Stutter
  <2> QED
    BY <2>1, <2>2, <2>3, <2>4 DEF Next, Step
<1> QED
  BY <1>1, <1>2, Invariance, PTL DEF Spec, ImplementsChain, Chain!Spec

=============================================================================
