----------------------------- MODULE SessionChain -----------------------------
(***************************************************************************)
(* What refresh sessions promise a client: every login has at most one     *)
(* refresh token that works, a refresh exchanges it for a token never      *)
(* issued before, and a login whose token was given up never works again.  *)
(* RefreshSessions implements this specification.                          *)
(***************************************************************************)
CONSTANTS
    Tokens,    \* refresh tokens; the first of a login names the login
    NoToken

VARIABLES
    head,      \* login -> its working token, or NoToken
    issued     \* tokens ever given out

chainVars == <<head, issued>>

Init ==
    /\ head = [l \in Tokens |-> NoToken]
    /\ issued = {}

Login(t) ==
    /\ t \notin issued
    /\ head' = [head EXCEPT ![t] = t]
    /\ issued' = issued \cup {t}

Exchange(l, t) ==
    /\ head[l] # NoToken
    /\ t \notin issued
    /\ head' = [head EXCEPT ![l] = t]
    /\ issued' = issued \cup {t}

End(l) ==
    /\ head[l] # NoToken
    /\ head' = [head EXCEPT ![l] = NoToken]
    /\ UNCHANGED issued

Next ==
    \/ \E t \in Tokens : Login(t)
    \/ \E l, t \in Tokens : Exchange(l, t)
    \/ \E l \in Tokens : End(l)

Spec == Init /\ [][Next]_chainVars

=============================================================================
