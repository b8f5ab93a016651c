-------------------------- MODULE MCRefreshSessions --------------------------
(* Small instances of RefreshSessions for TLC.                             *)
EXTENDS RefreshSessions, TLC

CONSTANTS t1, t2, t3, t4, r1, r2, r3

\* Tokens and requests are interchangeable.
SessionSymmetry == Permutations(Tokens) \cup Permutations(Requests)

=============================================================================
