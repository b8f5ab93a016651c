--------------------------- MODULE MCGroupThreads ---------------------------
(***************************************************************************)
(* Instances of GroupThreads for TLC; users, invites and requests are      *)
(* interchangeable.                                                        *)
(***************************************************************************)
EXTENDS GroupThreads, TLC

CONSTANTS u1, u2, u3, k1, k2, r1, r2, r3

Symmetry ==
    Permutations(Users) \cup Permutations(Invites) \cup Permutations(Requests)
=============================================================================
