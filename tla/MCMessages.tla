----------------------------- MODULE MCMessages -----------------------------
(***************************************************************************)
(* Instances of ThreadMessages for TLC.  Ids are numbers because they are  *)
(* ordered; requests are interchangeable.                                  *)
(***************************************************************************)
EXTENDS ThreadMessages, TLC

CONSTANTS u1, u2, c1, c2, r1, r2, r3

Symmetry == Permutations(Requests) \cup Permutations(Contents)
=============================================================================
