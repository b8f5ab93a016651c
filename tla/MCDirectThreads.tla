--------------------------- MODULE MCDirectThreads ---------------------------
(* Small instances of DirectThreads for TLC.                               *)
EXTENDS DirectThreads, TLC

CONSTANTS r1, r2, r3

\* Requests are interchangeable.
RequestSymmetry == Permutations(Requests)

=============================================================================
