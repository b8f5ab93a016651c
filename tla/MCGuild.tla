------------------------------- MODULE MCGuild -------------------------------
(* Small instances of Guild for TLC.                                       *)
EXTENDS Guild, TLC

CONSTANTS u1, u2, u3, r1, r2, r3, n1, n2, n3, k1, k2

\* Users, requests, names and invites are interchangeable.
GuildSymmetry == Permutations(Users) \cup Permutations(Requests)
                 \cup Permutations(Names) \cup Permutations(Invites)

=============================================================================
