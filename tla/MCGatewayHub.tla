---------------------------- MODULE MCGatewayHub ----------------------------
(* Small instances of GatewayHub for TLC.                                  *)
EXTENDS GatewayHub, TLC

CONSTANTS c1, c2, u1, u2

\* Two connections of one user: the second is the user's other device.
OneUser == (c1 :> u1) @@ (c2 :> u1)

\* The only connection, of the first user.
OneConn == c1 :> u1

\* The two connections of one user are interchangeable.
ConnSymmetry == Permutations({c1, c2})

=============================================================================
