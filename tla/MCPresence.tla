----------------------------- MODULE MCPresence -----------------------------
(* Small instances of Presence for TLC.                                    *)
EXTENDS Presence, TLC

CONSTANTS c1, c2, c3, i1, i2

\* Devices spread over two instances.
TwoInstances == c1 :> i1 @@ c2 :> i2

\* Two devices on one instance, a third on another.
ThreeDevices == c1 :> i1 @@ c2 :> i1 @@ c3 :> i2

=============================================================================
