------------------------------- MODULE MCFanout -------------------------------
(* Small instances of Fanout for TLC.                                      *)
EXTENDS Fanout, TLC

CONSTANTS a, b, e1, e2

\* A presence update and an acceptance: different topics, common recipients.
MixedKinds == (e1 :> "presence") @@ (e2 :> "accepted")

\* Instances are interchangeable: the presence update is published by a.
SpreadEvents == {o \in [Events -> Instances] : o[e1] = a}

=============================================================================
