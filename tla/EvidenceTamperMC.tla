-------------------------- MODULE EvidenceTamperMC --------------------------
(* Instances of EvidenceTamper for TLC. *)
EXTENDS EvidenceTamperInv

CONSTANTS p1, e1, e2, ops1, u1, u2

Body(e, u) == [event |-> e, policyRef |-> ops1, unhashed |-> u, bytes |-> 2]

\* Two events, and one of them with other values in its unhashed fields.
ThreeBodies == {Body(e1, u1), Body(e2, u1), Body(e1, u2)}
=============================================================================
