---------------------------- MODULE LegacyStoreMC ----------------------------
(* Instances of LegacyStore for TLC. *)
EXTENDS LegacyStore, TLC

CONSTANTS p1, p2, e1, e2, ops1, ops2, u1

Body(e, r, n) == [event |-> e, policyRef |-> r, unhashed |-> u1, bytes |-> n]

\* Records of two policies, one without a policy reference, and a long one.
TwoPolicies ==
    {Body(e1, ops1, 3), Body(e2, ops2, 3), Body(e2, NoPolicy, 3), Body(e2, ops1, 4)}

Symmetry == Permutations({p1, p2})
=============================================================================
