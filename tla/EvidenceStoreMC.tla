--------------------------- MODULE EvidenceStoreMC ---------------------------
(* Instances of EvidenceStore for TLC. *)
EXTENDS EvidenceStoreInv, TLC

CONSTANTS p1, p2, e1, e2, ops1, u1

Body(e, r, n) == [event |-> e, policyRef |-> r, unhashed |-> u1, bytes |-> n]

\* A short record and an overlong one without a policy reference: with
\* SegmentMaxBytes = 3, one short record stays below the limit, any two
\* records or an overlong one pass it; with MaxLine = 3, no reader gets past
\* the overlong one.
TwoSizes == {Body(e1, ops1, 2), Body(e2, NoPolicy, 4)}

OneSize == {Body(e1, ops1, 2)}

Symmetry == Permutations({p1, p2})
=============================================================================
