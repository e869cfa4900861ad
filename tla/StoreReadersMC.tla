--------------------------- MODULE StoreReadersMC ---------------------------
(* Instances of StoreReaders for TLC. *)
EXTENDS StoreReaders

CONSTANTS p1, e1, e2, ops1, ops2, u1

Body(e, r, n) == [event |-> e, policyRef |-> r, unhashed |-> u1, bytes |-> n]

\* With SegmentMaxBytes = 3, a segment takes one or two records; with
\* MaxLine = 3, the second body is overlong.  The third is one of the next
\* policy version.
SizesAndPolicies == {Body(e1, ops1, 2), Body(e2, ops1, 4), Body(e1, ops2, 2)}
=============================================================================
