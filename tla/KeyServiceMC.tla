---------------------------- MODULE KeyServiceMC -----------------------------
(* Instances of KeyService for TLC. *)
EXTENDS KeyService, TLC

CONSTANTS r1, r2, r3, a1, a2

\* Requests and addresses are interchangeable.
Symmetry == Permutations({r1, r2, r3}) \cup Permutations({a1, a2})
=============================================================================
