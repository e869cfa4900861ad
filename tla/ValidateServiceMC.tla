-------------------------- MODULE ValidateServiceMC --------------------------
(* An instance of ValidateService for TLC. *)
EXTENDS ValidateService

CONSTANTS h1, h2, k1

Request(a, k, w, p) == [actor |-> a, key |-> k, wellFormed |-> w, allowed |-> p]

\* A denied intent of an agent, the same with a tag that makes the policy
\* allow it (the key does not cover risk_tags), a malformed request with the
\* same key, and a human.
MixedRequests ==
    {Request("agent", k1, TRUE, FALSE), Request("agent", k1, TRUE, TRUE),
     Request("ci", k1, FALSE, FALSE), Request("human", k1, TRUE, FALSE)}
=============================================================================
