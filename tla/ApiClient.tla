------------------------------ MODULE ApiClient ------------------------------
(***************************************************************************)
(* pkg/client and pkg/mode: how an answer of the Evidra API, or the lack   *)
(* of one, is classified, which failures may fall back to a local          *)
(* evaluation, and when a program works online at all.  Operators only;    *)
(* the CLI and the MCP server share them.                                  *)
(***************************************************************************)
EXTENDS Integers

\* errors.go.  An error of no class is an HTTP status the client does not
\* know.
ClientErrors == {"api_unreachable", "unauthorized", "forbidden",
                 "rate_limited", "server_error", "invalid_input", "unexpected"}

IsReachabilityError(e) == e \in {"api_unreachable", "server_error"}

\* classifyHTTPStatus
ClassOf(status) ==
    IF status \in 200 .. 299 THEN "ok"
    ELSE IF status = 401 THEN "unauthorized"
    ELSE IF status = 403 THEN "forbidden"
    ELSE IF status = 422 THEN "invalid_input"
    ELSE IF status = 429 THEN "rate_limited"
    ELSE IF status >= 500 THEN "server_error"
    ELSE "unexpected"

\* Config of mode.Resolve: which settings are there, and the fallback policy
\* as it was written.
ModeConfig == [url : BOOLEAN, apiKey : BOOLEAN, offline : BOOLEAN,
               fallback : {"", "closed", "offline", "OFFLINE "}]

\* The fallback policy is trimmed and compared in lower case; whatever is not
\* "offline" is "closed".
NormalizeFallback(v) ==
    IF v \in {"offline", "OFFLINE "} THEN "offline" ELSE "closed"

\* mode.Resolve: offline without a URL or when forced, online with a URL and a
\* key; a URL without a key is an error.
Resolve(cfg) ==
    IF cfg.offline \/ ~cfg.url THEN "offline"
    ELSE IF cfg.apiKey THEN "online" ELSE "error"

\* apiValidateResponse.toResult.  The client reads the fields allow,
\* evidence_id and policy_ref at the top level of the body; a body that has
\* them elsewhere, or under another name, leaves the zero value.
Decode(body) ==
    [pass |-> body.shape = "flat" /\ body.allow,
     evidence |-> IF body.shape = "flat" THEN body.event ELSE 0,
     policyRef |-> body.policyRef]
=============================================================================
