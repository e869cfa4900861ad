--------------------------- MODULE ValidateService ---------------------------
(***************************************************************************)
(* The validate tool of the MCP server: ValidateService.Validate with its  *)
(* DenyCache (pkg/mcpserver), online evaluation with fallback, and the     *)
(* local pipeline of pkg/validate up to the evidence record.  Requests are *)
(* handled concurrently; the cache mutex is held only inside the cache's   *)
(* own methods, never during an evaluation.                                *)
(*                                                                         *)
(* Time is kept as ages that saturate just above the TTL, so that the      *)
(* server may run for ever.                                                *)
(***************************************************************************)
EXTENDS ApiClient

CONSTANTS
    Handlers,   \* requests in progress at the same time
    Requests,   \* records [actor, key, wellFormed, allowed], see below
    NoRequest, NoEntry,
    Online,     \* Options.IsOnline, with an API client
    Fallback,   \* Options.FallbackPolicy: "offline" or "closed"
    TTL         \* the deny cache's time to live, in clock ticks

\* r.key is IntentKey(ExtractSemanticIntent(r)); r.allowed is what the policy
\* says of r.  Requests that differ only outside the key (risk_tags, target,
\* environment, actor) are different requests with the same key.
Keys == {r.key : r \in Requests}

ASSUME ServiceAssumption ==
    /\ TTL \in Nat
    /\ Online \in BOOLEAN
    /\ Fallback \in {"offline", "closed"}
    /\ NoRequest \notin Requests
    /\ NoEntry \notin Nat
    /\ \A r \in Requests :
          r.wellFormed \in BOOLEAN /\ r.allowed \in BOOLEAN

VARIABLES
    cache,   \* DenyCache.entries: per key NoEntry or the age of its denial
    pc, req, out,  \* per handler: control, request, ValidateOutput
    wrote,   \* per handler: the decision its evidence record holds
    last,    \* per key: the last evaluation to finish, and its age
    denied   \* per key: the age of the last denial of an agent or CI that no
             \* allow came after (last, denied: history variables)

vars == <<cache, pc, req, out, wrote, last, denied>>
history == <<last, denied>>

Ages == 0 .. (TTL + 1)

Older(a) == IF a > TTL THEN a ELSE a + 1

\* The entries of all keys a tick later.
Aged(c) == [k \in Keys |-> IF c[k] = NoEntry THEN NoEntry ELSE Older(c[k])]

\* time.Since(entry.DeniedAt) <= ttl
Blocked(k) == cache[k] # NoEntry /\ cache[k] <= TTL

Gated == {"agent", "ci"}

NoOutput == [allow |-> FALSE, source |-> "none", code |-> "none"]

Decision(pass, source) == [allow |-> pass, source |-> source, code |-> "none"]

Error(code) == [allow |-> FALSE, source |-> "none", code |-> code]

\* The constants of the server that Validate uses.
ServerCodes == {"stop_after_deny", "invalid_input", "policy_failure",
                "evidence_write_failed", "api_unreachable"}

\* Codes without a constant, for three errors of the API client; the protocol's
\* documentation does not list them.
ClientCodes == {"unauthorized", "forbidden", "rate_limited"}

Codes == {"none"} \cup ServerCodes \cup ClientCodes

Output == [allow : BOOLEAN, source : {"none", "api", "local", "local-fallback"},
           code : Codes]

Init ==
    /\ cache = [k \in Keys |-> NoEntry]
    /\ pc = [h \in Handlers |-> "idle"]
    /\ req = [h \in Handlers |-> NoRequest]
    /\ out = [h \in Handlers |-> NoOutput]
    /\ wrote = [h \in Handlers |-> "none"]
    /\ last = [k \in Keys |-> [what |-> "none", age |-> 0]]
    /\ denied = [k \in Keys |-> NoEntry]

-----------------------------------------------------------------------------
(* The deny cache                                                          *)

\* CheckDenyLoop: an entry older than the TTL is deleted.
CheckDenyLoop(c, k) ==
    IF c[k] # NoEntry /\ c[k] > TTL THEN [c EXCEPT ![k] = NoEntry] ELSE c

\* Mutant of RecordDeny: an existing entry keeps its DeniedAt.
RecordDenyOnce(c, k) == IF c[k] = NoEntry THEN [c EXCEPT ![k] = 0] ELSE c

\* RecordDeny: an existing entry, also an expired one, is renewed.  (Its count
\* and first reason, which only appear in a message, are left out.)
RecordDeny(c, k) == [c EXCEPT ![k] = 0]

ClearIntent(c, k) == [c EXCEPT ![k] = NoEntry]

-----------------------------------------------------------------------------
(* Validate                                                                *)

\* The local pipeline is entered when the server is offline, or when the API
\* cannot be reached and the fallback policy says so.
StartOf == IF Online THEN "api" ELSE "local"

\* Mutant of Receive: a blocked retry renews the entry.
ReceiveRenews(h, r) ==
    /\ pc[h] = "idle"
    /\ req' = [req EXCEPT ![h] = r]
    /\ wrote' = [wrote EXCEPT ![h] = "none"]
    /\ out' = [out EXCEPT ![h] = NoOutput]
    /\ pc' = [pc EXCEPT ![h] = IF r.actor \in Gated /\ Blocked(r.key)
                               THEN "answer" ELSE StartOf]
    /\ cache' = IF r.actor \in Gated /\ Blocked(r.key)
                THEN RecordDeny(cache, r.key) ELSE cache
    /\ UNCHANGED history

\* A request arrives: the key is computed for every actor, the cache gates
\* agents and CI.
Receive(h, r) ==
    /\ pc[h] = "idle"
    /\ req' = [req EXCEPT ![h] = r]
    /\ wrote' = [wrote EXCEPT ![h] = "none"]
    /\ IF r.actor \in Gated /\ Blocked(r.key)
       THEN /\ out' = [out EXCEPT ![h] =
                          [Error("stop_after_deny") EXCEPT
                              !.source = IF Online THEN "api" ELSE "local"]]
            /\ pc' = [pc EXCEPT ![h] = "answer"]
            /\ UNCHANGED cache
       ELSE /\ out' = [out EXCEPT ![h] = NoOutput]
            /\ pc' = [pc EXCEPT ![h] = StartOf]
            /\ cache' = IF r.actor \in Gated THEN CheckDenyLoop(cache, r.key)
                        ELSE cache
    /\ UNCHANGED history

\* The evaluation is over with output o.
Evaluated(h, o) ==
    /\ out' = [out EXCEPT ![h] = o]
    /\ pc' = [pc EXCEPT ![h] = "record"]

\* Mutant of ApiCode: the client's own class is reported.
ApiCodeUnmapped(e) == e

\* What an error of client.Validate is reported as: errors without a code of
\* their own are api_unreachable, an answer with an unexpected HTTP status
\* too.
ApiCode(e) ==
    IF e \in ClientCodes \cup {"invalid_input"} THEN e ELSE "api_unreachable"

\* client.Validate ends with a decision or an error.  Only an API that cannot
\* be reached or that fails may be replaced by a local evaluation, and only
\* when the fallback policy says so.
CallApi(h) ==
    /\ pc[h] = "api"
    /\ \/ \E pass \in BOOLEAN : Evaluated(h, Decision(pass, "api"))
       \/ \E e \in ClientErrors :
             IF IsReachabilityError(e) /\ Fallback = "offline"
             THEN /\ pc' = [pc EXCEPT ![h] = "local"]
                  /\ UNCHANGED out
             ELSE Evaluated(h, Error(ApiCode(e)))
    /\ UNCHANGED <<cache, req, wrote, history>>

\* validate.EvaluateInvocation up to the decision: structure, bundle, policy.
EvaluatePolicy(h) ==
    /\ pc[h] = "local"
    /\ \/ ~req[h].wellFormed /\ Evaluated(h, Error("invalid_input"))
       \/ req[h].wellFormed /\ Evaluated(h, Error("policy_failure"))
       \/ /\ req[h].wellFormed
          /\ pc' = [pc EXCEPT ![h] = "init"]
          /\ UNCHANGED out
    /\ UNCHANGED <<cache, req, wrote, history>>

\* store.Init: an error ends the evaluation without a decision.
InitStore(h) ==
    /\ pc[h] = "init"
    /\ \/ pc' = [pc EXCEPT ![h] = "append"] /\ UNCHANGED out
       \/ Evaluated(h, Error("evidence_write_failed"))
    /\ UNCHANGED <<cache, req, wrote, history>>

Verdict(h) == IF req[h].allowed THEN "allow" ELSE "deny"

\* Mutant of AppendEvidence: an error of store.Append is ignored.
AppendUnchecked(h) ==
    /\ pc[h] = "append"
    /\ wrote' \in {wrote, [wrote EXCEPT ![h] = Verdict(h)]}
    /\ Evaluated(h, Decision(req[h].allowed,
                             IF Online THEN "local-fallback" ELSE "local"))
    /\ UNCHANGED <<cache, req, history>>

\* store.Append succeeds, or fails before the record's line is written, or
\* after it (in the rotation or in the manifest's write).
AppendEvidence(h) ==
    /\ pc[h] = "append"
    /\ \/ /\ wrote' = [wrote EXCEPT ![h] = Verdict(h)]
          /\ Evaluated(h, Decision(req[h].allowed,
                                   IF Online THEN "local-fallback" ELSE "local"))
       \/ /\ Evaluated(h, Error("evidence_write_failed"))
          /\ wrote' \in {wrote, [wrote EXCEPT ![h] = Verdict(h)]}
    /\ UNCHANGED <<cache, req, history>>

\* Validate's last part: any output that does not allow is recorded as a
\* deny, an output that allows clears the intent.
RecordOutcome(h) ==
    LET k == req[h].key
    IN  /\ pc[h] = "record"
        /\ cache' = IF out[h].allow THEN ClearIntent(cache, k)
                    ELSE RecordDeny(cache, k)
        /\ last' = [last EXCEPT ![k] =
                       [what |-> IF out[h].code # "none" THEN "error"
                                 ELSE IF out[h].allow THEN "allow" ELSE "deny",
                        age |-> 0]]
        /\ denied' = [denied EXCEPT ![k] =
                         IF out[h].allow THEN NoEntry
                         ELSE IF out[h].code = "none" /\ req[h].actor \in Gated
                         THEN 0 ELSE @]
        /\ pc' = [pc EXCEPT ![h] = "answer"]
        /\ UNCHANGED <<req, out, wrote>>

\* The client has the answer; the next request starts afresh.
Answer(h) ==
    /\ pc[h] = "answer"
    /\ pc' = [pc EXCEPT ![h] = "idle"]
    /\ req' = [req EXCEPT ![h] = NoRequest]
    /\ out' = [out EXCEPT ![h] = NoOutput]
    /\ wrote' = [wrote EXCEPT ![h] = "none"]
    /\ UNCHANGED <<cache, history>>

\* Time passes.
Tick ==
    /\ cache' = Aged(cache)
    /\ last' = [k \in Keys |-> [last[k] EXCEPT !.age = Older(@)]]
    /\ denied' = Aged(denied)
    /\ UNCHANGED <<pc, req, out, wrote>>

\* DenyCache.Cleanup
Cleanup ==
    /\ cache' = [k \in Keys |->
                    IF cache[k] # NoEntry /\ cache[k] > TTL
                    THEN NoEntry ELSE cache[k]]
    /\ UNCHANGED <<pc, req, out, wrote, history>>

\* The server dies and is started again; the cache is in memory only.
Restart ==
    /\ cache' = [k \in Keys |-> NoEntry]
    /\ pc' = [h \in Handlers |-> "idle"]
    /\ req' = [h \in Handlers |-> NoRequest]
    /\ out' = [h \in Handlers |-> NoOutput]
    /\ wrote' = [h \in Handlers |-> "none"]
    /\ last' = [k \in Keys |-> [what |-> "none", age |-> 0]]
    /\ denied' = [k \in Keys |-> NoEntry]

Work(h) ==
    \/ CallApi(h) \/ EvaluatePolicy(h) \/ InitStore(h) \/ AppendEvidence(h)
    \/ RecordOutcome(h) \/ Answer(h)

Next ==
    \/ \E h \in Handlers :
          \/ \E r \in Requests : Receive(h, r)
          \/ Work(h)
    \/ Tick \/ Cleanup \/ Restart

Spec == Init /\ [][Next]_vars

\* A handler that has something to do goes on (calls out of the process have
\* timeouts), and time passes.
Fairness == WF_vars(Tick) /\ \A h \in Handlers : WF_vars(Work(h))

FairSpec == Spec /\ Fairness

-----------------------------------------------------------------------------
(* Properties                                                              *)

Steps == {"idle", "api", "local", "init", "append", "record", "answer"}

\* The types of the variables.  Validate reports one of the server's own codes
\* or one of the three it has for errors of the API client.
TypeOK ==
    /\ cache \in [Keys -> Ages \cup {NoEntry}]
    /\ pc \in [Handlers -> Steps]
    /\ req \in [Handlers -> Requests \cup {NoRequest}]
    /\ out \in [Handlers -> Output]
    /\ wrote \in [Handlers -> {"none", "allow", "deny"}]
    /\ \A k \in Keys : last[k].age \in Ages
    /\ denied \in [Keys -> Ages \cup {NoEntry}]

\* The gate, which is driven by deletions, renewals and clearings of several
\* handlers, does not lose a denial: an intent that an agent or CI was denied
\* stays blocked for the TTL, whatever fails, is retried or is asked by humans
\* in between, until it is allowed.  And an intent is blocked only when the
\* evaluation of it that finished last, within the TTL, did not allow it.  (In
\* the code that may also be a failed evaluation or the denial of a human; this
\* property does not ask for it.)
GateFollowsDecisions ==
    \A k \in Keys :
        /\ denied[k] # NoEntry /\ denied[k] <= TTL => Blocked(k)
        /\ Blocked(k) => /\ last[k].what \in {"deny", "error"}
                         /\ last[k].age <= TTL

\* The decision a local evaluation answers with.
Told(h) ==
    IF out[h].source \in {"local", "local-fallback"} /\ out[h].code = "none"
    THEN IF out[h].allow THEN "allow" ELSE "deny"
    ELSE "none"

\* An evaluation on this machine, also one that a failed API call fell back to,
\* tells its client no allow or deny without an evidence record of just that
\* decision: it fails closed.
EvidenceMatchesAnswer ==
    \A h \in Handlers :
        pc[h] \in {"record", "answer"} /\ Told(h) # "none" => wrote[h] = Told(h)

\* A human's request for the intent k is about to be recorded.  Humans pass
\* the gate, and their denials renew the entry.
RenewedByHuman(k) ==
    \E h \in Handlers :
        pc[h] = "record" /\ req[h].key = k /\ req[h].actor \notin Gated

\* Retries of blocked agents do not keep an intent blocked: the entry expires,
\* however many requests of agents and CI arrive, unless a human goes on asking.
BlockExpires ==
    \A k \in Keys : Blocked(k) ~> (~Blocked(k) \/ RenewedByHuman(k))
=============================================================================
