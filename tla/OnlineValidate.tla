--------------------------- MODULE OnlineValidate ----------------------------
(***************************************************************************)
(* evidra validate (cmd/evidra) with the API server it asks               *)
(* (internal/api, internal/auth, internal/engine): one request per action  *)
(* of the scenario, a server that is redeployed, loses its database or     *)
(* dies between two of them, answers that come too late, and the fallback  *)
(* to a local evaluation (pkg/validate) of the whole scenario.             *)
(*                                                                         *)
(* A policy version stands for the rules and for the policy_ref that names *)
(* them.                                                                   *)
(***************************************************************************)
EXTENDS ApiClient, Sequences, FiniteSets

CONSTANTS
    Actions,     \* scenario actions
    BadKind,     \* those whose kind is not "<tool>.<operation>"
    Scenarios,   \* sequences of actions
    Versions,    \* policy versions
    Allowed,     \* per version: the actions it allows
    Shapes,      \* bodies of the API's answers, see Decode
    MaxChanges,  \* bound on redeployments and edits of policy files
    NoRef        \* the empty policy_ref

ASSUME OnlineAssumption ==
    /\ BadKind \subseteq Actions
    /\ Scenarios \subseteq Seq(Actions) \ {<<>>}
    /\ Allowed \in [Versions -> SUBSET (Actions \ BadKind)]
    /\ Shapes \subseteq {"nested", "flat"}
    /\ MaxChanges \in Nat
    /\ NoRef \notin Versions /\ "mixed" \notin Versions /\ NoRef # "mixed"

VARIABLES
    server,    \* the API: running, database reachable, key valid, policy, shape
    requests,  \* requests that the server has not handled yet
    answers,   \* answers on their way to the client
    signed,    \* the evidence records that the server signed
    disk,      \* the policy version in the local policy files
    cli,       \* the command
    log,       \* the local evidence store: one record per local evaluation
    changes,   \* number of redeployments and edits
    denials    \* the policies whose denials reached the command (history)

apiVars == <<server, requests, answers, signed>>
vars == <<apiVars, disk, cli, log, changes, denials>>

\* aggregate of evaluateOnline, before the first answer.
Fresh == [pass |-> TRUE, evidence |-> <<>>, policyRef |-> NoRef]

Idle == [pc |-> "start", scenario |-> <<>>, fallback |-> "closed",
         next |-> 1, agg |-> Fresh, files |-> "bundle",
         rules |-> NoRef, ref |-> NoRef, edited |-> FALSE,
         source |-> "none", exit |-> -1]

Init ==
    /\ server \in [up : {TRUE}, db : {TRUE}, key : BOOLEAN,
                   version : Versions, shape : Shapes]
    /\ requests = {} /\ answers = {} /\ signed = {}
    /\ disk \in Versions
    /\ cli = Idle
    /\ log = {}
    /\ changes = 0
    /\ denials = {}

-----------------------------------------------------------------------------
(* The command                                                             *)

\* The command ends; a decision comes from source.
Exit(code, source) ==
    cli' = [cli EXCEPT !.pc = "done", !.exit = code, !.source = source]

\* Flags, mode and scenario file: a usage error, or an error of mode.Resolve
\* or of scenario.LoadFile.
Refuse ==
    /\ cli.pc = "start"
    /\ \/ Exit(4, "none")
       \/ (\E cfg \in ModeConfig : Resolve(cfg) = "error") /\ Exit(1, "none")
    /\ UNCHANGED <<apiVars, disk, log, changes, denials>>

\* runValidate up to the first request, or to the local evaluation.
Begin(sc, cfg, files) ==
    /\ cli.pc = "start"
    /\ Resolve(cfg) # "error"
    /\ cli' = [Idle EXCEPT
                  !.pc = IF Resolve(cfg) = "online" THEN "send" ELSE "open",
                  !.scenario = sc, !.files = files,
                  !.source = IF Resolve(cfg) = "online" THEN "api" ELSE "local",
                  !.fallback = NormalizeFallback(cfg.fallback)]
    /\ UNCHANGED <<apiVars, disk, log, changes, denials>>

\* Mutant of Fail: the fallback goes on with the answers it has.
FailKeepsAnswers(e) ==
    IF ~IsReachabilityError(e) THEN Exit(1, "none")
    ELSE IF cli.fallback = "offline"
    THEN Exit(IF cli.agg.pass THEN 0 ELSE 2, "local-fallback")
    ELSE Exit(3, "none")

\* evaluateOnline returns an error: what was answered so far is discarded,
\* and the fallback, if any, evaluates the whole scenario again.
Fail(e) ==
    IF ~IsReachabilityError(e) THEN Exit(1, "none")
    ELSE IF cli.fallback = "offline"
    THEN cli' = [cli EXCEPT !.pc = "open", !.source = "local-fallback",
                            !.agg = Fresh]
    ELSE Exit(3, "none")

\* Mutant of Send: the actions are counted from 0.
SendPrevious ==
    /\ cli.pc = "send" /\ server.up
    /\ requests' = requests \cup
           {[id |-> cli.next - 1, action |-> cli.scenario[cli.next]]}
    /\ cli' = [cli EXCEPT !.pc = "wait"]
    /\ UNCHANGED <<server, answers, signed, disk, log, changes, denials>>

\* Client.Validate sends the next action; nobody listens while the server is
\* down.
Send ==
    /\ cli.pc = "send"
    /\ IF server.up
       THEN /\ requests' = requests \cup
                   {[id |-> cli.next, action |-> cli.scenario[cli.next]]}
            /\ cli' = [cli EXCEPT !.pc = "wait"]
       ELSE Fail("api_unreachable") /\ UNCHANGED requests
    /\ UNCHANGED <<server, answers, signed, disk, log, changes, denials>>

\* Mutant of Timeout: a client without a timeout.
TimeoutNever == FALSE

\* The client's timeout, or a connection that breaks.
Timeout ==
    /\ cli.pc = "wait"
    /\ Fail("api_unreachable")
    /\ answers' = {}
    /\ UNCHANGED <<server, requests, signed, disk, log, changes, denials>>

\* Mutant of MergeRef: the first policy_ref is kept.
MergeRefFirst(old, new) == IF old = NoRef THEN new ELSE old

\* evaluateOnline on policy_ref.
MergeRef(old, new) ==
    IF old = NoRef THEN new
    ELSE IF new # NoRef /\ new # old THEN "mixed" ELSE old

\* Mutant of Merge: the last answer decides.
MergeLastWins(agg, r) ==
    [pass |-> r.pass,
     evidence |-> Append(agg.evidence, r.evidence),
     policyRef |-> MergeRef(agg.policyRef, r.policyRef)]

\* One step of evaluateOnline's loop on the result r.
Merge(agg, r) ==
    [pass |-> agg.pass /\ r.pass,
     evidence |-> Append(agg.evidence, r.evidence),
     policyRef |-> MergeRef(agg.policyRef, r.policyRef)]

\* printValidationResult's exit code
CodeOf(pass) == IF pass THEN 0 ELSE 2

\* An answer with a decision: the next action is sent, or the result printed.
Decided(body) ==
    LET agg == Merge(cli.agg, Decode(body))
        last == cli.next = Len(cli.scenario)
    IN  cli' = [cli EXCEPT !.agg = agg, !.next = @ + 1,
                           !.pc = IF last THEN "done" ELSE "send",
                           !.exit = IF last THEN CodeOf(agg.pass) ELSE @]

\* Client.Validate returns: the status is classified; a body that cannot be
\* read or decoded counts as a server error.
Receive(a) ==
    /\ cli.pc = "wait" /\ a.id = cli.next
    /\ IF ClassOf(a.status) = "ok"
       THEN /\ Decided(a.body) \/ Fail("server_error")
            /\ denials' = IF a.body.allow THEN denials
                          ELSE denials \cup {a.body.policyRef}
       ELSE Fail(ClassOf(a.status)) /\ UNCHANGED denials
    /\ answers' = {}
    /\ UNCHANGED <<server, requests, signed, disk, log, changes>>

-----------------------------------------------------------------------------
(* The local evaluation: validate.EvaluateScenario                         *)

\* NewBundleSource reads the manifest, and with it the revision, before the
\* rules; NewLocalFileSource reads nothing yet.
Open ==
    /\ cli.pc = "open"
    /\ \/ cli' = [cli EXCEPT !.pc = "rules",
                             !.ref = IF cli.files = "bundle" THEN disk ELSE NoRef]
       \/ Exit(1, "none")
    /\ UNCHANGED <<apiVars, disk, log, changes, denials>>

\* NewEvaluator: LoadPolicy, LoadData and the preparation of the query.
LoadPolicy ==
    /\ cli.pc = "rules"
    /\ \/ cli' = [cli EXCEPT !.pc = "ref", !.rules = disk]
       \/ Exit(1, "none")
    /\ UNCHANGED <<apiVars, disk, log, changes, denials>>

\* PolicyRef: the revision of the manifest, or a hash over loose files that
\* are read once more.
PolicyRef ==
    /\ cli.pc = "ref"
    /\ \/ cli' = [cli EXCEPT !.pc = "append",
                             !.ref = IF cli.files = "bundle" THEN @ ELSE disk]
       \/ cli.files = "loose" /\ Exit(1, "none")
    /\ UNCHANGED <<apiVars, disk, log, changes, denials>>

\* evaluateScenarioWithRuntime: an action of a bad kind is denied without the
\* policy, and gives no policy_ref.
Pass(sc, v) ==
    \A i \in DOMAIN sc : sc[i] \notin BadKind /\ sc[i] \in Allowed[v]

RefOf(sc, ref) ==
    IF \E i \in DOMAIN sc : sc[i] \notin BadKind THEN ref ELSE NoRef

LocalRecord ==
    [scenario |-> cli.scenario, pass |-> Pass(cli.scenario, cli.rules),
     policyRef |-> RefOf(cli.scenario, cli.ref)]

\* Mutant of AppendEvidence: an error of the store is ignored.
AppendUnchecked ==
    /\ cli.pc = "append"
    /\ log' \in {log, log \cup {LocalRecord}}
    /\ cli' = [cli EXCEPT !.pc = "done", !.exit = CodeOf(LocalRecord.pass),
                          !.agg = [Fresh EXCEPT !.pass = LocalRecord.pass,
                                                !.policyRef = LocalRecord.policyRef]]
    /\ UNCHANGED <<apiVars, disk, changes, denials>>

\* The evaluation, store.Init and store.Append; an error (of the policy, or of
\* the store before or after the record's line) ends the command.
AppendEvidence ==
    /\ cli.pc = "append"
    /\ \/ /\ log' = log \cup {LocalRecord}
          /\ cli' = [cli EXCEPT !.pc = "done", !.exit = CodeOf(LocalRecord.pass),
                        !.agg = [Fresh EXCEPT !.pass = LocalRecord.pass,
                                              !.policyRef = LocalRecord.policyRef]]
       \/ log' \in {log, log \cup {LocalRecord}} /\ Exit(1, "none")
    /\ UNCHANGED <<apiVars, disk, changes, denials>>

-----------------------------------------------------------------------------
(* The API server                                                          *)

\* KeyStoreMiddleware: any failure of the lookup, a database that cannot be
\* reached included, is answered 401.
Authenticated == server.db /\ server.key

\* An answer reaches the client if it still waits for it.
AnswerWith(q, status, body) ==
    answers' = IF cli.pc = "wait" /\ cli.next = q.id
               THEN {[id |-> q.id, status |-> status, body |-> body]}
               ELSE answers

\* handleValidate: an action of a bad kind arrives without a tool, which the
\* structure check refuses; a decision is signed and answered, allow or deny.
Serve(q) ==
    LET status == IF ~Authenticated THEN 401
                  ELSE IF q.action \in BadKind THEN 400 ELSE 200
        allow == q.action \in Allowed[server.version]
        rec == [id |-> q.id, action |-> q.action, allow |-> allow,
                version |-> server.version]
        body == [shape |-> server.shape, allow |-> allow, event |-> q.id,
                 policyRef |-> server.version]
    IN  /\ AnswerWith(q, status, body)
        /\ signed' = IF status = 200 THEN signed \cup {rec} ELSE signed
        /\ requests' = requests \ {q}
        /\ UNCHANGED <<server, disk, cli, log, changes, denials>>

\* An error of the engine or of BuildRecord, or a panic that
\* recoveryMiddleware catches: 500.
ServeFails(q) ==
    /\ Authenticated
    /\ AnswerWith(q, 500, [shape |-> server.shape, allow |-> FALSE,
                           event |-> 0, policyRef |-> NoRef])
    /\ requests' = requests \ {q}
    /\ UNCHANGED <<server, signed, disk, cli, log, changes, denials>>

\* The server dies, with the requests it has, or a new one is started, maybe
\* with another embedded bundle.
Crash ==
    /\ server.up
    /\ server' = [server EXCEPT !.up = FALSE]
    /\ requests' = {}
    /\ UNCHANGED <<answers, signed, disk, cli, log, changes, denials>>

Deploy(v) ==
    /\ ~server.up /\ changes < MaxChanges
    /\ server' = [server EXCEPT !.up = TRUE, !.version = v]
    /\ changes' = changes + 1
    /\ UNCHANGED <<requests, answers, signed, disk, cli, log, denials>>

\* The database goes away or comes back, the key is revoked.
Outage ==
    /\ \/ server' = [server EXCEPT !.db = ~@]
       \/ server.key /\ server' = [server EXCEPT !.key = FALSE]
    /\ UNCHANGED <<requests, answers, signed, disk, cli, log, changes, denials>>

\* Somebody replaces the local policy files.
EditPolicy(v) ==
    /\ changes < MaxChanges
    /\ disk' = v
    /\ changes' = changes + 1
    /\ cli' = [cli EXCEPT !.edited = @ \/ cli.pc \in {"rules", "ref"}]
    /\ UNCHANGED <<apiVars, log, denials>>

-----------------------------------------------------------------------------
Command ==
    \/ Refuse
    \/ \E sc \in Scenarios, cfg \in ModeConfig, files \in {"bundle", "loose"} :
          Begin(sc, cfg, files)
    \/ Send \/ Timeout \/ (\E a \in answers : Receive(a))
    \/ Open \/ LoadPolicy \/ PolicyRef \/ AppendEvidence

Next ==
    \/ Command
    \/ \E q \in requests : Serve(q) \/ ServeFails(q)
    \/ Crash \/ (\E v \in Versions : Deploy(v) \/ EditPolicy(v)) \/ Outage

\* The command goes on: every wait has a timeout.
Spec == Init /\ [][Next]_vars /\ WF_vars(Command)

-----------------------------------------------------------------------------
(* Properties                                                              *)

Done == cli.pc = "done"
Indexes == 1 .. Len(cli.scenario)

TypeOK ==
    /\ server \in [up : BOOLEAN, db : BOOLEAN, key : BOOLEAN,
                   version : Versions, shape : Shapes]
    /\ \A q \in requests : q.id \in Indexes /\ q.action = cli.scenario[q.id]
    /\ \A a \in answers : a.id = cli.next
    /\ disk \in Versions
    /\ cli.agg.policyRef \in Versions \cup {NoRef, "mixed"}
    /\ cli.exit \in {-1, 0, 1, 2, 3, 4}
    /\ changes \in 0 .. MaxChanges

\* A command exits 0 or 2 only on the decisions of one evaluator over the
\* whole scenario: the API decided on every action, once each, and passed
\* only what it allowed; or the local policy decided, and its decision is in
\* the local evidence.  Answers of the API are never completed by local ones,
\* however late, lost or failed some of them are.
DecisionIsWhole ==
    Done /\ cli.exit \in {0, 2} =>
        \/ /\ cli.source = "api"
           /\ {s.id : s \in signed} = Indexes
           /\ cli.exit = 0 => \A s \in signed : s.allow
        \/ /\ cli.source \in {"local", "local-fallback"}
           /\ \E rec \in log : /\ rec.scenario = cli.scenario
                               /\ CodeOf(rec.pass) = cli.exit
                               /\ rec.policyRef = cli.agg.policyRef
           /\ cli.exit = 0 <=> Pass(cli.scenario, cli.rules)

\* The policy_ref that the command prints names the policy that decided on
\* every action, although the API may be redeployed between two of them;
\* locally, unless the files were replaced while they were read.
RefNamesPolicy ==
    Done /\ cli.exit \in {0, 2} /\ cli.agg.policyRef \in Versions =>
        IF cli.source = "api"
        THEN \A s \in signed : s.version = cli.agg.policyRef
        ELSE cli.edited \/ cli.agg.policyRef = cli.rules

\* A denial by the API that reached the command is overruled only by a
\* fallback to another policy version than the one that denied.
DenialOverruledByOtherPolicy ==
    Done /\ cli.exit = 0 /\ denials # {} =>
        cli.source = "local-fallback" /\ cli.rules \notin denials

\* Every validate command ends, whatever the API does.
CommandEnds == <>Done

\* What the API allowed is not reported as denied.
AllowIsReported ==
    Done /\ cli.exit = 2 /\ cli.source = "api" => \E s \in signed : ~s.allow
=============================================================================
