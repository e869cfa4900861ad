----------------------------- MODULE Evaluation -----------------------------
(***************************************************************************)
(* The evaluation of one input in the client's process: pkg/scenario's     *)
(* LoadFile or pkg/validate's EvaluateInvocation, the loop over the        *)
(* actions in evaluateScenarioWithRuntime, and pkg/policy's Evaluate, which*)
(* turns what the policy engine returns into a decision.  The policy, an   *)
(* external engine, may return anything.                                   *)
(*                                                                         *)
(* Lists of reasons and rules are sets: the code sorts them and drops      *)
(* duplicates.                                                             *)
(***************************************************************************)
EXTENDS Intent

CONSTANTS
    Inputs,    \* invocations and files
    Outputs    \* what the policy engine may return

Part == [word : STRING, left : BOOLEAN, right : BOOLEAN]

\* A scenario file's actions are a list of structs, whose kind is a string and
\* whose tags are a list of strings or nil; what an invocation has as tags may
\* be anything, and a list of strings is nothing but that.  Answers have the
\* fields that the code asks for, a missing one or one of another type being a
\* value like any other.
ASSUME EvaluationAssumption ==
    /\ \A y \in Inputs : y.type = "file" /\ y.file.format = "scenario" =>
          /\ Len(y.file.actions) \in Nat
          /\ \A i \in DOMAIN y.file.actions :
                /\ y.file.actions[i].kind \in Seq(Part) \ {<<>>}
                /\ y.file.actions[i].tags.type \in {"null", "strings"}
    /\ \A y \in Inputs : y.type # "file" /\ y.inv.tags.type = "strings" =>
          y.inv.tags = Strings(y.inv.tags.value)
    /\ Outputs \subseteq [allow : STRING, reason : STRING, risk : STRING,
                         reasons : SUBSET STRING, hits : SUBSET STRING]

VARIABLES
    input,
    phase,     \* "start", "evaluate", "done" or "refused"
    actions,   \* the scenario's actions
    results,   \* ActionResults so far
    pass, risk, reasons, rules,   \* of scenarioEvaluation
    said       \* what the policy said of each action (history)

sums == <<pass, risk, reasons, rules>>
vars == <<input, phase, actions, results, sums, said>>

-----------------------------------------------------------------------------
(* Files                                                                   *)

\* scenarioFromTerraformPlan: every entry of resource_changes is counted, an
\* entry that deletes counts as one destroy, addresses are listed once.
PlanAction(changes) ==
    [kind |-> <<Word("terraform"), Word("plan")>>,
     target |-> Object("file"),
     payload |-> Object(
        [resources |-> Len(changes),
         destroys |-> Cardinality({i \in DOMAIN changes :
                                      "delete" \in changes[i].actions}),
         addresses |-> {c.address : c \in ToSet(changes)} \ {""}]),
     tags |-> Null]

\* scenarioFromKubernetesManifest: the first document's namespace, the file.
ManifestAction(namespaces) ==
    [kind |-> <<Word("kubectl"), Word("apply")>>,
     target |-> Object([namespace |-> Head(namespaces)]),
     payload |-> Object([namespace |-> Head(namespaces), yaml |-> namespaces]),
     tags |-> Null]

Loaded(as) == [ok |-> TRUE, actions |-> as]
Refused == [ok |-> FALSE, actions |-> <<>>]

\* The format is the first that the file looks like: a JSON object with
\* "actions" is a scenario and must decode strictly and be valid; a JSON object
\* with a key of a plan is a plan; a YAML file whose first document has
\* apiVersion and kind is a manifest.
LoadFile(f) ==
    IF f.format = "scenario"
    THEN IF f.decodes /\ f.id /\ f.actions # <<>>
         THEN Loaded(f.actions) ELSE Refused
    ELSE IF f.format = "plan" THEN Loaded(<<PlanAction(f.changes)>>)
    ELSE IF f.format = "manifest" THEN Loaded(<<ManifestAction(f.namespaces)>>)
    ELSE Refused

\* EvaluateInvocation
LoadInvocation(inv) ==
    IF ValidateStructure(inv) THEN Loaded(InvocationToScenario(inv)) ELSE Refused

-----------------------------------------------------------------------------
(* The policy's answer                                                     *)

\* Stands for the answer to a question that was not put.
NoAnswer == [allow |-> "unasked"]

\* Mutant of Decodes: the reason may be empty.
DecodesAnyReason(o) ==
    o.allow \in {"true", "false"} /\ o.risk \in {"low", "medium", "high"}

\* Engine.Evaluate accepts an answer: allow is a Boolean, the reason a string
\* that is not empty, the risk level one of three.
Decodes(o) ==
    /\ o.allow \in {"true", "false"}
    /\ o.reason # ""
    /\ o.risk \in {"low", "medium", "high"}

\* Lists lose what is no string or empty; no reasons are the reason.
DecisionOf(o) ==
    [allow |-> o.allow = "true",
     reasons |-> IF o.reasons \ {""} # {} THEN o.reasons \ {""}
                 ELSE {o.reason} \ {""},
     hits |-> o.hits \ {""}]

-----------------------------------------------------------------------------
(* The machine                                                             *)

Init ==
    /\ input \in Inputs
    /\ phase = "start"
    /\ actions = <<>> /\ results = <<>> /\ said = <<>>
    /\ pass = TRUE /\ risk = "low" /\ reasons = {} /\ rules = {}

Load ==
    LET sc == IF input.type = "file" THEN LoadFile(input.file)
              ELSE LoadInvocation(input.inv)
    IN  /\ phase = "start"
        /\ phase' = IF sc.ok THEN "evaluate" ELSE "refused"
        /\ actions' = sc.actions
        /\ UNCHANGED <<input, results, sums, said>>

\* The action whose turn it is.
Turn == Len(results) + 1
Action == actions[Turn]

\* Mutant of RejectKind: the action is skipped.
SkipKind ==
    /\ phase = "evaluate" /\ Turn <= Len(actions)
    /\ ~IsKind(Action.kind)
    /\ results' = Append(results, [pass |-> FALSE, risk |-> "high",
                                   rules |-> {"sys.invalid_kind"},
                                   reasons |-> {"invalid kind"}])
    /\ said' = Append(said, NoAnswer)
    /\ UNCHANGED <<input, phase, actions, sums>>

\* A kind that does not split denies the scenario; the policy is not asked,
\* and the rule stays with the action.
RejectKind ==
    /\ phase = "evaluate" /\ Turn <= Len(actions)
    /\ ~IsKind(Action.kind)
    /\ pass' = FALSE /\ risk' = "high"
    /\ reasons' = reasons \cup {"invalid kind"}
    /\ results' = Append(results, [pass |-> FALSE, risk |-> "high",
                                   rules |-> {"sys.invalid_kind"},
                                   reasons |-> {"invalid kind"}])
    /\ said' = Append(said, NoAnswer)
    /\ UNCHANGED <<input, phase, actions, rules>>

\* hasBreakglassTag
ActionRisk(a, allow) ==
    IF ~allow THEN "high"
    ELSE IF a.tags.type = "strings" /\ Tag("breakglass") \in a.tags.value
    THEN "medium" ELSE "low"

\* The policy answers for the action.
AskPolicy(o) ==
    LET d == DecisionOf(o)
    IN  /\ phase = "evaluate" /\ Turn <= Len(actions)
        /\ IsKind(Action.kind)
        /\ Decodes(o)
        /\ pass' = (pass /\ d.allow)
        /\ risk' = IF d.allow THEN risk ELSE "high"
        /\ reasons' = reasons \cup (IF d.allow THEN {} ELSE d.reasons)
        /\ rules' = rules \cup d.hits
                    \cup (IF ~d.allow /\ d.hits = {}
                          THEN {"sys.unlabeled_deny"} ELSE {})
        /\ results' = Append(results, [pass |-> d.allow,
                                       risk |-> ActionRisk(Action, d.allow),
                                       rules |-> d.hits,
                                       reasons |-> d.reasons])
        /\ said' = Append(said, o)
        /\ UNCHANGED <<input, phase, actions>>

\* The engine fails, returns nothing, or returns what does not decode: the
\* whole evaluation is a policy failure.
PolicyFails ==
    /\ phase = "evaluate" /\ Turn <= Len(actions)
    /\ IsKind(Action.kind)
    /\ phase' = "refused"
    /\ UNCHANGED <<input, actions, results, sums, said>>

\* The loop is over.
Finish ==
    /\ phase = "evaluate" /\ Turn > Len(actions)
    /\ phase' = "done"
    /\ UNCHANGED <<input, actions, results, sums, said>>

Next ==
    \/ Load \/ RejectKind \/ PolicyFails \/ Finish
    \/ \E o \in Outputs : AskPolicy(o)

Spec == Init /\ [][Next]_vars

-----------------------------------------------------------------------------
(* Properties                                                              *)

\* An input passes only if it has an action, and only if the policy was asked
\* about every one of its actions and said true of it: kinds that do not split,
\* answers that do not decode and empty scenarios never pass.
FailClosed ==
    phase = "done" /\ pass =>
        /\ actions # <<>>
        /\ Len(said) = Len(actions)
        /\ \A i \in DOMAIN said : said[i].allow = "true"

\* primaryReason of the evidence record and of the answer.
NoReason == reasons = {}

\* A denial gives a reason.  Without one, its evidence record would carry the
\* reason of a scenario that passed ("scenario_validated").
DenialExplained == phase = "done" /\ ~pass => ~NoReason

\* What the CLI sends to the API for the action a of a file.
SentByCli(a) == ActionToInvocation(a, input.file.actor)

\* The action a without the blanks around its kind.
Trimmed(a) ==
    [kind |-> TrimSpace(a.kind), target |-> a.target, payload |-> a.payload,
     tags |-> a.tags]

\* No tag of the list is empty or has surrounding blanks.
PlainTags(v) ==
    v.type = "strings" => \A t \in v.value : ~t.padded /\ t.word # ""

\* The policy sees the same action whether it is asked here or at the API, so
\* that the fallback decides on what the API was asked.  For the CLI this holds
\* of every action the API accepts, up to blanks around its kind, which only
\* the API does not get to see; for the MCP server of the flat form, with tags
\* that are not empty and have no surrounding blanks.
SameActionOnBothPaths ==
    phase \in {"evaluate", "done"} =>
        IF input.type = "file"
        THEN \A i \in DOMAIN actions :
                IsKind(actions[i].kind) /\ ApiAccepts(SentByCli(actions[i])) =>
                    /\ Len(ApiActions(SentByCli(actions[i]))) = 1
                    /\ SameAction(ApiActions(SentByCli(actions[i]))[1],
                                  Trimmed(actions[i]))
        ELSE input.inv.action.type = "absent" /\ PlainTags(input.inv.tags)
                /\ ~input.inv.newline =>
                /\ ApiAccepts(input.inv)
                /\ SameAction(ApiActions(input.inv)[1], actions[1])

-----------------------------------------------------------------------------
(* The key of the deny cache                                               *)

\* The deny cache's key of an invocation.
IntentKey(inv) ==
    ExtractSemanticIntent(inv.tool, inv.operation,
                          ExtractPayloadMap(inv.payload, inv.action))

\* The workloads that inputs describe, with the key of each description.
Keyed == {<<y.workload, IntentKey(y.inv)>> : y \in {x \in Inputs : x.type = "workload"}}

\* All containers of a Kubernetes workload, and their images.
AllContainers(w) == w.containers \o w.initContainers
ImagesIn(cs) == {cs[i].image : i \in DOMAIN cs} \ {""}

\* Two Kubernetes workloads differ in their identity, in an image that only one
\* of them uses, in the number of their containers, in what one container is
\* allowed or runs as, or in the use of the host.
K8sApart(v, w) ==
    \/ <<v.namespace, v.kind, v.name, v.host>> # <<w.namespace, w.kind, w.name, w.host>>
    \/ ImagesIn(AllContainers(v)) # ImagesIn(AllContainers(w))
    \/ Len(AllContainers(v)) # Len(AllContainers(w))
    \/ \E i \in 1 .. Len(AllContainers(v)) :
          \/ AllContainers(v)[i].privileged # AllContainers(w)[i].privileged
          \/ AllContainers(v)[i].runAsUser # AllContainers(w)[i].runAsUser

\* The places where a workload adds the capability c.
Added(w, c) ==
    UNION {{i} \X {j \in DOMAIN AllContainers(w)[i].capabilities :
                      AllContainers(w)[i].capabilities[j] = c} :
           i \in DOMAIN AllContainers(w)}

\* Two Kubernetes workloads add a capability a different number of times.
CapabilitiesApart(v, w) ==
    \E x \in {v, w} : \E i \in DOMAIN AllContainers(x) :
        \E c \in ToSet(AllContainers(x)[i].capabilities) :
            Cardinality(Added(v, c)) # Cardinality(Added(w, c))

PlanApart(v, w) ==
    \/ v.destroys # w.destroys
    \/ ToSet(v.types) # ToSet(w.types)
    \/ ToSet(v.cidrs) # ToSet(w.cidrs)
    \/ ToSet(v.iam) # ToSet(w.iam)

\* Two requests differ in something that their keys are to tell apart.
Apart(v, w) ==
    \/ v.tool # w.tool \/ v.operation # w.operation
    \/ /\ v.tool \in {Tool("kubectl"), Tool("oc")}
       /\ K8sApart(v, w) \/ CapabilitiesApart(v, w)
    \/ v.tool = Tool("terraform") /\ PlanApart(v, w)
    \/ v.tool = Tool("helm") /\ v.namespace # w.namespace
    \/ v.tool = Tool("argocd") /\ v.app # w.app

\* A denied agent does not get past the gate by rewriting its request: the same
\* workload has the same key of the deny cache, whether it is described by a
\* flat payload, by a Kubernetes object or below params.action, in lower or
\* upper case, with blanks or not.  And a corrected workload is not stopped: a
\* key is shared by no two workloads that differ in their identity or posture
\* (Apart).  Less than equality of the workloads: the key does not tell which
\* container has an image or a capability or is an init container, and it
\* leaves out host paths, lists of CIDR blocks and risk tags, although the
\* policy reads them.
KeyFollowsWorkload ==
    phase = "start" /\ input.type = "workload" =>
        LET key == IntentKey(input.inv)
        IN  \A q \in Keyed :
                /\ q[1] = input.workload => q[2] = key
                /\ q[2] = key => ~Apart(q[1], input.workload)
=============================================================================
