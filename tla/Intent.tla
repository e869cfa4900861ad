------------------------------- MODULE Intent -------------------------------
(***************************************************************************)
(* pkg/mcpserver/intent.go: the semantic intent of a request, whose hash   *)
(* is the key of the deny cache.  Payloads come flat or as native          *)
(* Kubernetes objects; the intent is meant to be the same.  Operators only.*)
(*                                                                         *)
(* A text is a record of its word and how it is spelled (upper case,       *)
(* surrounding blanks): trimming and lower case leave the word.  A missing *)
(* text is the empty word, a missing list the empty sequence.  The two     *)
(* spellings that the code accepts for some keys (securityContext and      *)
(* security_context, hostPID and host_pid) are one field here.             *)
(***************************************************************************)
EXTENDS Integers, SequencesExt, Invocation

\* strings.ToLower(strings.TrimSpace(t))
Folded(t) == t.word

FirstNonEmpty(t, u) == IF Folded(t) # "" THEN Folded(t) ELSE Folded(u)

\* The first list that is not empty.
FirstList(s, t) == IF s # <<>> THEN s ELSE t

\* sort.Strings keeps duplicates: what is left of a list is its bag.
Sorted(s) == ToBag(s)

Column(s, Field(_)) == [i \in DOMAIN s |-> Field(s[i])]

-----------------------------------------------------------------------------
(* Containers                                                              *)

\* extractImages: lower case, no duplicates, no empty ones.
Images(cs) == {Folded(c.image) : c \in ToSet(cs)} \ {""}

\* extractContainerPosture with the pod's own flags: privileged and run_as_user
\* (-1 when it is missing) in the order of the containers, capabilities sorted.
Posture(cs, host) ==
    [privileged |-> [i \in DOMAIN cs |-> cs[i].privileged],
     runAsUser |-> [i \in DOMAIN cs |-> cs[i].runAsUser],
     capabilities |->
        Sorted(FlattenSeq([i \in DOMAIN cs |-> cs[i].capabilities])),
     host |-> host]

-----------------------------------------------------------------------------
(* ExtractSemanticIntent                                                   *)

\* Tool and operation are names of module Invocation, in lower case already.
EmptyIntent(tool, operation) ==
    [tool |-> TrimSpace(tool), operation |-> TrimSpace(operation),
     namespace |-> "", kind |-> "", name |-> "", images |-> {},
     posture |-> Posture(<<>>, {}),
     resourceTypes |-> Sorted(<<>>), destroyCount |-> -1,
     cidrs |-> Sorted(<<>>), iamActions |-> Sorted(<<>>),
     helmNamespace |-> "", appName |-> ""]

\* Mutant of ExtractK8sIntent: only the flat places are read.
ExtractK8sFlat(intent, p) ==
    LET cs == p.containers \o p.initContainers
    IN  [intent EXCEPT
            !.namespace = FirstNonEmpty(p.namespace, p.metaNamespace),
            !.kind = FirstNonEmpty(p.resource, p.kind),
            !.name = FirstNonEmpty(p.name, p.metaName),
            !.images = Images(cs),
            !.posture = Posture(cs, p.host)]

\* The flat places first, then metadata and spec.template.spec (p.pod).
ExtractK8sIntent(intent, p) ==
    LET cs == FirstList(p.containers, p.pod.containers)
              \o FirstList(p.initContainers, p.pod.initContainers)
    IN  [intent EXCEPT
            !.namespace = FirstNonEmpty(p.namespace, p.metaNamespace),
            !.kind = FirstNonEmpty(p.resource, p.kind),
            !.name = FirstNonEmpty(p.name, p.metaName),
            !.images = Images(cs),
            !.posture = Posture(cs, p.host \cup p.pod.host)]

\* Of a security group rule, cidr and cidr_blocks are read as strings; a list
\* under cidr_blocks is passed over.
RuleCidrs(r) ==
    (IF Folded(r.cidr) = "" THEN <<>> ELSE <<r.cidr.word>>)
    \o (IF r.blocks.type = "string" /\ r.blocks.value # ""
        THEN <<r.blocks.value>> ELSE <<>>)

StatementActions(s) == s.actions \o s.Action

ExtractTerraformIntent(intent, p) ==
    [intent EXCEPT
        !.resourceTypes = Sorted(p.resourceTypes),
        !.destroyCount = p.destroyCount,
        !.cidrs = Sorted(FlattenSeq(Column(p.securityGroupRules, RuleCidrs))),
        !.iamActions = Sorted(FlattenSeq(Column(p.iamStatements,
                                                StatementActions)))]

Tool(w) == <<Word(w)>>

\* The tools whose payload is read; of another only its name is kept.
KnownTools ==
    {Tool("kubectl"), Tool("oc"), Tool("terraform"), Tool("helm"), Tool("argocd")}

\* A request without a payload is its tool and operation.
ExtractSemanticIntent(tool, operation, payload) ==
    LET intent == EmptyIntent(tool, operation)
        p == payload.value
    IN  IF payload.type # "object" THEN intent
        ELSE CASE intent.tool \in {Tool("kubectl"), Tool("oc")} ->
                     ExtractK8sIntent(intent, p)
               [] intent.tool = Tool("terraform") ->
                     ExtractTerraformIntent(intent, p)
               [] intent.tool = Tool("helm") ->
                     [intent EXCEPT !.helmNamespace =
                         FirstNonEmpty(p.namespace, p.metaNamespace)]
               [] intent.tool = Tool("argocd") ->
                     [intent EXCEPT !.appName = Folded(p.appName)]
               [] intent.tool \notin KnownTools -> intent

\* extractPayloadMap: params.payload, else params.action.payload.
ExtractPayloadMap(payload, action) ==
    IF payload.type = "object" \/ action.type # "object"
    THEN payload ELSE action.value.payload
=============================================================================
