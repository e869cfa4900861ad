---------------------------- MODULE EvaluationMC ----------------------------
(* Inputs and policy answers for TLC. *)
EXTENDS Evaluation

\* What the policy engine may return: types that are wrong, an empty reason, an
\* unknown risk level, lists with an empty entry.
AnyOutput ==
    [allow : {"true", "false", "missing"}, reason : {"", "r0"},
     risk : {"low", "high", "critical"},
     reasons : {{}, {""}, {"r1"}}, hits : {{}, {"ops.rule"}}]

-----------------------------------------------------------------------------
(* Invocations of every shape                                              *)

Values == {Absent, Null, Scalar, Object("x")}

Nested == Object([kind |-> <<Word("kubectl"), Word("delete")>>, target |-> Object("y"),
                  payload |-> Object("y"), tags |-> Null])

Padded(w) == [word |-> w, padded |-> TRUE]

Tags == {Absent, Null, Scalar, Mixed, Strings({Tag("breakglass")}),
         Strings({Padded("breakglass")}), Strings({Tag(""), Padded("")})}

LeftBlank(w) == [Word(w) EXCEPT !.left = TRUE]
RightBlank(w) == [Word(w) EXCEPT !.right = TRUE]

Shapes ==
    {v \in [actor : BOOLEAN, newline : BOOLEAN,
            tool : {NoName, <<Blanks>>, <<LeftBlank("kubectl")>>},
            operation : {NoName, <<Word("apply")>>,
                         <<Word("rollout"), RightBlank("restart")>>},
            hasParams : BOOLEAN, unknown : BOOLEAN,
            target : Values, payload : Values, tags : Tags,
            action : {Absent, Null, Scalar, Nested}] :
        v.hasParams \/ (~v.unknown /\ v.target = Absent /\ v.payload = Absent
                        /\ v.tags = Absent /\ v.action = Absent)}

-----------------------------------------------------------------------------
(* Files                                                                   *)

FileActions ==
    [kind : {<<LeftBlank("kubectl"), RightBlank("apply")>>,
             <<Word("oc"), LeftBlank("adm"), Word("drain")>>,
             <<LeftBlank("kubectl")>>, <<Blanks, Word("apply")>>},
     target : {Null}, payload : {Object("x")},
     tags : {Null, Strings({Tag("breakglass"), Tag(""), Padded("x")})}]

Changes == {<<>>, <<[address |-> "a", actions |-> {"create", "delete"}],
                    [address |-> "a", actions |-> {"delete"}],
                    [address |-> "", actions |-> {}]>>}

Files ==
    [format : {"scenario"}, decodes : BOOLEAN, id : BOOLEAN, actor : BOOLEAN,
     actions : BoundedSeq(FileActions, 2)]
    \cup [format : {"plan"}, changes : Changes, actor : {TRUE}]
    \cup [format : {"manifest"}, namespaces : {<<"prod">>, <<"", "prod">>},
          actor : {TRUE}]
    \cup [format : {"other"}, actor : {TRUE}]

-----------------------------------------------------------------------------
(* Workloads and the forms they come in                                    *)

Text(w) == [word |-> w, spelled |-> "plain"]
Upper(w) == [word |-> w, spelled |-> "upper"]

Container(i, p, u, c) ==
    [image |-> i, privileged |-> p, runAsUser |-> u, capabilities |-> c]

Containers ==
    {Container(i, p, -1, c) : i \in {"web", "db"}, p \in BOOLEAN,
                              c \in {<<>>, <<"SYS_ADMIN">>}}
    \cup {Container("web", FALSE, 0, <<>>),
          Container("web", FALSE, -1, <<"SYS_ADMIN", "NET_ADMIN">>),
          Container("web", FALSE, -1, <<"NET_ADMIN", "SYS_ADMIN">>)}

Workload(cs, is) ==
    [tool |-> Tool("kubectl"), operation |-> Tool("apply"), namespace |-> "prod",
     kind |-> "deployment", name |-> "shop", containers |-> cs,
     initContainers |-> is, host |-> {}]

\* One container and an init container or none, or two containers; then other
\* names, places and uses of the host.
Workloads ==
    {Workload(<<c>>, <<>>) : c \in Containers}
    \cup {Workload(<<c>>, <<d>>) : c, d \in Containers}
    \cup {Workload(<<c, d>>, <<>>) : c, d \in Containers}
    \cup {[Workload(<<Container("web", FALSE, -1, <<>>)>>, <<>>) EXCEPT
              !.tool = Tool(t), !.namespace = n, !.kind = k, !.name = m, !.host = h] :
          t \in {"kubectl", "oc"}, n \in {"", "prod"}, k \in {"", "deployment"},
          m \in {"", "shop"}, h \in {{}, {"pid"}, {"pid", "network"}}}

NoPod == [containers |-> <<>>, initContainers |-> <<>>, host |-> {}]

EmptyPayload ==
    [namespace |-> Text(""), resource |-> Text(""), kind |-> Text(""),
     name |-> Text(""), metaNamespace |-> Text(""), metaName |-> Text(""),
     appName |-> Text(""), containers |-> <<>>, initContainers |-> <<>>,
     host |-> {}, pod |-> NoPod, resourceTypes |-> <<>>, destroyCount |-> -1,
     securityGroupRules |-> <<>>, iamStatements |-> <<>>]

\* The containers as a payload has them.
Spelled(cs) == [i \in DOMAIN cs |-> [cs[i] EXCEPT !.image = Upper(@)]]

Flat(w) ==
    [EmptyPayload EXCEPT
        !.namespace = Text(w.namespace), !.resource = Text(w.kind),
        !.name = Text(w.name), !.containers = Spelled(w.containers),
        !.initContainers = Spelled(w.initContainers), !.host = w.host]

Native(w) ==
    [EmptyPayload EXCEPT
        !.metaNamespace = Text(w.namespace), !.kind = Upper(w.kind),
        !.metaName = Text(w.name),
        !.pod = [containers |-> Spelled(w.containers),
                 initContainers |-> Spelled(w.initContainers), host |-> w.host]]

Call(tool, operation, payload, action) ==
    [actor |-> TRUE, newline |-> FALSE, tool |-> tool, operation |-> operation,
     hasParams |-> TRUE, unknown |-> FALSE, target |-> Absent,
     payload |-> payload, tags |-> Absent, action |-> action]

Below(payload) ==
    Object([kind |-> <<Word("kubectl"), Word("apply")>>, target |-> Null,
            payload |-> Object(payload), tags |-> Null])

Asked(w, inv) == [type |-> "workload", workload |-> w, inv |-> inv]

\* The name of a tool with a blank before it.
Indented(tool) == <<LeftBlank(tool[1].word)>>

K8sInputs ==
    UNION {{Asked(w, Call(w.tool, w.operation, Object(Flat(w)), Absent)),
            Asked(w, Call(Indented(w.tool), w.operation, Object(Native(w)), Absent)),
            Asked(w, Call(w.tool, w.operation, Absent, Below(Native(w))))} :
           w \in Workloads}
    \cup {LET w == [Workload(<<>>, <<>>) EXCEPT
                       !.namespace = "", !.kind = "", !.name = ""]
          IN  Asked(w, Call(w.tool, w.operation, Null, Absent))}

\* listed: CIDR blocks that the plan gives as a list.
Plans == [tool : {Tool("terraform")}, operation : {Tool("plan")},
          types : {<<>>, <<"b", "a">>}, destroys : {-1, 0, 7},
          cidrs : {<<>>, <<"10.0.0.0/8">>}, listed : {<<>>, <<"0.0.0.0/0">>},
          iam : {<<>>, <<"s3:Get">>}]

WordOf(s) == IF s = <<>> THEN "" ELSE s[1]

\* The rules and the statements of a plan, spelled in the two ways.
PlanPayload(w, aws) ==
    [EmptyPayload EXCEPT
        !.resourceTypes = IF aws THEN Reverse(w.types) ELSE w.types,
        !.destroyCount = w.destroys,
        !.securityGroupRules =
            <<[cidr |-> Text(IF aws THEN "" ELSE WordOf(w.cidrs)),
               blocks |-> [type |-> "string",
                           value |-> IF aws THEN WordOf(w.cidrs) ELSE ""]],
              [cidr |-> Text(""), blocks |-> [type |-> "list", value |-> w.listed]]>>,
        !.iamStatements = <<[actions |-> IF aws THEN <<>> ELSE w.iam,
                             Action |-> IF aws THEN w.iam ELSE <<>>]>>]

PlanInputs ==
    UNION {{Asked(w, Call(w.tool, w.operation, Object(PlanPayload(w, aws)), Absent)) :
            aws \in BOOLEAN} : w \in Plans}

HelmInputs ==
    UNION {{Asked([tool |-> Tool("helm"), operation |-> Tool("upgrade"),
                   namespace |-> n],
                  Call(Tool("helm"), Tool("upgrade"), Object(p), Absent)) :
            p \in {[EmptyPayload EXCEPT !.namespace = Text(n)],
                   [EmptyPayload EXCEPT !.metaNamespace = Upper(n)]}} :
           n \in {"dev", "prod"}}

ArgoInputs ==
    {Asked([tool |-> Tool("argocd"), operation |-> Tool("sync"), app |-> a],
           Call(Tool("argocd"), Tool("sync"),
                Object([EmptyPayload EXCEPT !.appName = Text(a)]), Absent)) :
     a \in {"shop", "cart"}}

AllInputs ==
    {[type |-> "invocation", inv |-> v] : v \in Shapes}
    \cup {[type |-> "file", file |-> f] : f \in Files}
    \cup K8sInputs \cup PlanInputs \cup HelmInputs \cup ArgoInputs
=============================================================================
