----------------------------- MODULE Invocation -----------------------------
(***************************************************************************)
(* A request for a decision and the action that the policy gets to see of  *)
(* it, on the two ways there are: pkg/validate in the client's process, and*)
(* the API server behind pkg/client.  Operators only.                      *)
(*                                                                         *)
(* A name is the sequence of its parts between dots, each with the blanks  *)
(* on its left and right, so that joining, splitting and trimming a kind   *)
(* are not the identity.  A JSON value of an invocation's params is a      *)
(* record with its type; only an object has a content.                     *)
(***************************************************************************)
EXTENDS Naturals, Sequences

CONSTANT NoContent  \* the content of an empty JSON object

Absent == [type |-> "absent"]
Null == [type |-> "null"]
Scalar == [type |-> "scalar"]
Object(x) == [type |-> "object", value |-> x]
\* A list of tags.
Strings(s) == [type |-> "strings", value |-> s]
\* A list with an element that is no string.
Mixed == [type |-> "mixed"]

\* The content of an object, and of whatever is there instead of one.
Content(v) == IF v.type = "object" THEN v.value ELSE NoContent

-----------------------------------------------------------------------------
(* Kinds                                                                   *)

\* A part of a name without blanks around it, and one of blanks only.
Word(w) == [word |-> w, left |-> FALSE, right |-> FALSE]
Blanks == [Word("") EXCEPT !.left = TRUE]

\* The empty string as a name.
NoName == <<Word("")>>

TrimLeft(p) == IF p.word = "" THEN Word("") ELSE [p EXCEPT !.left = FALSE]
TrimRight(p) == IF p.word = "" THEN Word("") ELSE [p EXCEPT !.right = FALSE]

\* strings.TrimSpace of a name: blanks next to its dots stay.
TrimSpace(name) ==
    [i \in 1 .. Len(name) |->
        IF i = 1
        THEN IF Len(name) = 1 THEN TrimRight(TrimLeft(name[i])) ELSE TrimLeft(name[i])
        ELSE IF i = Len(name) THEN TrimRight(name[i]) ELSE name[i]]

\* fmt.Sprintf("%s.%s", tool, operation)
JoinKind(tool, operation) == tool \o operation

\* splitKind succeeds: what is before and after the first dot of the trimmed
\* kind is not blank.
IsKind(kind) ==
    LET trimmed == TrimSpace(kind)
    IN  /\ Len(trimmed) >= 2
        /\ trimmed[1].word # ""
        /\ Len(trimmed) = 2 => trimmed[2].word # ""

\* The tool and the operation of splitKind; both empty when it fails.
SplitKind(kind) ==
    LET trimmed == TrimSpace(kind)
    IN  IF IsKind(kind)
        THEN [tool |-> <<trimmed[1]>>, operation |-> Tail(trimmed)]
        ELSE [tool |-> NoName, operation |-> NoName]

-----------------------------------------------------------------------------
(* Tags                                                                    *)

\* A tag without blanks around it; Tag("") is the empty string.
Tag(w) == [word |-> w, padded |-> FALSE]

TrimTag(t) == IF t.padded THEN Tag(t.word) ELSE t

-----------------------------------------------------------------------------
(* ToolInvocation.ValidateStructure                                        *)

\* validateMap and validateRiskTags
IsMap(v) == v.type \in {"absent", "null", "object"}
IsTags(v) == v.type \in {"absent", "null", "strings"}

\* inv.actor: all three fields of the actor are set; inv.hasParams: params is
\* there at all; inv.unknown: params has a key that is not documented.
ValidateStructure(inv) ==
    /\ inv.actor
    /\ inv.tool # NoName /\ inv.operation # NoName
    /\ inv.hasParams
    /\ IsMap(inv.target) /\ IsMap(inv.payload) /\ IsMap(inv.action)
    /\ IsTags(inv.tags)
    /\ ~inv.unknown

-----------------------------------------------------------------------------
(* In the client's process                                                 *)

\* toStringSlice drops the empty tags of a decoded JSON list and trims the
\* others; a tag of blanks becomes an empty one that stays.
ToStringSlice(v) ==
    IF v.type = "strings"
    THEN Strings({TrimTag(t) : t \in v.value \ {Tag("")}}) ELSE Null

\* invocationToScenario: one action, from the flat params.  params.action is
\* not read.
InvocationToScenario(inv) ==
    <<[kind |-> JoinKind(inv.tool, inv.operation),
       target |-> Object(Content(inv.target)),
       payload |-> Object(Content(inv.payload)),
       tags |-> ToStringSlice(inv.tags)]>>

-----------------------------------------------------------------------------
(* Through the API                                                         *)

\* actionToInvocation of the CLI, and the JSON encoding of its params.  The
\* actor is complete when the scenario has a type and a source: its id
\* defaults to the scenario's.  (A line break in a kind, which the API refuses,
\* is left out.)
ActionToInvocation(a, actor) ==
    [actor |-> actor, newline |-> FALSE,
     tool |-> SplitKind(a.kind).tool, operation |-> SplitKind(a.kind).operation,
     hasParams |-> TRUE, unknown |-> FALSE, action |-> Absent,
     target |-> a.target, payload |-> a.payload, tags |-> a.tags]

\* Mutant of BuildCanonicalAction: the tags stay behind.
BuildCanonicalActionUntagged(inv) ==
    [inv EXCEPT
        !.action = Object([kind |-> JoinKind(inv.tool, inv.operation),
                           target |-> inv.target, payload |-> inv.payload,
                           tags |-> Absent]),
        !.target = Absent, !.payload = Absent, !.tags = Absent,
        !.unknown = FALSE]

\* buildCanonicalAction: target, payload and risk_tags move below
\* params.action, whatever they are; other keys are dropped.
BuildCanonicalAction(inv) ==
    [actor |-> inv.actor, newline |-> inv.newline,
     tool |-> inv.tool, operation |-> inv.operation,
     hasParams |-> TRUE, unknown |-> FALSE,
     action |-> Object([kind |-> JoinKind(inv.tool, inv.operation),
                        target |-> inv.target, payload |-> inv.payload,
                        tags |-> inv.tags]),
     target |-> Absent, payload |-> Absent, tags |-> Absent]

\* handleValidate up to the engine: flat params are converted, and a params
\* that has an action key, be it null, is left alone.
Canonical(inv) ==
    IF inv.hasParams /\ inv.action.type = "absent"
    THEN BuildCanonicalAction(inv) ELSE inv

\* validatePayloadFields, then ValidateStructure of the engine's adapter.
ApiAccepts(inv) == ~inv.newline /\ ValidateStructure(Canonical(inv))

\* buildActionList on what the API accepts: the policy sees one action or, of
\* an action that is null, none.
ApiActions(inv) ==
    IF Canonical(inv).action.type = "object"
    THEN <<Canonical(inv).action.value>> ELSE <<>>

\* Two actions that no policy tells apart: of a target or payload only the
\* content counts, and a missing list of tags has no tags.
SameTags(v, w) ==
    \/ v.type = "strings" /\ v = w
    \/ v.type \in {"absent", "null"} /\ w.type \in {"absent", "null"}
SameAction(a, b) ==
    /\ a.kind = b.kind
    /\ Content(a.target) = Content(b.target)
    /\ Content(a.payload) = Content(b.payload)
    /\ SameTags(a.tags, b.tags)
=============================================================================
