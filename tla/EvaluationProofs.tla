-------------------------- MODULE EvaluationProofs --------------------------
(***************************************************************************)
(* The evaluation loop fails closed and explains its denials, for all      *)
(* inputs and whatever the policy engine returns; and the policy is shown  *)
(* the same action here and at the API.                                    *)
(***************************************************************************)
EXTENDS Evaluation, TLAPS

\* Rules and reasons are what the policy returned, or the loop's own.
Words == STRING \cup {"sys.invalid_kind", "invalid kind"}

ActionResult == [pass : BOOLEAN, risk : {"low", "medium", "high"},
                 rules : SUBSET Words, reasons : SUBSET Words]

\* Where the loop is: one result and one answer of the policy for each action so
\* far, and none before the input is loaded or when it has been refused.
TurnInv ==
    /\ results \in Seq(ActionResult)
    /\ said \in Seq(Outputs \cup {NoAnswer})
    /\ Len(said) = Len(results)
    /\ phase = "start" => results = <<>>
    /\ phase \in {"evaluate", "done"} =>
          actions # <<>> /\ Len(actions) \in Nat /\ Len(results) <= Len(actions)
    /\ phase = "done" => Len(results) = Len(actions)

\* What pass and reasons have to do with the answers so far.
VerdictInv ==
    /\ pass \in BOOLEAN
    /\ pass => \A i \in DOMAIN said : said[i].allow = "true"
    /\ ~pass => reasons # {}

LoopInv == TurnInv /\ VerdictInv

\* A scenario made of one action has an action.
LEMMA OneAction ==
    ASSUME NEW x
    PROVE  Loaded(<<x>>).actions # <<>> /\ Len(Loaded(<<x>>).actions) \in Nat
<1>1. Loaded(<<x>>).actions = <<x>>
  BY DEF Loaded
<1>2. <<x>> # <<>> /\ Len(<<x>>) \in Nat
  OBVIOUS
<1> QED
  BY <1>1, <1>2

\* A loaded scenario has at least one action.
LEMMA LoadedHasActions ==
    ASSUME NEW y \in Inputs,
           NEW sc, sc = IF y.type = "file" THEN LoadFile(y.file)
                        ELSE LoadInvocation(y.inv),
           sc.ok
    PROVE  sc.actions # <<>> /\ Len(sc.actions) \in Nat
<1>1. CASE y.type = "file"
  <2>1. sc = LoadFile(y.file)
    BY <1>1
  <2>2. CASE y.file.format = "scenario"
    <3>1. LoadFile(y.file) = IF y.file.decodes /\ y.file.id /\ y.file.actions # <<>>
                             THEN Loaded(y.file.actions) ELSE Refused
      BY <2>2 DEF LoadFile
    <3> QED
      BY <1>1, <2>1, <2>2, <3>1, EvaluationAssumption DEF Loaded, Refused
  <2>3. CASE y.file.format = "plan"
    <3>1. LoadFile(y.file) = Loaded(<<PlanAction(y.file.changes)>>)
      BY <2>3 DEF LoadFile
    <3> QED
      BY <2>1, <3>1, OneAction
  <2>4. CASE y.file.format = "manifest"
    <3>1. LoadFile(y.file) = Loaded(<<ManifestAction(y.file.namespaces)>>)
      BY <2>4 DEF LoadFile
    <3> QED
      BY <2>1, <3>1, OneAction
  <2>5. CASE y.file.format \notin {"scenario", "plan", "manifest"}
    <3>1. LoadFile(y.file) = Refused
      BY <2>5 DEF LoadFile
    <3> QED
      BY <2>1, <3>1 DEF Refused
  <2> QED
    BY <2>2, <2>3, <2>4, <2>5
<1>2. CASE y.type # "file"
  <2>1. sc = LoadInvocation(y.inv)
    BY <1>2
  <2>2. sc = Loaded(InvocationToScenario(y.inv))
    BY <2>1 DEF LoadInvocation, Refused
  <2> QED
    BY <2>2, OneAction DEF InvocationToScenario
<1> QED
  BY <1>1, <1>2

\* The next answer keeps the answers so far.
LEMMA AppendKeeps ==
    ASSUME NEW S, NEW s \in Seq(S), NEW e \in S
    PROVE  /\ Append(s, e) \in Seq(S)
           /\ Len(Append(s, e)) = Len(s) + 1
           /\ DOMAIN Append(s, e) = 1 .. (Len(s) + 1)
           /\ \A i \in DOMAIN s : Append(s, e)[i] = s[i]
           /\ Append(s, e)[Len(s) + 1] = e
           /\ \A i \in DOMAIN Append(s, e) : i \in DOMAIN s \/ i = Len(s) + 1
OBVIOUS

\* A denial that decodes has a reason.
LEMMA DenialHasReason ==
    ASSUME NEW o \in Outputs, Decodes(o)
    PROVE  DecisionOf(o).reasons # {}
BY DEF Decodes, DecisionOf

LEMMA ResultTyped ==
    ASSUME NEW o \in Outputs, NEW a
    PROVE  [pass |-> DecisionOf(o).allow,
            risk |-> ActionRisk(a, DecisionOf(o).allow),
            rules |-> DecisionOf(o).hits,
            reasons |-> DecisionOf(o).reasons] \in ActionResult
<1>1. o.reason \in STRING /\ o.reasons \subseteq STRING /\ o.hits \subseteq STRING
  BY EvaluationAssumption
<1>2. DecisionOf(o).allow \in BOOLEAN
  BY DEF DecisionOf
<1>3. DecisionOf(o).hits \in SUBSET Words
  BY <1>1 DEF DecisionOf, Words
<1>4. DecisionOf(o).reasons \in SUBSET Words
  BY <1>1 DEF DecisionOf, Words
<1>5. ActionRisk(a, DecisionOf(o).allow) \in {"low", "medium", "high"}
  BY DEF ActionRisk
<1> QED
  BY <1>2, <1>3, <1>4, <1>5 DEF ActionResult

\* One more result and one more answer.
LEMMA NextTurn ==
    ASSUME TurnInv, phase = "evaluate", Turn <= Len(actions),
           NEW r \in ActionResult, NEW o \in Outputs \cup {NoAnswer}
    PROVE  /\ Append(results, r) \in Seq(ActionResult)
           /\ Append(said, o) \in Seq(Outputs \cup {NoAnswer})
           /\ Len(Append(said, o)) = Len(Append(results, r))
           /\ Len(Append(results, r)) <= Len(actions)
<1> DEFINE Ans == Outputs \cup {NoAnswer}
<1>1. /\ results \in Seq(ActionResult) /\ said \in Seq(Ans) /\ o \in Ans
      /\ Len(said) = Len(results)
      /\ Len(actions) \in Nat /\ Len(results) + 1 <= Len(actions)
  BY DEF TurnInv, Turn
<1> HIDE DEF Ans
<1>2. /\ Append(results, r) \in Seq(ActionResult)
      /\ Len(Append(results, r)) = Len(results) + 1
      /\ Append(said, o) \in Seq(Ans) /\ Len(Append(said, o)) = Len(said) + 1
  BY <1>1, AppendKeeps
<1> QED
  BY <1>1, <1>2 DEF Ans

LEMMA LoopInit == Init => LoopInv
BY DEF Init, LoopInv, TurnInv, VerdictInv, ActionResult

LEMMA LoopStep == LoopInv /\ input \in Inputs /\ [Next]_vars => LoopInv'
<1> SUFFICES ASSUME LoopInv, input \in Inputs, [Next]_vars
             PROVE  LoopInv'
  OBVIOUS
<1> USE DEF LoopInv
<1>1. CASE Load
  <2> DEFINE sc == IF input.type = "file" THEN LoadFile(input.file)
                   ELSE LoadInvocation(input.inv)
  <2>1. phase = "start" /\ phase' = (IF sc.ok THEN "evaluate" ELSE "refused")
        /\ actions' = sc.actions /\ UNCHANGED <<results, sums, said>>
    BY <1>1 DEF Load
  <2>2. sc.ok => sc.actions # <<>> /\ Len(sc.actions) \in Nat
    BY LoadedHasActions
  <2>3. TurnInv'
    <3> HIDE DEF sc
    <3> QED
      BY <2>1, <2>2 DEF TurnInv
  <2>4. VerdictInv'
    BY <2>1 DEF VerdictInv, sums
  <2> QED
    BY <2>3, <2>4
<1>2. CASE RejectKind
  <2>1. TurnInv'
    <3> DEFINE r == [pass |-> FALSE, risk |-> "high",
                     rules |-> {"sys.invalid_kind"},
                     reasons |-> {"invalid kind"}]
    <3>1. "sys.invalid_kind" \in Words /\ "invalid kind" \in Words
      BY DEF Words
    <3>2. r \in ActionResult
      BY <3>1 DEF ActionResult
    <3>3. /\ phase = "evaluate" /\ Turn <= Len(actions)
          /\ results' = Append(results, r) /\ said' = Append(said, NoAnswer)
          /\ UNCHANGED <<phase, actions>>
      BY <1>2 DEF RejectKind
    <3> HIDE DEF r
    <3> QED
      BY <3>2, <3>3, NextTurn DEF TurnInv
  <2>2. VerdictInv'
    BY <1>2 DEF RejectKind, VerdictInv
  <2> QED
    BY <2>1, <2>2
<1>3. CASE PolicyFails
  BY <1>3 DEF PolicyFails, TurnInv, VerdictInv, sums
<1>4. CASE Finish
  BY <1>4 DEF Finish, TurnInv, VerdictInv, Turn, sums
<1>5. ASSUME NEW o \in Outputs, AskPolicy(o)
      PROVE  LoopInv'
  <2>1. TurnInv'
    <3> DEFINE r == [pass |-> DecisionOf(o).allow,
                     risk |-> ActionRisk(Action, DecisionOf(o).allow),
                     rules |-> DecisionOf(o).hits,
                     reasons |-> DecisionOf(o).reasons]
    <3>1. r \in ActionResult
      BY ResultTyped
    <3>2. /\ phase = "evaluate" /\ Turn <= Len(actions)
          /\ results' = Append(results, r) /\ said' = Append(said, o)
          /\ UNCHANGED <<phase, actions>>
      BY <1>5 DEF AskPolicy
    <3> HIDE DEF r
    <3> QED
      BY <3>1, <3>2, NextTurn DEF TurnInv
  <2>2. pass' = (pass /\ o.allow = "true") /\ said' = Append(said, o)
        /\ reasons' = reasons \cup
               (IF o.allow = "true" THEN {} ELSE DecisionOf(o).reasons)
        /\ Decodes(o)
    BY <1>5 DEF AskPolicy, DecisionOf
  <2>3. pass' => \A i \in DOMAIN said' : said'[i].allow = "true"
    <3> DEFINE Ans == Outputs \cup {NoAnswer}
    <3>1. said \in Seq(Ans) /\ o \in Ans
      BY DEF TurnInv
    <3> HIDE DEF Ans
    <3>2. /\ \A i \in DOMAIN said : said'[i] = said[i]
          /\ said'[Len(said) + 1] = o
          /\ \A i \in DOMAIN said' : i \in DOMAIN said \/ i = Len(said) + 1
      BY <2>2, <3>1, AppendKeeps
    <3> QED
      BY <2>2, <3>2 DEF VerdictInv
  <2>4. ~pass' => reasons' # {}
    BY <2>2, DenialHasReason DEF VerdictInv
  <2> QED
    BY <2>1, <2>2, <2>3, <2>4 DEF VerdictInv
<1>6. CASE UNCHANGED vars
  BY <1>6 DEF vars, sums, TurnInv, VerdictInv
<1> QED
  BY <1>1, <1>2, <1>3, <1>4, <1>5, <1>6 DEF Next

\* evaluateScenarioWithRuntime, behind LoadFile or EvaluateInvocation, passes no
\* input unless the policy was asked about every action and said true of each.
THEOREM EvaluationFailsClosed == Spec => []FailClosed
<1>1. Init => input \in Inputs
  BY DEF Init
<1>2. input \in Inputs /\ [Next]_vars => (input \in Inputs)'
  BY DEF Next, Load, RejectKind, PolicyFails, Finish, AskPolicy, vars
<1>3. LoopInv => FailClosed
  BY DEF LoopInv, TurnInv, VerdictInv, FailClosed
<1> QED
  BY <1>1, <1>2, <1>3, LoopInit, LoopStep, PTL DEF Spec

\* A scenario that evaluateScenarioWithRuntime denies has a reason, so that its
\* evidence record is not taken for one of a scenario that passed.
THEOREM DenialsAreExplained == Spec => []DenialExplained
<1>1. Init => input \in Inputs
  BY DEF Init
<1>2. input \in Inputs /\ [Next]_vars => (input \in Inputs)'
  BY DEF Next, Load, RejectKind, PolicyFails, Finish, AskPolicy, vars
<1>3. LoopInv => DenialExplained
  BY DEF LoopInv, VerdictInv, DenialExplained, NoReason
<1> QED
  BY <1>1, <1>2, <1>3, LoopInit, LoopStep, PTL DEF Spec

-----------------------------------------------------------------------------
(* The two ways to the policy.                                             *)

Source ==
    IF input.type = "file" THEN LoadFile(input.file) ELSE LoadInvocation(input.inv)

\* The loop works on the actions that were loaded.
SourceInv ==
    /\ input \in Inputs
    /\ phase \in {"evaluate", "done"} => Source.ok /\ actions = Source.actions

LEMMA SourceStep == SourceInv /\ [Next]_vars => SourceInv'
<1> SUFFICES ASSUME SourceInv, [Next]_vars PROVE SourceInv'
  OBVIOUS
<1>1. UNCHANGED input
  BY DEF Next, Load, RejectKind, PolicyFails, Finish, AskPolicy, vars
<1>2. CASE Load
  <2>1. phase' = (IF Source.ok THEN "evaluate" ELSE "refused")
        /\ actions' = Source.actions
    BY <1>2 DEF Load, Source
  <2>2. Source' = Source
    BY <1>1 DEF Source
  <2> QED
    BY <1>1, <2>1, <2>2 DEF SourceInv
<1>3. CASE ~Load
  <2>1. UNCHANGED actions /\ (phase' \in {"evaluate", "done"} =>
                                 phase \in {"evaluate", "done"})
    BY <1>3 DEF Next, RejectKind, PolicyFails, Finish, AskPolicy, vars
  <2>2. Source' = Source
    BY <1>1 DEF Source
  <2> QED
    BY <1>1, <2>1, <2>2 DEF SourceInv
<1> QED
  BY <1>2, <1>3

\* The parts of a kind: a file's, or the loader's own.
Parts ==
    [word : STRING \cup {"", "terraform", "plan", "kubectl", "apply"},
     left : BOOLEAN, right : BOOLEAN]

\* Trimming leaves a sequence of as many parts.
LEMMA TrimSpaceType ==
    ASSUME NEW kind \in Seq(Parts)
    PROVE  /\ TrimSpace(kind) \in Seq(Parts)
           /\ Len(TrimSpace(kind)) = Len(kind)
<1> DEFINE Trim(i) ==
              IF i = 1
              THEN IF Len(kind) = 1 THEN TrimRight(TrimLeft(kind[i]))
                   ELSE TrimLeft(kind[i])
              ELSE IF i = Len(kind) THEN TrimRight(kind[i]) ELSE kind[i]
<1>1. \A x \in Parts : TrimLeft(x) \in Parts /\ TrimRight(x) \in Parts
  BY DEF Parts, TrimLeft, TrimRight, Word
<1>2. ASSUME NEW i \in 1 .. Len(kind) PROVE Trim(i) \in Parts
  <2>1. kind[i] \in Parts
    OBVIOUS
  <2> QED
    BY <1>1, <2>1
<1>3. TrimSpace(kind) = [i \in 1 .. Len(kind) |-> Trim(i)]
  BY DEF TrimSpace
<1> HIDE DEF Trim
<1> QED
  BY <1>2, <1>3

\* A kind that splits is joined again from its parts, without its outer blanks.
LEMMA SplitThenJoin ==
    ASSUME NEW kind \in Seq(Parts), IsKind(kind)
    PROVE  JoinKind(SplitKind(kind).tool, SplitKind(kind).operation) = TrimSpace(kind)
<1> DEFINE trimmed == TrimSpace(kind)
<1>1. trimmed \in Seq(Parts) /\ Len(trimmed) >= 2
  BY TrimSpaceType DEF IsKind
<1>2. /\ SplitKind(kind).tool = <<trimmed[1]>>
      /\ SplitKind(kind).operation = Tail(trimmed)
  BY DEF SplitKind
<1> HIDE DEF trimmed
<1>3. <<trimmed[1]>> \o Tail(trimmed) = trimmed
  BY <1>1
<1> QED
  BY <1>2, <1>3 DEF JoinKind, trimmed

\* What the CLI sends for an action is, at the API, that action again but for
\* the outer blanks of its kind.
LEMMA ActionThroughApi ==
    ASSUME NEW a, NEW actor, a.kind \in Seq(Parts), IsKind(a.kind),
           a.tags.type \in {"null", "strings"}
    PROVE  LET as == ApiActions(ActionToInvocation(a, actor))
           IN  Len(as) = 1 /\ SameAction(as[1], Trimmed(a))
<1> DEFINE inv == ActionToInvocation(a, actor)
           b == Canonical(inv).action.value
<1>1. /\ inv.hasParams /\ inv.action.type = "absent"
      /\ inv.target = a.target /\ inv.payload = a.payload /\ inv.tags = a.tags
      /\ JoinKind(inv.tool, inv.operation) = TrimSpace(a.kind)
  BY SplitThenJoin DEF ActionToInvocation, Absent
<1> HIDE DEF inv
<1>2. Canonical(inv) = BuildCanonicalAction(inv)
  BY <1>1 DEF Canonical
<1>3. Canonical(inv).action.type = "object"
  BY <1>2 DEF BuildCanonicalAction, Object
<1>4. /\ b.kind = TrimSpace(a.kind) /\ b.target = a.target
      /\ b.payload = a.payload /\ b.tags = a.tags
  BY <1>1, <1>2 DEF BuildCanonicalAction, Object
<1>5. ApiActions(inv) = <<b>>
  BY <1>3 DEF ApiActions
<1> HIDE DEF b
<1>6. SameAction(b, Trimmed(a))
  BY <1>4 DEF SameAction, SameTags, Trimmed
<1> QED
  BY <1>5, <1>6 DEF inv

LEMMA WordsAreParts == \A k \in Seq(Part) : k \in Seq(Parts)
<1>1. Part \subseteq Parts
  BY DEF Part, Parts
<1> QED
  BY <1>1

LEMMA PairOfWords == \A S : \A u, v \in S : <<u, v>> \in Seq(S)
OBVIOUS

\* The actions of a file that was loaded.
LEMMA FileActionsTyped ==
    ASSUME NEW y \in Inputs, y.type = "file", LoadFile(y.file).ok,
           NEW i \in DOMAIN LoadFile(y.file).actions
    PROVE  LET a == LoadFile(y.file).actions[i]
           IN  a.kind \in Seq(Parts) /\ a.tags.type \in {"null", "strings"}
<1>1. ASSUME NEW x, LoadFile(y.file) = Loaded(<<x>>),
             x.kind \in Seq(Parts), x.tags = Null
      PROVE  LET a == LoadFile(y.file).actions[i]
             IN  a.kind \in Seq(Parts) /\ a.tags.type \in {"null", "strings"}
  <2>1. LoadFile(y.file).actions = <<x>>
    BY <1>1 DEF Loaded
  <2>2. LoadFile(y.file).actions[i] = x
    BY <2>1
  <2> QED
    BY <1>1, <2>2 DEF Null
<1>2. CASE y.file.format = "scenario"
  <2>1. LoadFile(y.file).actions = y.file.actions
    BY <1>2 DEF LoadFile, Loaded, Refused
  <2> QED
    BY <1>2, <2>1, EvaluationAssumption, WordsAreParts
<1>3. CASE y.file.format = "plan"
  <2> DEFINE x == PlanAction(y.file.changes)
  <2>1. x.kind = <<Word("terraform"), Word("plan")>> /\ x.tags = Null
    BY DEF PlanAction
  <2>2. LoadFile(y.file) = Loaded(<<x>>)
    BY <1>3 DEF LoadFile
  <2> HIDE DEF x
  <2>3. x.kind \in Seq(Parts)
    BY <2>1, PairOfWords DEF Parts, Word
  <2> QED
    BY <1>1, <2>1, <2>2, <2>3
<1>4. CASE y.file.format = "manifest"
  <2> DEFINE x == ManifestAction(y.file.namespaces)
  <2>1. x.kind = <<Word("kubectl"), Word("apply")>> /\ x.tags = Null
    BY DEF ManifestAction
  <2>2. LoadFile(y.file) = Loaded(<<x>>)
    BY <1>4 DEF LoadFile
  <2> HIDE DEF x
  <2>3. x.kind \in Seq(Parts)
    BY <2>1, PairOfWords DEF Parts, Word
  <2> QED
    BY <1>1, <2>1, <2>2, <2>3
<1> QED
  BY <1>2, <1>3, <1>4 DEF LoadFile, Refused

\* The API accepts a flat invocation that the client accepted, and makes the
\* client's action of it.
LEMMA InvocationThroughApi ==
    ASSUME NEW y \in Inputs, y.type # "file", LoadInvocation(y.inv).ok,
           y.inv.action.type = "absent", PlainTags(y.inv.tags), ~y.inv.newline
    PROVE  /\ ApiAccepts(y.inv)
           /\ SameAction(ApiActions(y.inv)[1], LoadInvocation(y.inv).actions[1])
<1> DEFINE inv == y.inv
           a == InvocationToScenario(inv)[1]
           b == Canonical(inv).action.value
<1>1. ValidateStructure(inv) /\ LoadInvocation(inv).actions = InvocationToScenario(inv)
  BY DEF LoadInvocation, Loaded, Refused
<1>2. inv.tags.type = "strings" => ToStringSlice(inv.tags) = inv.tags
  <2> SUFFICES ASSUME inv.tags.type = "strings"
               PROVE  ToStringSlice(inv.tags) = inv.tags
    OBVIOUS
  <2>1. inv.tags = Strings(inv.tags.value)
    BY EvaluationAssumption
  <2>2. ASSUME NEW t \in inv.tags.value PROVE t # Tag("") /\ TrimTag(t) = t
    <3>1. ~t.padded /\ t.word # ""
      BY DEF PlainTags
    <3>2. Tag("").word = ""
      BY DEF Tag
    <3>3. TrimTag(t) = t
      BY <3>1 DEF TrimTag
    <3> QED
      BY <3>1, <3>2, <3>3
  <2>3. {TrimTag(t) : t \in inv.tags.value \ {Tag("")}} = inv.tags.value
    BY <2>2
  <2> QED
    BY <2>1, <2>3 DEF ToStringSlice
<1>3. ~inv.newline /\ inv.action.type = "absent"
  OBVIOUS
<1> HIDE DEF inv
<1>4. inv.hasParams /\ IsTags(inv.tags)
  BY <1>1 DEF ValidateStructure
<1>5. Canonical(inv) = BuildCanonicalAction(inv)
  BY <1>3, <1>4 DEF Canonical
<1>6. ValidateStructure(Canonical(inv)) /\ Canonical(inv).newline = inv.newline
  BY <1>1, <1>5 DEF ValidateStructure, BuildCanonicalAction, IsMap, IsTags,
     Object, Absent
<1>7. ApiAccepts(inv)
  BY <1>3, <1>6 DEF ApiAccepts
<1>8. /\ Canonical(inv).action.type = "object"
      /\ b.kind = JoinKind(inv.tool, inv.operation)
      /\ b.target = inv.target /\ b.payload = inv.payload /\ b.tags = inv.tags
  BY <1>5 DEF BuildCanonicalAction, Object
<1>9. ApiActions(inv)[1] = b
  BY <1>8 DEF ApiActions
<1>10. /\ a.kind = JoinKind(inv.tool, inv.operation)
       /\ a.target = Object(Content(inv.target))
       /\ a.payload = Object(Content(inv.payload))
       /\ a.tags = ToStringSlice(inv.tags)
  BY DEF InvocationToScenario
<1> HIDE DEF a, b
<1>11. /\ Content(b.target) = Content(a.target)
       /\ Content(b.payload) = Content(a.payload)
  BY <1>8, <1>10 DEF Content, Object
<1>12. SameTags(b.tags, a.tags)
  <2>1. CASE inv.tags.type = "strings"
    BY <1>2, <1>8, <1>10, <2>1 DEF SameTags
  <2>2. CASE inv.tags.type # "strings"
    <3>1. inv.tags.type \in {"absent", "null"}
      BY <1>4, <2>2 DEF IsTags
    <3>2. a.tags = Null
      BY <1>10, <2>2 DEF ToStringSlice
    <3>3. a.tags.type = "null"
      BY <3>2 DEF Null
    <3> QED
      BY <1>8, <3>1, <3>3 DEF SameTags
  <2> QED
    BY <2>1, <2>2
<1>13. SameAction(b, a)
  BY <1>8, <1>10, <1>11, <1>12 DEF SameAction
<1> QED
  BY <1>1, <1>7, <1>9, <1>13 DEF a, inv

\* The policy sees the same action whether it is asked in the client's process
\* or, of what the CLI or the MCP server sends, at the API: for the actions of
\* all files, except that blanks around a kind do not get to the API, and for
\* all flat invocations that a client accepts, if no tag is empty or padded.
THEOREM BothPathsSeeTheSame == Spec => []SameActionOnBothPaths
<1>1. Init => SourceInv
  BY DEF Init, SourceInv
<1>2. SourceInv => SameActionOnBothPaths
  <2> SUFFICES ASSUME SourceInv, phase \in {"evaluate", "done"}
               PROVE  SameActionOnBothPaths
    BY DEF SameActionOnBothPaths
  <2>1. input \in Inputs /\ Source.ok /\ actions = Source.actions
    BY DEF SourceInv
  <2>2. CASE input.type = "file"
    <3>1. LoadFile(input.file).ok /\ actions = LoadFile(input.file).actions
      BY <2>1, <2>2 DEF Source
    <3>2. ASSUME NEW i \in DOMAIN actions, IsKind(actions[i].kind)
          PROVE  /\ Len(ApiActions(SentByCli(actions[i]))) = 1
                 /\ SameAction(ApiActions(SentByCli(actions[i]))[1],
                               Trimmed(actions[i]))
      <4>1. /\ actions[i].kind \in Seq(Parts)
            /\ actions[i].tags.type \in {"null", "strings"}
        BY <2>1, <2>2, <3>1, FileActionsTyped
      <4> QED
        BY <3>2, <4>1, ActionThroughApi DEF SentByCli
    <3> QED
      BY <2>2, <3>2 DEF SameActionOnBothPaths
  <2>3. CASE input.type # "file"
    <3>1. LoadInvocation(input.inv).ok
          /\ actions = LoadInvocation(input.inv).actions
      BY <2>1, <2>3 DEF Source
    <3> QED
      BY <2>1, <2>3, <3>1, InvocationThroughApi DEF SameActionOnBothPaths
  <2> QED
    BY <2>2, <2>3
<1> QED
  BY <1>1, <1>2, SourceStep, PTL DEF Spec

-----------------------------------------------------------------------------
(* The key of the deny cache for a Kubernetes workload.                    *)

\* The list cs of a payload has the containers ds; S holds the elements of both.
Describes(cs, ds, S) ==
    /\ cs \in Seq(S) /\ ds \in Seq(S) /\ Len(cs) = Len(ds)
    /\ \A i \in 1 .. Len(ds) :
          /\ Folded(cs[i].image) = ds[i].image
          /\ cs[i].privileged = ds[i].privileged
          /\ cs[i].runAsUser = ds[i].runAsUser
          /\ cs[i].capabilities = ds[i].capabilities

\* The workload at the places of a flat payload, and nothing elsewhere ...
FlatForm(p, w, S) ==
    /\ Folded(p.namespace) = w.namespace /\ Folded(p.metaNamespace) = ""
    /\ Folded(p.resource) = w.kind /\ Folded(p.kind) = ""
    /\ Folded(p.name) = w.name /\ Folded(p.metaName) = ""
    /\ Describes(p.containers, w.containers, S) /\ p.pod.containers = <<>>
    /\ Describes(p.initContainers, w.initContainers, S)
    /\ p.pod.initContainers = <<>>
    /\ p.host = w.host /\ p.pod.host = {}

\* ... or at those of a Kubernetes object.
NativeForm(p, w, S) ==
    /\ Folded(p.namespace) = "" /\ Folded(p.metaNamespace) = w.namespace
    /\ Folded(p.resource) = "" /\ Folded(p.kind) = w.kind
    /\ Folded(p.name) = "" /\ Folded(p.metaName) = w.name
    /\ p.containers = <<>> /\ Describes(p.pod.containers, w.containers, S)
    /\ p.initContainers = <<>>
    /\ Describes(p.pod.initContainers, w.initContainers, S)
    /\ p.host = {} /\ p.pod.host = w.host

\* The invocation asks for workload w, in params.payload or below params.action.
AsksFor(inv, w, S) ==
    /\ TrimSpace(inv.tool) = w.tool /\ TrimSpace(inv.operation) = w.operation
    /\ w.tool \in {Tool("kubectl"), Tool("oc")}
    /\ LET payload == ExtractPayloadMap(inv.payload, inv.action)
       IN  /\ payload.type = "object"
           /\ FlatForm(payload.value, w, S) \/ NativeForm(payload.value, w, S)

\* The intent i with the fields of workload w filled in.
WithWorkload(i, w) ==
    [i EXCEPT !.namespace = w.namespace, !.kind = w.kind,
              !.name = w.name, !.images = ImagesIn(AllContainers(w)),
              !.posture = Posture(AllContainers(w), w.host)]

LEMMA DescribesBoth ==
    ASSUME NEW S, NEW cs, NEW ds, NEW is, NEW js,
           Describes(cs, ds, S), Describes(is, js, S)
    PROVE  Describes(cs \o is, ds \o js, S)
  <1>1. /\ cs \in Seq(S) /\ ds \in Seq(S) /\ is \in Seq(S) /\ js \in Seq(S)
        /\ Len(cs) = Len(ds) /\ Len(is) = Len(js)
    BY DEF Describes
  <1>2. /\ cs \o is \in Seq(S) /\ ds \o js \in Seq(S)
        /\ Len(cs \o is) = Len(cs) + Len(is) /\ Len(ds \o js) = Len(ds) + Len(js)
    BY <1>1
  <1>3. ASSUME NEW i \in 1 .. Len(ds \o js)
        PROVE  LET c == (cs \o is)[i] d == (ds \o js)[i]
               IN  /\ Folded(c.image) = d.image /\ c.privileged = d.privileged
                   /\ c.runAsUser = d.runAsUser /\ c.capabilities = d.capabilities
    <2>1. CASE i <= Len(ds)
      <3>1. i \in 1 .. Len(ds)
        BY <1>1, <1>2, <2>1
      <3>2. (cs \o is)[i] = cs[i] /\ (ds \o js)[i] = ds[i]
        BY <1>1, <3>1
      <3> QED
        BY <3>1, <3>2 DEF Describes
    <2>2. CASE i > Len(ds)
      <3>1. i - Len(ds) \in 1 .. Len(js)
        BY <1>1, <1>2, <2>2
      <3>2. /\ (cs \o is)[i] = is[i - Len(ds)]
            /\ (ds \o js)[i] = js[i - Len(ds)]
        BY <1>1, <1>2, <2>2
      <3> QED
        BY <3>1, <3>2 DEF Describes
    <2> QED
      BY <1>1, <1>2, <2>1, <2>2
  <1>4. QED
    BY <1>1, <1>2, <1>3 DEF Describes

\* Images and posture depend on nothing but what Describes relates.
LEMMA PostureOfDescription ==
    ASSUME NEW S, NEW cs, NEW ds, Describes(cs, ds, S), NEW host
    PROVE  /\ Images(cs) = ImagesIn(ds)
           /\ Posture(cs, host) = Posture(ds, host)
  <1>1. /\ DOMAIN cs = 1 .. Len(ds) /\ DOMAIN ds = 1 .. Len(ds)
    BY DEF Describes
  <1>2. Images(cs) = ImagesIn(ds)
    <2>1. {Folded(c.image) : c \in ToSet(cs)} = {Folded(cs[i].image) : i \in DOMAIN cs}
      BY DEF ToSet
    <2>2. \A i \in DOMAIN ds : Folded(cs[i].image) = ds[i].image
      BY <1>1 DEF Describes
    <2>3. {Folded(cs[i].image) : i \in DOMAIN cs} = {ds[i].image : i \in DOMAIN ds}
      BY <1>1, <2>2
    <2> QED
      BY <2>1, <2>3 DEF Images, ImagesIn
  <1>3. /\ [i \in DOMAIN cs |-> cs[i].privileged] = [i \in DOMAIN ds |-> ds[i].privileged]
        /\ [i \in DOMAIN cs |-> cs[i].runAsUser] = [i \in DOMAIN ds |-> ds[i].runAsUser]
        /\ [i \in DOMAIN cs |-> cs[i].capabilities]
              = [i \in DOMAIN ds |-> ds[i].capabilities]
    BY <1>1 DEF Describes
  <1>4. QED
    BY <1>2, <1>3 DEF Posture

LEMMA K8sIntentOfForm ==
    ASSUME NEW S, NEW i, NEW p, NEW w, FlatForm(p, w, S) \/ NativeForm(p, w, S)
    PROVE  ExtractK8sIntent(i, p) = WithWorkload(i, w)
  <1>1. /\ FirstNonEmpty(p.namespace, p.metaNamespace) = w.namespace
        /\ FirstNonEmpty(p.resource, p.kind) = w.kind
        /\ FirstNonEmpty(p.name, p.metaName) = w.name
    BY DEF FlatForm, NativeForm, FirstNonEmpty
  <1> DEFINE cs == FirstList(p.containers, p.pod.containers)
             is == FirstList(p.initContainers, p.pod.initContainers)
  <1>2. Describes(cs, w.containers, S) /\ Describes(is, w.initContainers, S)
    <2>1. CASE FlatForm(p, w, S)
      <3>1. cs = p.containers /\ is = p.initContainers
        BY <2>1 DEF FlatForm, FirstList
      <3> QED
        BY <2>1, <3>1 DEF FlatForm
    <2>2. CASE NativeForm(p, w, S)
      <3>1. cs = p.pod.containers /\ is = p.pod.initContainers
        BY <2>2 DEF NativeForm, FirstList
      <3> QED
        BY <2>2, <3>1 DEF NativeForm
    <2> QED
      BY <2>1, <2>2
  <1>3. p.host \cup p.pod.host = w.host
    BY DEF FlatForm, NativeForm
  <1>4. ExtractK8sIntent(i, p)
          = [i EXCEPT !.namespace = FirstNonEmpty(p.namespace, p.metaNamespace),
                      !.kind = FirstNonEmpty(p.resource, p.kind),
                      !.name = FirstNonEmpty(p.name, p.metaName),
                      !.images = Images(cs \o is),
                      !.posture = Posture(cs \o is, p.host \cup p.pod.host)]
    BY DEF ExtractK8sIntent
  <1> HIDE DEF cs, is
  <1>5. Describes(cs \o is, AllContainers(w), S)
    BY <1>2, DescribesBoth DEF AllContainers
  <1>6. /\ Images(cs \o is) = ImagesIn(AllContainers(w))
        /\ Posture(cs \o is, w.host) = Posture(AllContainers(w), w.host)
    BY <1>5, PostureOfDescription
  <1>7. QED
    BY <1>1, <1>3, <1>4, <1>6 DEF WithWorkload

LEMMA KeyOfRequest ==
    ASSUME NEW S, NEW inv, NEW w, AsksFor(inv, w, S)
    PROVE  IntentKey(inv) = WithWorkload(EmptyIntent(inv.tool, inv.operation), w)
  <1> DEFINE payload == ExtractPayloadMap(inv.payload, inv.action)
             i == EmptyIntent(inv.tool, inv.operation)
  <1>1. /\ TrimSpace(inv.tool) = w.tool
        /\ w.tool \in {Tool("kubectl"), Tool("oc")} /\ payload.type = "object"
        /\ FlatForm(payload.value, w, S) \/ NativeForm(payload.value, w, S)
    BY DEF AsksFor
  <1>2. IntentKey(inv) = ExtractSemanticIntent(inv.tool, inv.operation, payload)
    BY DEF IntentKey
  <1>3. i.tool \in {Tool("kubectl"), Tool("oc")}
    BY <1>1 DEF EmptyIntent
  <1> HIDE DEF payload
  <1>4. ExtractSemanticIntent(inv.tool, inv.operation, payload)
            = ExtractK8sIntent(i, payload.value)
    <2>1. /\ i.tool # Tool("terraform") /\ i.tool # Tool("helm")
          /\ i.tool # Tool("argocd") /\ i.tool \in KnownTools
      <3> HIDE DEF i
      <3> QED
        BY <1>3 DEF KnownTools, Tool, Word
    <2> HIDE DEF i
    <2>2. QED
      BY <1>1, <1>3, <2>1 DEF ExtractSemanticIntent, i
  <1> HIDE DEF i
  <1>5. ExtractK8sIntent(i, payload.value) = WithWorkload(i, w)
    BY <1>1, K8sIntentOfForm
  <1>6. QED
    BY <1>2, <1>4, <1>5 DEF i

\* Initial segments of the numbers that are equal end at the same number.
LEMMA SameSegment ==
    ASSUME NEW m \in Nat, NEW n \in Nat, 1 .. m = 1 .. n
    PROVE  m = n
  <1>1. ASSUME m < n PROVE FALSE
    <2>1. n \in 1 .. n /\ n \notin 1 .. m
      BY <1>1
    <2> QED
      BY <2>1
  <1>2. ASSUME n < m PROVE FALSE
    <2>1. m \in 1 .. m /\ m \notin 1 .. n
      BY <1>2
    <2> QED
      BY <2>1
  <1>3. QED
    BY <1>1, <1>2

\* For every Kubernetes workload, with any number of containers: it has the same
\* key of the deny cache whether ExtractSemanticIntent finds it in a flat
\* payload, in a Kubernetes object or below params.action, and however its
\* texts are spelled; and workloads with the same key agree in tool, operation,
\* identity, images, number of containers, the use of the host, and in what the
\* container at each place runs as and whether it is privileged.
THEOREM K8sKeyFollowsWorkload ==
    \A S, inv, jnv, v, w :
        AsksFor(inv, v, S) /\ AsksFor(jnv, w, S) =>
            /\ v = w => IntentKey(inv) = IntentKey(jnv)
            /\ IntentKey(inv) = IntentKey(jnv) =>
                  v.tool = w.tool /\ v.operation = w.operation /\ ~K8sApart(v, w)
  <1> SUFFICES ASSUME NEW S, NEW inv, NEW jnv, NEW v, NEW w,
                      AsksFor(inv, v, S), AsksFor(jnv, w, S)
               PROVE  /\ v = w => IntentKey(inv) = IntentKey(jnv)
                      /\ IntentKey(inv) = IntentKey(jnv) =>
                            /\ v.tool = w.tool /\ v.operation = w.operation
                            /\ ~K8sApart(v, w)
    OBVIOUS
  <1> DEFINE K(r, x) == WithWorkload(EmptyIntent(r.tool, r.operation), x)
  <1>1. IntentKey(inv) = K(inv, v) /\ IntentKey(jnv) = K(jnv, w)
    BY KeyOfRequest
  <1>2. /\ TrimSpace(inv.tool) = v.tool /\ TrimSpace(inv.operation) = v.operation
        /\ TrimSpace(jnv.tool) = w.tool /\ TrimSpace(jnv.operation) = w.operation
    BY DEF AsksFor
  <1>3. v = w => K(inv, v) = K(jnv, w)
    BY <1>2 DEF EmptyIntent
  <1>4. \A r, x : /\ K(r, x).tool = TrimSpace(r.tool)
                  /\ K(r, x).operation = TrimSpace(r.operation)
                  /\ K(r, x).namespace = x.namespace /\ K(r, x).kind = x.kind
                  /\ K(r, x).name = x.name /\ K(r, x).images = ImagesIn(AllContainers(x))
                  /\ K(r, x).posture = Posture(AllContainers(x), x.host)
    BY DEF EmptyIntent, WithWorkload
  <1> HIDE DEF K
  <1>5. ASSUME K(inv, v) = K(jnv, w)
        PROVE  v.tool = w.tool /\ v.operation = w.operation /\ ~K8sApart(v, w)
    <2> DEFINE a == AllContainers(v)
               b == AllContainers(w)
    <2>1. /\ v.tool = w.tool /\ v.operation = w.operation
          /\ v.namespace = w.namespace /\ v.kind = w.kind /\ v.name = w.name
          /\ ImagesIn(AllContainers(v)) = ImagesIn(AllContainers(w)) /\ Posture(a, v.host) = Posture(b, w.host)
      BY <1>2, <1>4, <1>5
    <2>2. a \in Seq(S) /\ b \in Seq(S)
      <3>1. /\ v.containers \in Seq(S) /\ v.initContainers \in Seq(S)
            /\ w.containers \in Seq(S) /\ w.initContainers \in Seq(S)
        BY DEF AsksFor, FlatForm, NativeForm, Describes
      <3> QED
        BY <3>1 DEF AllContainers
    <2> HIDE DEF a, b
    <2>3. /\ [i \in DOMAIN a |-> a[i].privileged] = [i \in DOMAIN b |-> b[i].privileged]
          /\ [i \in DOMAIN a |-> a[i].runAsUser] = [i \in DOMAIN b |-> b[i].runAsUser]
          /\ v.host = w.host
      BY <2>1 DEF Posture
    <2>4. /\ Len(a) \in Nat /\ Len(b) \in Nat
          /\ DOMAIN a = 1 .. Len(a) /\ DOMAIN b = 1 .. Len(b)
      BY <2>2
    <2>5. DOMAIN a = DOMAIN b
      <3> DEFINE f == [i \in DOMAIN a |-> a[i].privileged]
                 g == [i \in DOMAIN b |-> b[i].privileged]
      <3>1. DOMAIN f = DOMAIN a /\ DOMAIN g = DOMAIN b
        OBVIOUS
      <3>2. f = g
        BY <2>3
      <3> HIDE DEF f, g
      <3> QED
        BY <3>1, <3>2
    <2>6. Len(a) = Len(b)
      BY <2>4, <2>5, SameSegment
    <2>7. \A i \in 1 .. Len(a) : /\ a[i].privileged = b[i].privileged
                                 /\ a[i].runAsUser = b[i].runAsUser
      BY <2>3, <2>4, <2>5
    <2> QED
      BY <2>1, <2>3, <2>6, <2>7 DEF K8sApart, a, b
  <1>6. QED
    BY <1>1, <1>3, <1>5
=============================================================================
