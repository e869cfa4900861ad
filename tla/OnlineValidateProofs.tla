------------------------ MODULE OnlineValidateProofs -------------------------
(***************************************************************************)
(* A validate command reports the decision of one evaluator on the whole   *)
(* scenario, under the policy it names, for any scenario and any policy    *)
(* versions, however the API is redeployed, fails, dies or answers late.   *)
(***************************************************************************)
EXTENDS OnlineValidate, TLAPS

Aggregate == [pass : BOOLEAN, evidence : Seq(Nat),
              policyRef : Versions \cup {NoRef, "mixed"}]

Commands ==
    [pc : {"start", "send", "wait", "open", "rules", "ref", "append", "done"},
     scenario : Seq(Actions), fallback : {"closed", "offline"},
     next : Nat \ {0}, agg : Aggregate, files : {"bundle", "loose"},
     rules : Versions \cup {NoRef}, ref : Versions \cup {NoRef},
     edited : BOOLEAN, source : {"none", "api", "local", "local-fallback"},
     exit : {-1, 0, 1, 2, 3, 4}]

Servers == [up : BOOLEAN, db : BOOLEAN, key : BOOLEAN,
            version : Versions, shape : Shapes]

WorldInv ==
    /\ server \in Servers
    /\ disk \in Versions
    /\ changes \in 0 .. MaxChanges

Evaluating == {"open", "rules", "ref", "append"}

\* Which evaluator is at work at which step, and how a command has ended.
StageInv ==
    /\ cli.pc = "start" =>
          /\ requests = {} /\ answers = {} /\ signed = {} /\ denials = {}
          /\ cli = Idle
    /\ cli.pc \in {"send", "wait"} => cli.source = "api"
    /\ cli.pc \in Evaluating => cli.source \in {"local", "local-fallback"}
    /\ cli.source = "api" => cli.pc \in {"send", "wait", "done"}
    /\ cli.pc # "done" => cli.exit = -1
    /\ cli.source = "none" => cli.exit \notin {0, 2}
    /\ cli.source = "local" => denials = {}

RequestInv ==
    \A q \in requests : q.id \in Indexes /\ q.action = cli.scenario[q.id]

\* An answer with a decision is the one that was signed for the action that the
\* command waits for.
AnswerInv ==
    /\ cli.pc # "wait" => answers = {}
    /\ \A a \in answers :
          /\ a.id = cli.next
          /\ a.status \in {200, 400, 401, 500}
          /\ a.status = 200 =>
                /\ a.body.policyRef \in Versions /\ a.body.event \in Nat
                /\ a.body.allow = (cli.scenario[cli.next] \in Allowed[a.body.policyRef])
                /\ \E s \in signed : s.id = cli.next
                /\ \A s \in signed : s.id = cli.next =>
                      s.allow = a.body.allow /\ s.version = a.body.policyRef

\* The command has asked for the actions before cli.next, each was decided and
\* signed once, and the aggregate is about all of them.
AskInv ==
    cli.source = "api" =>
        /\ IF cli.pc = "done" THEN cli.next = Len(cli.scenario) + 1
           ELSE cli.next <= Len(cli.scenario)
        /\ cli.pc # "wait" => requests = {} /\ \A s \in signed : s.id # cli.next
        /\ requests # {} => answers = {} /\ \A s \in signed : s.id # cli.next
        /\ \A q \in requests :
              q = [id |-> cli.next, action |-> cli.scenario[cli.next]]
        /\ \A i \in 1 .. (cli.next - 1) : \E s \in signed : s.id = i
        /\ \A s \in signed : s.id \in 1 .. cli.next
        /\ cli.pc = "done" => cli.exit = CodeOf(cli.agg.pass)

AggregateInv ==
    cli.source = "api" =>
        /\ cli.agg.pass =>
              denials = {} /\ \A s \in signed : s.id < cli.next => s.allow
        /\ cli.agg.policyRef \in Versions =>
              \A s \in signed : s.id < cli.next => s.version = cli.agg.policyRef
        /\ cli.agg.policyRef = NoRef => cli.next = 1

\* A policy that denied the scenario is one that does not pass it.
DenialInv ==
    \A v \in denials :
        v \in Versions /\ \E i \in Indexes : cli.scenario[i] \notin Allowed[v]

\* What the local evaluation has read, as long as nobody edits the files.
ReadInv ==
    /\ cli.pc \in {"rules", "ref", "append"} /\ ~cli.edited =>
          /\ cli.pc = "rules" /\ cli.files = "bundle" => cli.ref = disk
          /\ cli.pc = "ref" => /\ cli.rules = disk
                               /\ cli.files = "bundle" => cli.ref = cli.rules
          /\ cli.pc = "append" => cli.ref = cli.rules
    /\ cli.pc \in {"ref", "append"} => cli.rules \in Versions

\* How a local evaluation ended.
LocalInv ==
    cli.pc = "done" /\ cli.source \in {"local", "local-fallback"} =>
        /\ \E r \in log : /\ r.scenario = cli.scenario
                          /\ CodeOf(r.pass) = cli.exit
                          /\ r.policyRef = cli.agg.policyRef
        /\ cli.exit = CodeOf(Pass(cli.scenario, cli.rules))
        /\ cli.agg.policyRef = RefOf(cli.scenario, cli.ref)
        /\ cli.edited \/ cli.ref = cli.rules

OnlineInv ==
    /\ WorldInv /\ cli \in Commands
    /\ StageInv /\ RequestInv /\ AnswerInv /\ AskInv /\ AggregateInv
    /\ DenialInv /\ ReadInv /\ LocalInv

-----------------------------------------------------------------------------
(* The command ends without a decision, or falls back.                     *)

LEMMA FreshType == Fresh \in Aggregate /\ Idle \in Commands
<1>1. <<>> \in Seq(Nat) /\ <<>> \in Seq(Actions)
  OBVIOUS
<1>2. Fresh \in Aggregate
  BY <1>1 DEF Fresh, Aggregate
<1> QED
  BY <1>1, <1>2 DEF Idle, Commands

\* The denials are about the scenario of the command.
Justified(D) ==
    \A v \in D :
        v \in Versions /\ \E i \in Indexes : cli.scenario[i] \notin Allowed[v]

LEMMA EndsWithout ==
    ASSUME OnlineInv, NEW c \in {1, 3, 4}, Exit(c, "none"), WorldInv',
           requests' \subseteq requests, answers' = {}, Justified(denials')
    PROVE  OnlineInv'
<1>1. /\ cli' \in Commands /\ cli'.pc = "done" /\ cli'.exit = c
      /\ cli'.source = "none" /\ cli'.scenario = cli.scenario
  BY DEF Exit, OnlineInv, Commands
<1>2. StageInv'
  BY <1>1 DEF StageInv, Evaluating
<1>3. RequestInv' /\ DenialInv'
  BY <1>1 DEF OnlineInv, RequestInv, DenialInv, Justified, Indexes
<1>4. AnswerInv' /\ AskInv' /\ AggregateInv' /\ ReadInv' /\ LocalInv'
  BY <1>1 DEF AnswerInv, AskInv, AggregateInv, ReadInv, LocalInv
<1> QED
  BY <1>1, <1>2, <1>3, <1>4 DEF OnlineInv

LEMMA FailKeeps ==
    ASSUME OnlineInv, cli.pc \in {"send", "wait"}, NEW e, Fail(e), WorldInv',
           requests' \subseteq requests, answers' = {}, Justified(denials')
    PROVE  OnlineInv'
<1>1. CASE Exit(1, "none") \/ Exit(3, "none")
  BY <1>1, EndsWithout
<1>2. CASE cli' = [cli EXCEPT !.pc = "open", !.source = "local-fallback",
                              !.agg = Fresh]
  <2>1. /\ cli' \in Commands /\ cli'.pc = "open" /\ cli'.exit = cli.exit
        /\ cli'.source = "local-fallback" /\ cli'.scenario = cli.scenario
    BY <1>2, FreshType DEF OnlineInv, Commands
  <2>2. cli.exit = -1
    BY DEF OnlineInv, StageInv
  <2>3. StageInv'
    BY <2>1, <2>2 DEF StageInv, Evaluating
  <2>4. RequestInv' /\ DenialInv'
    BY <2>1 DEF OnlineInv, RequestInv, DenialInv, Justified, Indexes
  <2>5. AnswerInv' /\ AskInv' /\ AggregateInv' /\ ReadInv' /\ LocalInv'
    BY <2>1 DEF AnswerInv, AskInv, AggregateInv, ReadInv, LocalInv
  <2> QED
    BY <2>1, <2>3, <2>4, <2>5 DEF OnlineInv
<1> QED
  BY <1>1, <1>2 DEF Fail

-----------------------------------------------------------------------------
(* The steps of the command.                                               *)

LEMMA RefuseKeeps == ASSUME OnlineInv, Refuse PROVE OnlineInv'
<1>1. /\ UNCHANGED <<server, requests, answers, disk, changes, denials>>
      /\ Exit(4, "none") \/ Exit(1, "none")
      /\ answers = {}
  BY DEF Refuse, apiVars, OnlineInv, StageInv
<1>2. WorldInv' /\ Justified(denials')
  BY <1>1 DEF OnlineInv, WorldInv, DenialInv, Justified
<1> QED
  BY <1>1, <1>2, EndsWithout

LEMMA BeginKeeps ==
    ASSUME OnlineInv, NEW sc \in Scenarios, NEW cfg \in ModeConfig,
           NEW files \in {"bundle", "loose"}, Begin(sc, cfg, files)
    PROVE  OnlineInv'
<1>1. /\ UNCHANGED <<server, requests, answers, signed, disk, log, changes, denials>>
      /\ requests = {} /\ answers = {} /\ signed = {} /\ denials = {}
  BY DEF Begin, apiVars, OnlineInv, StageInv
<1>2. sc \in Seq(Actions) /\ Len(sc) \in Nat /\ Len(sc) >= 1
  <2>1. sc \in Seq(Actions) /\ sc # <<>>
    BY OnlineAssumption
  <2> QED
    BY <2>1
<1>3. Resolve(cfg) \in {"online", "offline"}
  BY DEF Begin, Resolve
<1>4. PICK l \in {"send", "open"}, so \in {"api", "local"}, fb \in {"closed", "offline"} :
         /\ l = "send" <=> so = "api"
         /\ cli' = [Idle EXCEPT !.pc = l, !.scenario = sc, !.files = files,
                                !.source = so, !.fallback = fb]
  BY <1>3 DEF Begin, NormalizeFallback
<1>5. /\ cli' \in Commands /\ cli'.pc = l /\ cli'.source = so
      /\ cli'.scenario = sc /\ cli'.next = 1 /\ cli'.exit = -1
      /\ cli'.agg = Fresh /\ cli'.edited = FALSE
  BY <1>2, <1>4, FreshType DEF Idle, Commands
<1>6. WorldInv'
  BY <1>1 DEF OnlineInv, WorldInv
<1>7. StageInv'
  BY <1>1, <1>4, <1>5 DEF StageInv, Evaluating
<1>8. RequestInv' /\ AnswerInv' /\ DenialInv' /\ ReadInv' /\ LocalInv'
  BY <1>1, <1>4, <1>5 DEF RequestInv, AnswerInv, DenialInv, ReadInv, LocalInv
<1>9. AskInv'
  BY <1>1, <1>2, <1>4, <1>5 DEF AskInv
<1>10. AggregateInv'
  BY <1>1, <1>5 DEF AggregateInv
<1> QED
  BY <1>5, <1>6, <1>7, <1>8, <1>9, <1>10 DEF OnlineInv

LEMMA SendKeeps == ASSUME OnlineInv, Send PROVE OnlineInv'
<1>0. /\ UNCHANGED <<server, answers, signed, disk, log, changes, denials>>
      /\ cli.pc = "send" /\ cli.source = "api" /\ answers = {} /\ cli \in Commands
      /\ requests = {} /\ cli.next <= Len(cli.scenario) /\ cli.exit = -1
  BY DEF Send, OnlineInv, StageInv, AnswerInv, AskInv
<1>1. WorldInv' /\ Justified(denials')
  BY <1>0 DEF OnlineInv, WorldInv, DenialInv, Justified
<1>2. CASE ~server.up
  BY <1>0, <1>1, <1>2, FailKeeps DEF Send
<1>3. CASE server.up
  <2> DEFINE q == [id |-> cli.next, action |-> cli.scenario[cli.next]]
  <2>1. requests' = {q}
    BY <1>0, <1>3 DEF Send
  <2>2. /\ cli' \in Commands /\ cli'.pc = "wait" /\ cli'.source = "api"
        /\ cli'.scenario = cli.scenario /\ cli'.next = cli.next
        /\ cli'.agg = cli.agg /\ cli'.exit = -1
    BY <1>0, <1>3 DEF Send, Commands
  <2>3. cli.next \in Nat /\ cli.next >= 1 /\ Len(cli.scenario) \in Nat
    BY <1>0 DEF Commands
  <2>4. cli.next \in Indexes
    BY <1>0, <2>3 DEF Indexes
  <2>5. q.id = cli.next /\ q.action = cli.scenario[cli.next]
    OBVIOUS
  <2> HIDE DEF q
  <2>6. RequestInv'
    BY <2>1, <2>2, <2>4, <2>5 DEF RequestInv, Indexes
  <2>7. StageInv'
    BY <2>2 DEF StageInv, Evaluating
  <2>8. AnswerInv' /\ ReadInv' /\ LocalInv'
    BY <1>0, <2>2 DEF AnswerInv, ReadInv, LocalInv
  <2>9. DenialInv'
    BY <1>0, <1>1, <2>2 DEF DenialInv, Justified, Indexes
  <2>10. AggregateInv'
    BY <1>0, <2>2 DEF OnlineInv, AggregateInv
  <2>11. AskInv'
    BY <1>0, <2>1, <2>2 DEF OnlineInv, AskInv, q
  <2> QED
    BY <1>1, <2>2, <2>6, <2>7, <2>8, <2>9, <2>10, <2>11 DEF OnlineInv
<1> QED
  BY <1>2, <1>3

LEMMA TimeoutKeeps == ASSUME OnlineInv, Timeout PROVE OnlineInv'
<1>1. /\ UNCHANGED <<server, requests, disk, changes, denials>> /\ answers' = {}
      /\ cli.pc = "wait" /\ Fail("api_unreachable")
  BY DEF Timeout
<1>2. WorldInv' /\ Justified(denials')
  BY <1>1 DEF OnlineInv, WorldInv, DenialInv, Justified
<1> QED
  BY <1>1, <1>2, FailKeeps

\* The policy of the aggregate is that of all answers, or "mixed".
LEMMA MergeRefNames ==
    ASSUME NEW old \in Versions \cup {NoRef, "mixed"}, NEW new \in Versions
    PROVE  /\ MergeRef(old, new) \in (Versions \cup {"mixed"}) \ {NoRef}
           /\ MergeRef(old, new) \in Versions =>
                 MergeRef(old, new) = new /\ (old = NoRef \/ old = new)
BY OnlineAssumption DEF MergeRef

LEMMA DecidedKeeps ==
    ASSUME OnlineInv, NEW a \in answers, cli.pc = "wait", a.status = 200,
           Decided(a.body), answers' = {},
           denials' = IF a.body.allow THEN denials
                      ELSE denials \cup {a.body.policyRef},
           UNCHANGED <<server, requests, signed, disk, log, changes>>
    PROVE  OnlineInv'
<1> DEFINE r == Decode(a.body)
           agg == Merge(cli.agg, r)
           last == cli.next = Len(cli.scenario)
<1>0. /\ cli \in Commands /\ cli.source = "api"
      /\ cli.next \in Nat /\ cli.next >= 1 /\ Len(cli.scenario) \in Nat
      /\ cli.next <= Len(cli.scenario) /\ cli.agg \in Aggregate /\ cli.exit = -1
  BY DEF OnlineInv, StageInv, AskInv, Commands
<1>1. /\ a.body.policyRef \in Versions /\ a.body.event \in Nat
      /\ a.body.allow = (cli.scenario[cli.next] \in Allowed[a.body.policyRef])
      /\ \E s \in signed : s.id = cli.next
      /\ \A s \in signed : s.id = cli.next =>
            s.allow = a.body.allow /\ s.version = a.body.policyRef
      /\ requests = {}
  BY <1>0 DEF OnlineInv, AnswerInv, AskInv
<1>2. /\ r.pass \in BOOLEAN /\ r.pass => a.body.allow
      /\ r.evidence \in Nat /\ r.policyRef = a.body.policyRef
  <2>1. a.body.allow \in BOOLEAN
    BY <1>1
  <2> QED
    BY <1>1, <2>1 DEF Decode
<1>2a. LET ref == MergeRef(cli.agg.policyRef, a.body.policyRef)
       IN  /\ ref \in (Versions \cup {"mixed"}) \ {NoRef}
           /\ ref \in Versions => /\ ref = a.body.policyRef
                                  /\ \/ cli.agg.policyRef = NoRef
                                     \/ cli.agg.policyRef = a.body.policyRef
  <2>1. cli.agg.policyRef \in Versions \cup {NoRef, "mixed"}
    BY <1>0 DEF Aggregate
  <2> QED
    BY <1>1, <2>1, MergeRefNames
<1> HIDE DEF r
<1>3. /\ agg \in Aggregate /\ agg.pass = (cli.agg.pass /\ r.pass)
      /\ agg.policyRef = MergeRef(cli.agg.policyRef, r.policyRef)
  <2>1. Append(cli.agg.evidence, r.evidence) \in Seq(Nat)
    BY <1>0, <1>2 DEF Aggregate
  <2>2. MergeRef(cli.agg.policyRef, r.policyRef) \in Versions \cup {NoRef, "mixed"}
    BY <1>1, <1>2, <1>2a
  <2> QED
    BY <1>0, <1>2, <2>1, <2>2 DEF Merge, Aggregate
<1>4. /\ cli' = [cli EXCEPT !.agg = agg, !.next = @ + 1,
                            !.pc = IF last THEN "done" ELSE "send",
                            !.exit = IF last THEN CodeOf(agg.pass) ELSE @]
      /\ CodeOf(agg.pass) \in {0, 2}
  BY DEF Decided, CodeOf, r
<1> HIDE DEF agg
<1>5. /\ cli' \in Commands /\ cli'.agg = agg /\ cli'.next = cli.next + 1
      /\ cli'.pc = IF last THEN "done" ELSE "send"
      /\ cli'.exit = IF last THEN CodeOf(agg.pass) ELSE -1
      /\ cli'.source = "api" /\ cli'.scenario = cli.scenario
  <2>1. cli.next + 1 \in Nat \ {0}
    BY <1>0
  <2>2. CASE last
    <3>1. cli' = [cli EXCEPT !.agg = agg, !.next = cli.next + 1, !.pc = "done",
                             !.exit = CodeOf(agg.pass)]
      BY <1>4, <2>2
    <3>2. CodeOf(agg.pass) \in {-1, 0, 1, 2, 3, 4}
      BY <1>4
    <3> HIDE DEF last
    <3> QED
      BY <1>0, <1>3, <2>1, <2>2, <3>1, <3>2 DEF Commands
  <2>3. CASE ~last
    <3>1. cli' = [cli EXCEPT !.agg = agg, !.next = cli.next + 1, !.pc = "send",
                             !.exit = cli.exit]
      BY <1>4, <2>3
    <3> HIDE DEF last
    <3> QED
      BY <1>0, <1>3, <2>1, <2>3, <3>1 DEF Commands
  <2> QED
    BY <2>2, <2>3
<1>6. WorldInv' /\ RequestInv' /\ AnswerInv' /\ ReadInv' /\ LocalInv'
  BY <1>1, <1>5 DEF OnlineInv, WorldInv, RequestInv, AnswerInv, ReadInv, LocalInv
<1>7. StageInv'
  BY <1>5 DEF StageInv, Evaluating
<1>8. DenialInv'
  <2>1. cli.next \in Indexes
    BY <1>0 DEF Indexes
  <2>2. ASSUME NEW v \in denials'
        PROVE  v \in Versions /\ \E i \in Indexes : cli.scenario[i] \notin Allowed[v]
    <3>1. CASE v \in denials
      BY <3>1 DEF OnlineInv, DenialInv
    <3>2. CASE v = a.body.policyRef /\ ~a.body.allow
      BY <1>1, <2>1, <3>2
    <3> QED
      BY <2>2, <3>1, <3>2
  <2> QED
    BY <1>5, <2>2 DEF DenialInv, Indexes
<1>9. AskInv'
  <2>1. \A i \in 1 .. cli.next : \E s \in signed : s.id = i
    <3>1. \A i \in 1 .. (cli.next - 1) : \E s \in signed : s.id = i
      BY <1>0 DEF OnlineInv, AskInv
    <3>2. \A i \in 1 .. cli.next : i = cli.next \/ i \in 1 .. (cli.next - 1)
      BY <1>0
    <3> QED
      BY <1>1, <3>1, <3>2
  <2>2. \A s \in signed : s.id \in 1 .. cli.next
    BY <1>0 DEF OnlineInv, AskInv
  <2>3. \A s \in signed : s.id \in 1 .. (cli.next + 1) /\ s.id # cli.next + 1
    BY <1>0, <2>2
  <2>4. /\ last => cli.next + 1 = Len(cli.scenario) + 1
        /\ ~last => cli.next + 1 <= Len(cli.scenario)
        /\ (cli.next + 1) - 1 = cli.next
    BY <1>0
  <2> QED
    BY <1>1, <1>5, <2>1, <2>3, <2>4 DEF AskInv
<1>10. AggregateInv'
  <2>1. \A s \in signed : s.id \in 1 .. cli.next
    BY <1>0 DEF OnlineInv, AskInv
  <2>2. \A s \in signed : s.id < cli.next + 1 => s.id < cli.next \/ s.id = cli.next
    BY <1>0, <2>1
  <2>3. agg.pass => denials' = {} /\ \A s \in signed : s.id < cli.next + 1 => s.allow
    <3> SUFFICES ASSUME agg.pass
                 PROVE  denials' = {} /\ \A s \in signed : s.id < cli.next + 1 => s.allow
      OBVIOUS
    <3>1. cli.agg.pass /\ a.body.allow
      BY <1>2, <1>3
    <3>2. denials = {} /\ \A s \in signed : s.id < cli.next => s.allow
      BY <1>0, <3>1 DEF OnlineInv, AggregateInv
    <3> QED
      BY <1>1, <2>2, <3>1, <3>2
  <2>4. ASSUME agg.policyRef \in Versions, NEW s \in signed, s.id < cli.next + 1
        PROVE  s.version = agg.policyRef
    <3>1. /\ agg.policyRef = a.body.policyRef
          /\ cli.agg.policyRef = NoRef \/ cli.agg.policyRef = agg.policyRef
      BY <1>2, <1>2a, <1>3, <2>4
    <3>2. CASE s.id = cli.next
      BY <1>1, <3>1, <3>2
    <3>3. CASE s.id < cli.next
      <4>1. cli.next # 1
        BY <2>1, <3>3
      <4>2. cli.agg.policyRef = agg.policyRef
        BY <1>0, <3>1, <4>1 DEF OnlineInv, AggregateInv
      <4> QED
        BY <1>0, <2>4, <3>3, <4>2 DEF OnlineInv, AggregateInv
    <3> QED
      BY <2>2, <2>4, <3>2, <3>3
  <2>5. agg.policyRef # NoRef
    BY <1>2, <1>2a, <1>3
  <2> QED
    BY <1>5, <2>3, <2>4, <2>5 DEF AggregateInv
<1> QED
  BY <1>5, <1>6, <1>7, <1>8, <1>9, <1>10 DEF OnlineInv

LEMMA ReceiveKeeps ==
    ASSUME OnlineInv, NEW a \in answers, Receive(a) PROVE OnlineInv'
<1>1. /\ cli.pc = "wait" /\ answers' = {}
      /\ UNCHANGED <<server, requests, signed, disk, log, changes>>
  BY DEF Receive
<1>2. WorldInv'
  BY <1>1 DEF OnlineInv, WorldInv
<1>3. a.status \in {200, 400, 401, 500}
  BY DEF OnlineInv, AnswerInv
<1>4. ClassOf(a.status) = "ok" <=> a.status = 200
  BY <1>3 DEF ClassOf
<1>5. CASE a.status # 200
  <2>1. Fail(ClassOf(a.status)) /\ denials' = denials
    BY <1>4, <1>5 DEF Receive
  <2>2. Justified(denials')
    BY <2>1 DEF OnlineInv, DenialInv, Justified
  <2> QED
    BY <1>1, <1>2, <2>1, <2>2, FailKeeps
<1>6. CASE a.status = 200
  <2>1. /\ Decided(a.body) \/ Fail("server_error")
        /\ denials' = IF a.body.allow THEN denials
                      ELSE denials \cup {a.body.policyRef}
    BY <1>4, <1>6 DEF Receive
  <2>2. CASE Decided(a.body)
    BY <1>1, <1>6, <2>1, <2>2, DecidedKeeps
  <2>3. CASE Fail("server_error")
    <3>1. /\ a.body.policyRef \in Versions
          /\ a.body.allow = (cli.scenario[cli.next] \in Allowed[a.body.policyRef])
      BY <1>6 DEF OnlineInv, AnswerInv
    <3>2. cli.next \in Indexes
      BY <1>1 DEF OnlineInv, StageInv, AskInv, Commands, Indexes
    <3>3. Justified(denials)
      BY DEF OnlineInv, DenialInv, Justified
    <3>4. Justified(denials')
      BY <2>1, <3>1, <3>2, <3>3 DEF Justified
    <3> QED
      BY <1>1, <1>2, <2>3, <3>4, FailKeeps
  <2> QED
    BY <2>1, <2>2, <2>3
<1> QED
  BY <1>5, <1>6

-----------------------------------------------------------------------------
(* The local evaluation.                                                   *)

LEMMA LocalMove ==
    ASSUME OnlineInv, cli.pc \in Evaluating, cli' \in Commands,
           cli'.pc \in Evaluating, cli'.source = cli.source,
           cli'.scenario = cli.scenario, cli'.exit = cli.exit, ReadInv',
           UNCHANGED <<apiVars, disk, changes, denials>>
    PROVE  OnlineInv'
<1>1. /\ cli.source \in {"local", "local-fallback"} /\ cli.exit = -1
      /\ answers = {}
  BY DEF OnlineInv, StageInv, Evaluating, AnswerInv
<1>2. UNCHANGED <<server, requests, answers, signed, disk, changes, denials>>
  BY DEF apiVars
<1>3. WorldInv' /\ RequestInv' /\ DenialInv'
  BY <1>2 DEF OnlineInv, WorldInv, RequestInv, DenialInv, Indexes
<1>4. StageInv'
  BY <1>1, <1>2 DEF OnlineInv, StageInv, Evaluating
<1>5. AnswerInv' /\ AskInv' /\ AggregateInv' /\ LocalInv'
  BY <1>1, <1>2 DEF AnswerInv, AskInv, AggregateInv, LocalInv, Evaluating
<1> QED
  BY <1>3, <1>4, <1>5 DEF OnlineInv

LEMMA LocalEnd ==
    ASSUME OnlineInv, cli.pc \in Evaluating, Exit(1, "none"),
           UNCHANGED <<apiVars, disk, changes, denials>>
    PROVE  OnlineInv'
<1>1. UNCHANGED <<requests, answers>> /\ answers = {} /\ WorldInv'
      /\ Justified(denials')
  BY DEF apiVars, OnlineInv, WorldInv, AnswerInv, Evaluating, DenialInv, Justified
<1> QED
  BY <1>1, EndsWithout

LEMMA OpenKeeps == ASSUME OnlineInv, Open PROVE OnlineInv'
<1>0. /\ cli.pc = "open" /\ UNCHANGED <<apiVars, disk, changes, denials>>
      /\ cli \in Commands /\ disk \in Versions
  BY DEF Open, OnlineInv, WorldInv
<1>1. ASSUME NEW x \in Versions \cup {NoRef}, cli.files = "bundle" => x = disk,
             cli' = [cli EXCEPT !.pc = "rules", !.ref = x]
      PROVE  OnlineInv'
  <2>1. /\ cli' \in Commands /\ cli'.pc = "rules" /\ cli'.source = cli.source
        /\ cli'.scenario = cli.scenario /\ cli'.exit = cli.exit
        /\ cli'.ref = x /\ cli'.files = cli.files
    BY <1>0, <1>1 DEF Commands
  <2>2. ReadInv'
    BY <1>0, <1>1, <2>1 DEF ReadInv
  <2> QED
    BY <1>0, <2>1, <2>2, LocalMove DEF Evaluating
<1>2. CASE Exit(1, "none")
  BY <1>0, <1>2, LocalEnd DEF Evaluating
<1> QED
  BY <1>0, <1>1, <1>2 DEF Open

LEMMA LoadPolicyKeeps == ASSUME OnlineInv, LoadPolicy PROVE OnlineInv'
<1>0. /\ cli.pc = "rules" /\ UNCHANGED <<apiVars, disk, changes, denials>>
      /\ cli \in Commands /\ disk \in Versions
  BY DEF LoadPolicy, OnlineInv, WorldInv
<1>1. CASE cli' = [cli EXCEPT !.pc = "ref", !.rules = disk]
  <2>1. /\ cli' \in Commands /\ cli'.pc = "ref" /\ cli'.source = cli.source
        /\ cli'.scenario = cli.scenario /\ cli'.exit = cli.exit
        /\ cli'.ref = cli.ref /\ cli'.files = cli.files
        /\ cli'.rules = disk /\ cli'.edited = cli.edited
    BY <1>0, <1>1 DEF Commands
  <2>2. ~cli.edited /\ cli.files = "bundle" => cli.ref = disk
    BY <1>0 DEF OnlineInv, ReadInv
  <2>3. ReadInv'
    BY <1>0, <2>1, <2>2 DEF ReadInv
  <2> QED
    BY <1>0, <2>1, <2>3, LocalMove DEF Evaluating
<1>2. CASE Exit(1, "none")
  BY <1>0, <1>2, LocalEnd DEF Evaluating
<1> QED
  BY <1>1, <1>2 DEF LoadPolicy

LEMMA PolicyRefKeeps == ASSUME OnlineInv, PolicyRef PROVE OnlineInv'
<1>0. /\ cli.pc = "ref" /\ UNCHANGED <<apiVars, disk, changes, denials>>
      /\ cli \in Commands /\ disk \in Versions
  BY DEF PolicyRef, OnlineInv, WorldInv
<1>1. CASE cli' = [cli EXCEPT !.pc = "append",
                              !.ref = IF cli.files = "bundle" THEN @ ELSE disk]
  <2>0. PICK x \in Versions \cup {NoRef} :
           /\ x = IF cli.files = "bundle" THEN cli.ref ELSE disk
           /\ cli' = [cli EXCEPT !.pc = "append", !.ref = x]
    BY <1>0, <1>1 DEF Commands
  <2>1. /\ cli' \in Commands /\ cli'.pc = "append" /\ cli'.source = cli.source
        /\ cli'.scenario = cli.scenario /\ cli'.exit = cli.exit
        /\ cli'.ref = x
        /\ cli'.rules = cli.rules /\ cli'.edited = cli.edited
    BY <1>0, <2>0 DEF Commands
  <2>2. /\ ~cli.edited => cli.rules = disk
        /\ ~cli.edited /\ cli.files = "bundle" => cli.ref = cli.rules
        /\ cli.rules \in Versions
    BY <1>0 DEF OnlineInv, ReadInv
  <2>3. ReadInv'
    BY <2>0, <2>1, <2>2 DEF ReadInv
  <2> QED
    BY <1>0, <2>1, <2>3, LocalMove DEF Evaluating
<1>2. CASE Exit(1, "none")
  BY <1>0, <1>2, LocalEnd DEF Evaluating
<1> QED
  BY <1>1, <1>2 DEF PolicyRef

LEMMA LocalAppendKeeps == ASSUME OnlineInv, AppendEvidence PROVE OnlineInv'
<1>0. /\ cli.pc = "append" /\ UNCHANGED <<apiVars, disk, changes, denials>>
      /\ cli \in Commands
  BY DEF AppendEvidence, OnlineInv
<1> DEFINE pass == Pass(cli.scenario, cli.rules)
           ref == RefOf(cli.scenario, cli.ref)
           agg == [Fresh EXCEPT !.pass = pass, !.policyRef = ref]
<1>1. CASE /\ log' = log \cup {LocalRecord}
           /\ cli' = [cli EXCEPT !.pc = "done", !.exit = CodeOf(LocalRecord.pass),
                         !.agg = [Fresh EXCEPT !.pass = LocalRecord.pass,
                                               !.policyRef = LocalRecord.policyRef]]
  <2>1. /\ LocalRecord.scenario = cli.scenario /\ LocalRecord.pass = pass
        /\ LocalRecord.policyRef = ref
    BY DEF LocalRecord
  <2>2. pass \in BOOLEAN /\ ref \in Versions \cup {NoRef}
    BY <1>0 DEF Pass, RefOf, Commands
  <2>3. agg \in Aggregate /\ agg.policyRef = ref
    <3> HIDE DEF pass, ref
    <3> QED
      BY <2>2, FreshType DEF Aggregate
  <2>4. CodeOf(pass) \in {0, 2}
    BY DEF CodeOf
  <2>5. cli' = [cli EXCEPT !.pc = "done", !.exit = CodeOf(pass), !.agg = agg]
    BY <1>1, <2>1
  <2>6. \E l \in log' : /\ l.scenario = cli.scenario
                        /\ CodeOf(l.pass) = CodeOf(pass) /\ l.policyRef = ref
    BY <1>1, <2>1
  <2>7. cli.edited \/ cli.ref = cli.rules
    BY <1>0 DEF OnlineInv, ReadInv
  <2>8. cli.source \in {"local", "local-fallback"} /\ answers = {}
        /\ (cli.source = "local" => denials = {})
    BY <1>0 DEF OnlineInv, StageInv, Evaluating, AnswerInv
  <2>9. UNCHANGED <<server, requests, answers, signed, disk, changes, denials>>
    BY <1>0 DEF apiVars
  <2> HIDE DEF pass, ref, agg
  <2>10. /\ cli' \in Commands /\ cli'.pc = "done" /\ cli'.source = cli.source
         /\ cli'.scenario = cli.scenario /\ cli'.exit = CodeOf(pass)
         /\ cli'.agg = agg /\ cli'.rules = cli.rules /\ cli'.ref = cli.ref
         /\ cli'.edited = cli.edited
    BY <1>0, <2>3, <2>4, <2>5 DEF Commands
  <2>11. WorldInv' /\ RequestInv' /\ DenialInv'
    BY <2>9, <2>10 DEF OnlineInv, WorldInv, RequestInv, DenialInv, Indexes
  <2>12. StageInv'
    BY <2>8, <2>9, <2>10 DEF StageInv, Evaluating
  <2>13. AnswerInv' /\ AskInv' /\ AggregateInv' /\ ReadInv'
    BY <2>8, <2>9, <2>10 DEF AnswerInv, AskInv, AggregateInv, ReadInv
  <2>14. LocalInv'
    BY <2>3, <2>6, <2>7, <2>10 DEF LocalInv, pass, ref
  <2> QED
    BY <2>10, <2>11, <2>12, <2>13, <2>14 DEF OnlineInv
<1>2. CASE Exit(1, "none")
  BY <1>0, <1>2, LocalEnd DEF Evaluating
<1> QED
  BY <1>1, <1>2 DEF AppendEvidence

-----------------------------------------------------------------------------
(* The API server and the world.                                           *)

\* Requests disappear, the server or the files change: the command does not
\* notice.
LEMMA WorldKeeps ==
    ASSUME OnlineInv, WorldInv', requests' \subseteq requests,
           UNCHANGED <<answers, signed, disk, cli, log, denials>>
    PROVE  OnlineInv'
<1>1. RequestInv' /\ AnswerInv' /\ AggregateInv' /\ DenialInv' /\ ReadInv' /\ LocalInv'
  BY DEF OnlineInv, RequestInv, AnswerInv, AggregateInv, DenialInv, ReadInv,
         LocalInv, Indexes
<1>2. StageInv'
  BY DEF OnlineInv, StageInv, Evaluating
<1>3. AskInv'
  BY DEF OnlineInv, AskInv
<1> QED
  BY <1>1, <1>2, <1>3 DEF OnlineInv

LEMMA ServerKeeps ==
    ASSUME OnlineInv, Crash \/ (\E v \in Versions : Deploy(v)) \/ Outage
    PROVE  OnlineInv'
<1>1. WorldInv
  BY DEF OnlineInv
<1>2. CASE Crash
  BY <1>1, <1>2, WorldKeeps DEF Crash, WorldInv, Servers
<1>3. ASSUME NEW v \in Versions, Deploy(v) PROVE OnlineInv'
  <2>1. WorldInv'
    <3>1. server' \in Servers /\ disk' = disk
      <4>1. server' = [server EXCEPT !.up = TRUE, !.version = v]
        BY <1>3 DEF Deploy
      <4>2. server \in Servers /\ disk' = disk
        BY <1>1, <1>3 DEF Deploy, WorldInv
      <4> QED
        BY <4>1, <4>2 DEF Servers
    <3>2. changes' \in 0 .. MaxChanges
      <4>1. changes < MaxChanges /\ changes' = changes + 1
        BY <1>3 DEF Deploy
      <4>2. changes \in 0 .. MaxChanges /\ MaxChanges \in Nat
        BY <1>1, OnlineAssumption DEF WorldInv
      <4> QED
        BY <4>1, <4>2
    <3> QED
      BY <1>1, <3>1, <3>2 DEF WorldInv
  <2> QED
    BY <1>3, <2>1, WorldKeeps DEF Deploy
<1>4. CASE Outage
  <2>1. WorldInv'
    <3>1. \A b \in BOOLEAN : /\ [server EXCEPT !.db = b] \in Servers
                             /\ [server EXCEPT !.key = b] \in Servers
      BY <1>1 DEF WorldInv, Servers
    <3>2. (~server.db) \in BOOLEAN /\ FALSE \in BOOLEAN
      OBVIOUS
    <3>3. server' \in Servers /\ UNCHANGED <<disk, changes>>
      BY <1>4, <3>1, <3>2 DEF Outage
    <3> QED
      BY <1>1, <3>3 DEF WorldInv
  <2> QED
    BY <1>4, <2>1, WorldKeeps DEF Outage
<1> QED
  BY <1>2, <1>3, <1>4

LEMMA EditKeeps ==
    ASSUME OnlineInv, NEW v \in Versions, EditPolicy(v) PROVE OnlineInv'
<1>0. cli \in Commands /\ UNCHANGED <<server, requests, answers, signed, log, denials>>
      /\ disk' = v
  BY DEF OnlineInv, EditPolicy, apiVars
<1>1. WorldInv'
  BY <1>0, OnlineAssumption DEF OnlineInv, EditPolicy, WorldInv
<1>2. PICK e \in BOOLEAN : /\ e = (cli.edited \/ cli.pc \in {"rules", "ref"})
                           /\ cli' = [cli EXCEPT !.edited = e]
  BY <1>0 DEF EditPolicy, Commands
<1>3. /\ cli' \in Commands /\ cli'.pc = cli.pc /\ cli'.source = cli.source
      /\ cli'.scenario = cli.scenario /\ cli'.exit = cli.exit
      /\ cli'.next = cli.next /\ cli'.agg = cli.agg /\ cli'.files = cli.files
      /\ cli'.rules = cli.rules /\ cli'.ref = cli.ref /\ cli'.edited = e
  BY <1>0, <1>2 DEF Commands
<1>4. cli.pc = "start" => cli' = Idle
  BY <1>0, <1>2 DEF OnlineInv, StageInv, Idle, Commands
<1>5. StageInv'
  BY <1>0, <1>3, <1>4 DEF OnlineInv, StageInv, Evaluating
<1>6. RequestInv' /\ AnswerInv' /\ DenialInv'
  BY <1>0, <1>3 DEF OnlineInv, RequestInv, AnswerInv, DenialInv, Indexes
<1>7. AskInv' /\ AggregateInv'
  BY <1>0, <1>3 DEF OnlineInv, AskInv, AggregateInv
<1>8. ReadInv' /\ LocalInv'
  BY <1>0, <1>2, <1>3 DEF OnlineInv, ReadInv, LocalInv
<1> QED
  BY <1>1, <1>3, <1>5, <1>6, <1>7, <1>8 DEF OnlineInv

LEMMA ServeKeeps ==
    ASSUME OnlineInv, NEW q \in requests, Serve(q) PROVE OnlineInv'
<1> DEFINE status == IF ~Authenticated THEN 401
                     ELSE IF q.action \in BadKind THEN 400 ELSE 200
           allow == q.action \in Allowed[server.version]
           rec == [id |-> q.id, action |-> q.action, allow |-> allow,
                   version |-> server.version]
           body == [shape |-> server.shape, allow |-> allow, event |-> q.id,
                    policyRef |-> server.version]
           answer == [id |-> q.id, status |-> status, body |-> body]
<1>0. /\ UNCHANGED <<server, disk, cli, log, changes, denials>>
      /\ requests' = requests \ {q}
      /\ signed' = IF status = 200 THEN signed \cup {rec} ELSE signed
      /\ answers' = IF cli.pc = "wait" /\ cli.next = q.id THEN {answer} ELSE answers
  BY DEF Serve, AnswerWith
<1>1. /\ status \in {200, 400, 401} /\ server.version \in Versions
      /\ rec.id = q.id /\ rec.allow = allow /\ rec.version = server.version
      /\ answer.id = q.id /\ answer.status = status
      /\ answer.body.allow = allow /\ answer.body.event = q.id
      /\ answer.body.policyRef = server.version
  BY DEF OnlineInv, WorldInv, Servers
<1>2. /\ q.id \in Indexes /\ q.action = cli.scenario[q.id] /\ cli \in Commands
      /\ Len(cli.scenario) \in Nat /\ cli.next \in Nat /\ q.id \in Nat /\ q.id >= 1
  BY DEF OnlineInv, RequestInv, Indexes, Commands
<1>3. cli.pc # "start"
  BY DEF OnlineInv, StageInv
<1>4. WorldInv' /\ RequestInv' /\ DenialInv' /\ ReadInv' /\ LocalInv'
  BY <1>0 DEF OnlineInv, WorldInv, RequestInv, DenialInv, ReadInv, LocalInv, Indexes
<1>5. StageInv'
  BY <1>0, <1>3 DEF OnlineInv, StageInv, Evaluating
<1>6. CASE cli.source # "api"
  <2>1. cli.pc # "wait" /\ answers' = {}
    BY <1>0, <1>6 DEF OnlineInv, StageInv, AnswerInv
  <2>2. AnswerInv' /\ AskInv' /\ AggregateInv'
    BY <1>0, <1>6, <2>1 DEF AnswerInv, AskInv, AggregateInv
  <2> QED
    BY <1>0, <1>4, <1>5, <2>2 DEF OnlineInv
<1>7. CASE cli.source = "api"
  <2>1. /\ cli.pc = "wait" /\ q.id = cli.next /\ answers = {}
        /\ \A s \in signed : s.id # cli.next
    BY <1>7 DEF OnlineInv, AskInv
  <2>2. requests' = {}
    <3>1. \A x \in requests : x = q
      BY <1>7 DEF OnlineInv, AskInv
    <3> QED
      BY <1>0, <3>1
  <2>3. answers' = {answer}
    BY <1>0, <2>1
  <2> HIDE DEF status, allow, rec, body, answer
  <2>4. allow = (cli.scenario[cli.next] \in Allowed[server.version])
    BY <1>2, <2>1 DEF allow
  <2>5. \A s \in signed' : s \in signed \/ s = rec
    BY <1>0
  <2>6. signed \subseteq signed' /\ (status = 200 => rec \in signed')
    BY <1>0
  <2>7. AnswerInv'
    BY <1>0, <1>1, <1>2, <2>1, <2>3, <2>4, <2>5, <2>6 DEF AnswerInv
  <2>8. AskInv'
    <3>1. \A s \in signed' : s.id \in 1 .. cli.next
      BY <1>1, <1>2, <1>7, <2>1, <2>5 DEF OnlineInv, AskInv
    <3>2. \A i \in 1 .. (cli.next - 1) : \E s \in signed' : s.id = i
      BY <1>7, <2>6 DEF OnlineInv, AskInv
    <3>3. cli.next <= Len(cli.scenario)
      BY <1>7, <2>1 DEF OnlineInv, AskInv
    <3> QED
      BY <1>0, <1>7, <2>1, <2>2, <3>1, <3>2, <3>3 DEF AskInv
  <2>9. AggregateInv'
    <3>1. \A s \in signed' : s.id < cli.next => s \in signed
      BY <1>1, <1>2, <2>1, <2>5
    <3> QED
      BY <1>0, <1>7, <3>1 DEF OnlineInv, AggregateInv
  <2> QED
    BY <1>0, <1>4, <1>5, <2>7, <2>8, <2>9 DEF OnlineInv
<1> QED
  BY <1>6, <1>7

LEMMA ServeFailsKeeps ==
    ASSUME OnlineInv, NEW q \in requests, ServeFails(q) PROVE OnlineInv'
<1> DEFINE answer == [id |-> q.id, status |-> 500,
                      body |-> [shape |-> server.shape, allow |-> FALSE,
                                event |-> 0, policyRef |-> NoRef]]
<1>0. /\ UNCHANGED <<server, signed, disk, cli, log, changes, denials>>
      /\ requests' = requests \ {q}
      /\ answers' = IF cli.pc = "wait" /\ cli.next = q.id THEN {answer} ELSE answers
  BY DEF ServeFails, AnswerWith
<1>1. answer.id = q.id /\ answer.status = 500
  OBVIOUS
<1> HIDE DEF answer
<1>2. WorldInv' /\ RequestInv' /\ DenialInv' /\ ReadInv' /\ LocalInv' /\ AggregateInv'
  BY <1>0 DEF OnlineInv, WorldInv, RequestInv, DenialInv, ReadInv, LocalInv,
              AggregateInv, Indexes
<1>3. StageInv'
  BY <1>0 DEF OnlineInv, StageInv, Evaluating
<1>4. AnswerInv'
  BY <1>0, <1>1 DEF OnlineInv, AnswerInv
<1>5. AskInv'
  <2>1. ASSUME cli.source = "api" PROVE requests' = {} /\ cli.pc = "wait"
    BY <1>0, <2>1 DEF OnlineInv, AskInv
  <2> QED
    BY <1>0, <2>1 DEF OnlineInv, AskInv
<1> QED
  BY <1>0, <1>2, <1>3, <1>4, <1>5 DEF OnlineInv

-----------------------------------------------------------------------------
(* The theorems.                                                           *)

LEMMA OnlineInit == Init => OnlineInv
<1> SUFFICES ASSUME Init PROVE OnlineInv
  OBVIOUS
<1>1. WorldInv
  <2>1. server \in Servers
    BY DEF Init, Servers
  <2> QED
    BY <2>1, OnlineAssumption DEF Init, WorldInv
<1>2. cli \in Commands /\ cli.pc = "start" /\ cli.source = "none" /\ cli.exit = -1
  BY FreshType DEF Init, Idle
<1>3. StageInv /\ RequestInv /\ AnswerInv /\ DenialInv
  BY <1>2 DEF Init, StageInv, RequestInv, AnswerInv, DenialInv, Evaluating
<1>4. AskInv /\ AggregateInv /\ ReadInv /\ LocalInv
  BY <1>2 DEF AskInv, AggregateInv, ReadInv, LocalInv
<1> QED
  BY <1>1, <1>2, <1>3, <1>4 DEF OnlineInv

LEMMA OnlineStep == OnlineInv /\ [Next]_vars => OnlineInv'
<1> SUFFICES ASSUME OnlineInv, [Next]_vars PROVE OnlineInv'
  OBVIOUS
<1>1. CASE Command
  BY <1>1, RefuseKeeps, BeginKeeps, SendKeeps, TimeoutKeeps, ReceiveKeeps,
     OpenKeeps, LoadPolicyKeeps, PolicyRefKeeps, LocalAppendKeeps DEF Command
<1>2. CASE \E q \in requests : Serve(q) \/ ServeFails(q)
  BY <1>2, ServeKeeps, ServeFailsKeeps
<1>3. CASE Crash \/ (\E v \in Versions : Deploy(v)) \/ Outage
  BY <1>3, ServerKeeps
<1>4. CASE \E v \in Versions : EditPolicy(v)
  BY <1>4, EditKeeps
<1>5. CASE UNCHANGED vars
  <2>1. UNCHANGED <<server, requests, answers, signed, disk, cli, log, changes, denials>>
    BY <1>5 DEF vars, apiVars
  <2>2. WorldInv'
    BY <2>1 DEF OnlineInv, WorldInv
  <2> QED
    BY <2>1, <2>2, WorldKeeps
<1> QED
  BY <1>1, <1>2, <1>3, <1>4, <1>5 DEF Next

\* What the results below rest on: at every step of runValidate, of the API's
\* handlers and of the world around them, the aggregate of evaluateOnline is
\* about the actions that were decided and signed so far.
THEOREM OnlineInvariant == Spec => []OnlineInv
BY OnlineInit, OnlineStep, PTL DEF Spec

\* TypeOK: every request on its way carries the action of its number, every
\* answer is to the request the command waits for, and the command exits with
\* a documented code.
THEOREM OnlineTypeCorrect == Spec => []TypeOK
<1>1. OnlineInv => TypeOK
  BY DEF OnlineInv, WorldInv, Servers, RequestInv, AnswerInv, Commands, Aggregate,
         TypeOK
<1> QED
  BY <1>1, OnlineInvariant, PTL

LEMMA DoneApi ==
    ASSUME OnlineInv, Done, cli.source = "api"
    PROVE  /\ {s.id : s \in signed} = Indexes
           /\ \A s \in signed : s.id < cli.next
           /\ cli.exit = CodeOf(cli.agg.pass)
<1>1. /\ cli.next = Len(cli.scenario) + 1 /\ Len(cli.scenario) \in Nat
      /\ \A s \in signed : s.id # cli.next /\ s.id \in 1 .. cli.next
      /\ \A i \in 1 .. (cli.next - 1) : \E s \in signed : s.id = i
      /\ cli.exit = CodeOf(cli.agg.pass)
  BY DEF OnlineInv, AskInv, Done, Commands
<1>2. \A s \in signed : s.id < cli.next /\ s.id \in Indexes
  BY <1>1 DEF Indexes
<1>3. \A i \in Indexes : \E s \in signed : s.id = i
  BY <1>1 DEF Indexes
<1> QED
  BY <1>1, <1>2, <1>3

\* DecisionIsWhole: whatever is lost, late or redeployed, exit 0 or 2 comes from
\* one evaluator's decisions on all actions of the scenario.
THEOREM DecisionsAreWhole == Spec => []DecisionIsWhole
<1>1. OnlineInv => DecisionIsWhole
  <2> SUFFICES ASSUME OnlineInv, Done, cli.exit \in {0, 2} PROVE DecisionIsWhole
    BY DEF DecisionIsWhole
  <2>1. cli.source \in {"api", "local", "local-fallback"}
    BY DEF OnlineInv, StageInv, Commands
  <2>2. CASE cli.source = "api"
    <3>1. cli.exit = 0 => cli.agg.pass
      BY <2>2, DoneApi DEF CodeOf
    <3>2. cli.exit = 0 => \A s \in signed : s.allow
      BY <2>2, <3>1, DoneApi DEF OnlineInv, AggregateInv
    <3> QED
      BY <2>2, <3>2, DoneApi DEF DecisionIsWhole
  <2>3. CASE cli.source \in {"local", "local-fallback"}
    <3>1. /\ \E r \in log : /\ r.scenario = cli.scenario
                            /\ CodeOf(r.pass) = cli.exit
                            /\ r.policyRef = cli.agg.policyRef
          /\ cli.exit = CodeOf(Pass(cli.scenario, cli.rules))
      BY <2>3 DEF OnlineInv, LocalInv, Done
    <3>2. cli.exit = 0 <=> Pass(cli.scenario, cli.rules)
      BY <3>1 DEF CodeOf
    <3> QED
      BY <2>3, <3>1, <3>2 DEF DecisionIsWhole
  <2> QED
    BY <2>1, <2>2, <2>3
<1> QED
  BY <1>1, OnlineInvariant, PTL

\* RefNamesPolicy: the policy_ref of the result is that of every decision in it,
\* although the API may have been redeployed in between.
THEOREM PolicyRefIsRight == Spec => []RefNamesPolicy
<1>1. OnlineInv => RefNamesPolicy
  <2> SUFFICES ASSUME OnlineInv, Done, cli.exit \in {0, 2},
                      cli.agg.policyRef \in Versions
               PROVE  IF cli.source = "api"
                      THEN \A s \in signed : s.version = cli.agg.policyRef
                      ELSE cli.edited \/ cli.agg.policyRef = cli.rules
    BY DEF RefNamesPolicy
  <2>1. CASE cli.source = "api"
    BY <2>1, DoneApi DEF OnlineInv, AggregateInv
  <2>2. CASE cli.source # "api"
    <3>1. cli.source \in {"local", "local-fallback"}
      BY <2>2 DEF OnlineInv, StageInv, Commands
    <3>2. /\ cli.agg.policyRef = RefOf(cli.scenario, cli.ref)
          /\ cli.edited \/ cli.ref = cli.rules
      BY <3>1 DEF OnlineInv, LocalInv, Done
    <3>3. cli.agg.policyRef = cli.ref
      BY <3>2, OnlineAssumption DEF RefOf
    <3> QED
      BY <2>2, <3>2, <3>3
  <2> QED
    BY <2>1, <2>2
<1> QED
  BY <1>1, OnlineInvariant, PTL

\* DenialOverruledByOtherPolicy: the fallback never turns a denial of the API
\* into an allow under the policy version that denied.
THEOREM DenialsStand == Spec => []DenialOverruledByOtherPolicy
<1>1. OnlineInv => DenialOverruledByOtherPolicy
  <2> SUFFICES ASSUME OnlineInv, Done, cli.exit = 0, denials # {}
               PROVE  cli.source = "local-fallback" /\ cli.rules \notin denials
    BY DEF DenialOverruledByOtherPolicy
  <2>1. cli.source # "api"
    <3> SUFFICES ASSUME cli.source = "api" PROVE FALSE
      OBVIOUS
    <3>1. cli.agg.pass
      BY DoneApi DEF CodeOf
    <3> QED
      BY <3>1 DEF OnlineInv, AggregateInv
  <2>2. cli.source = "local-fallback"
    BY <2>1 DEF OnlineInv, StageInv, Commands
  <2>3. Pass(cli.scenario, cli.rules)
    BY <2>2 DEF OnlineInv, LocalInv, Done, CodeOf
  <2>4. Indexes = DOMAIN cli.scenario
    BY DEF Indexes, OnlineInv, Commands
  <2>5. \A i \in Indexes : cli.scenario[i] \in Allowed[cli.rules]
    BY <2>3, <2>4 DEF Pass
  <2> QED
    BY <2>2, <2>5 DEF OnlineInv, DenialInv
<1> QED
  BY <1>1, OnlineInvariant, PTL
=============================================================================
