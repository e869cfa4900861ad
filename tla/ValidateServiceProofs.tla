------------------------ MODULE ValidateServiceProofs ------------------------
(***************************************************************************)
(* The deny cache loses no denial of an agent or CI, and a local           *)
(* decision is answered only with its evidence, for any number of          *)
(* concurrent requests and intents, online and offline.                    *)
(***************************************************************************)
EXTENDS ValidateService, TLAPS

Outcome == [what : {"none", "allow", "deny", "error"}, age : Ages]

\* A handler at work has a request, and an error allows nothing.
HandlerInv ==
    /\ last \in [Keys -> Outcome]
    /\ \A h \in Handlers :
          /\ pc[h] # "idle" => req[h] \in Requests
          /\ out[h].code # "none" => ~out[h].allow

\* The entry of an intent is as old as the outcome it was made for; it may have
\* been dropped when it was too old to block.
GateInv ==
    \A k \in Keys :
        IF last[k].what \in {"deny", "error"}
        THEN \/ cache[k] = last[k].age
             \/ cache[k] = NoEntry /\ last[k].age > TTL
        ELSE cache[k] = NoEntry

\* After a denial of an agent or CI the intent has not been allowed, and its
\* last outcome, the denial or a later one, is not older.
DeniedInv ==
    \A k \in Keys :
        denied[k] # NoEntry =>
            last[k].what \in {"deny", "error"} /\ last[k].age <= denied[k]

ServiceInv ==
    TypeOK /\ HandlerInv /\ GateInv /\ DeniedInv /\ EvidenceMatchesAnswer

-----------------------------------------------------------------------------
(* Types                                                                   *)

LEMMA AgeFacts ==
    /\ TTL \in Nat /\ Ages \subseteq Nat /\ 0 \in Ages /\ NoEntry \notin Ages
    /\ \A a \in Ages : Older(a) \in Ages
    /\ \A a \in Ages : Older(a) > TTL <=> a >= TTL
BY ServiceAssumption DEF Ages, Older

LEMMA KeyOf == \A r \in Requests : r.key \in Keys
BY DEF Keys

LEMMA OutputTypes ==
    /\ NoOutput \in Output
    /\ \A pass \in BOOLEAN, source \in {"api", "local", "local-fallback"} :
          Decision(pass, source) \in Output
    /\ \A c \in Codes : Error(c) \in Output
    /\ \A c \in Codes, source \in {"api", "local"} :
          [Error(c) EXCEPT !.source = source] \in Output
BY DEF Output, NoOutput, Decision, Error, Codes, ServerCodes, ClientCodes

LEMMA ApiCodeType == \A e \in ClientErrors : ApiCode(e) \in Codes \ {"none"}
BY DEF ApiCode, Codes, ServerCodes, ClientCodes, ClientErrors

\* What an evaluation may end with.
Ended ==
    {Decision(pass, s) : pass \in BOOLEAN, s \in {"api", "local", "local-fallback"}}
    \cup {Error(c) : c \in Codes \ {"none"}}

LEMMA EndedType ==
    \A o \in Ended : o \in Output /\ (o.code # "none" => ~o.allow)
<1> SUFFICES ASSUME NEW o \in Ended PROVE o \in Output /\ (o.code # "none" => ~o.allow)
  OBVIOUS
<1>1. CASE \E c \in Codes \ {"none"} : o = Error(c)
  BY <1>1, OutputTypes DEF Error
<1>2. CASE \E pass \in BOOLEAN, s \in {"api", "local", "local-fallback"} :
              o = Decision(pass, s)
  <2>1. PICK pass \in BOOLEAN, s \in {"api", "local", "local-fallback"} :
           o = Decision(pass, s)
    BY <1>2
  <2>2. o \in Output
    BY <2>1, OutputTypes
  <2>3. o.code = "none"
    BY <2>1 DEF Decision
  <2> QED
    BY <2>2, <2>3
<1> QED
  BY <1>1, <1>2 DEF Ended

\* Work up to the recording: h moves on, maybe with the end of its evaluation,
\* and the cache is not touched.
Evaluates(h) ==
    /\ pc[h] \in {"api", "local", "init", "append"}
    /\ \/ pc' \in {[pc EXCEPT ![h] = l] : l \in {"local", "init", "append"}}
          /\ UNCHANGED out
       \/ \E o \in Ended : Evaluated(h, o)
    /\ wrote' \in {wrote, [wrote EXCEPT ![h] = "allow"], [wrote EXCEPT ![h] = "deny"]}
    /\ UNCHANGED <<cache, req, last, denied>>

LEMMA WorkEvaluates ==
    ASSUME TypeOK, NEW h \in Handlers,
           CallApi(h) \/ EvaluatePolicy(h) \/ InitStore(h) \/ AppendEvidence(h),
           HandlerInv
    PROVE  Evaluates(h)
<1>0. {"invalid_input", "policy_failure", "evidence_write_failed"} \subseteq Codes \ {"none"}
  BY DEF Codes, ServerCodes
<1>1. CASE CallApi(h)
  <2>1. ASSUME NEW pass \in BOOLEAN PROVE Decision(pass, "api") \in Ended
    BY DEF Ended
  <2>2. ASSUME NEW e \in ClientErrors PROVE Error(ApiCode(e)) \in Ended
    BY ApiCodeType DEF Ended
  <2> QED
    BY <1>1, <2>1, <2>2 DEF CallApi, Evaluates, history
<1>2. CASE EvaluatePolicy(h)
  <2>1. Error("invalid_input") \in Ended /\ Error("policy_failure") \in Ended
    BY <1>0 DEF Ended
  <2> QED
    BY <1>2, <2>1 DEF EvaluatePolicy, Evaluates, history
<1>3. CASE InitStore(h)
  <2>1. Error("evidence_write_failed") \in Ended
    BY <1>0 DEF Ended
  <2> QED
    BY <1>3, <2>1 DEF InitStore, Evaluates, history
<1>4. CASE AppendEvidence(h)
  <2>1. Error("evidence_write_failed") \in Ended
    BY <1>0 DEF Ended
  <2>2. req[h] \in Requests /\ req[h].allowed \in BOOLEAN
    BY <1>4, ServiceAssumption DEF AppendEvidence, HandlerInv
  <2>3. Decision(req[h].allowed, IF Online THEN "local-fallback" ELSE "local") \in Ended
    BY <2>2 DEF Ended
  <2> QED
    BY <1>4, <2>1, <2>3 DEF AppendEvidence, Evaluates, Verdict, history
<1> QED
  BY <1>1, <1>2, <1>3, <1>4

LEMMA EvaluatesTyped ==
    ASSUME TypeOK, HandlerInv, NEW h \in Handlers, Evaluates(h)
    PROVE  TypeOK' /\ HandlerInv'
<1>1. pc' \in [Handlers -> Steps] /\ out' \in [Handlers -> Output]
  BY EndedType DEF Evaluates, Evaluated, TypeOK, Steps
<1>2. wrote' \in [Handlers -> {"none", "allow", "deny"}]
  BY DEF Evaluates, TypeOK
<1>3. UNCHANGED <<cache, req, last, denied>> /\ pc[h] # "idle"
  BY DEF Evaluates
<1>4. TypeOK'
  BY <1>1, <1>2, <1>3 DEF TypeOK
<1>5. ASSUME NEW g \in Handlers
      PROVE  /\ pc'[g] # "idle" => pc[g] # "idle"
             /\ out'[g].code # "none" => ~out'[g].allow
  <2>1. CASE g = h
    BY <1>3, <2>1, EndedType DEF Evaluates, Evaluated, TypeOK, HandlerInv
  <2>2. CASE g # h
    BY <2>2 DEF Evaluates, Evaluated, TypeOK, HandlerInv
  <2> QED
    BY <2>1, <2>2
<1>6. HandlerInv'
  BY <1>3, <1>5 DEF HandlerInv
<1> QED
  BY <1>4, <1>6

LEMMA TypedInit == Init => TypeOK /\ HandlerInv
<1> SUFFICES ASSUME Init PROVE TypeOK /\ HandlerInv
  OBVIOUS
<1>1. \A k \in Keys : last[k] = [what |-> "none", age |-> 0]
  BY DEF Init
<1>2. last \in [Keys -> Outcome]
  BY AgeFacts DEF Init, Outcome
<1>3. TypeOK
  BY <1>1, AgeFacts, OutputTypes DEF Init, TypeOK, Steps
<1>4. \A h \in Handlers : pc[h] = "idle" /\ out[h].code = "none"
  BY DEF Init, NoOutput
<1> QED
  BY <1>2, <1>3, <1>4 DEF HandlerInv

LEMMA ReceiveTyped ==
    ASSUME TypeOK, HandlerInv, NEW h \in Handlers, NEW r \in Requests, Receive(h, r)
    PROVE  TypeOK' /\ HandlerInv'
<1> DEFINE stop == [Error("stop_after_deny") EXCEPT
                       !.source = IF Online THEN "api" ELSE "local"]
<1>1. stop \in Output /\ NoOutput \in Output /\ ~stop.allow /\ NoOutput.code = "none"
  <2>1. "stop_after_deny" \in Codes
    BY DEF Codes, ServerCodes
  <2>2. stop \in Output /\ NoOutput \in Output
    BY <2>1, OutputTypes
  <2>3. ~stop.allow /\ NoOutput.code = "none"
    BY DEF Error, NoOutput
  <2> QED
    BY <2>2, <2>3
<1>2. /\ pc' \in {[pc EXCEPT ![h] = l] : l \in {"answer", "api", "local"}}
      /\ out' \in {[out EXCEPT ![h] = o] : o \in {stop, NoOutput}}
      /\ req' = [req EXCEPT ![h] = r]
      /\ wrote' = [wrote EXCEPT ![h] = "none"]
      /\ last' = last /\ denied' = denied
  BY DEF Receive, StartOf, history
<1>3. cache' \in [Keys -> Ages \cup {NoEntry}]
  BY DEF Receive, TypeOK, CheckDenyLoop
<1> HIDE DEF stop
<1>4. TypeOK'
  BY <1>1, <1>2, <1>3 DEF TypeOK, Steps
<1>5. ASSUME NEW g \in Handlers
      PROVE  /\ pc'[g] # "idle" => req'[g] \in Requests
             /\ out'[g].code # "none" => ~out'[g].allow
  <2>1. CASE g = h
    BY <1>1, <1>2, <2>1 DEF TypeOK
  <2>2. CASE g # h
    BY <1>2, <2>2 DEF TypeOK, HandlerInv
  <2> QED
    BY <2>1, <2>2
<1> QED
  BY <1>2, <1>4, <1>5 DEF HandlerInv

\* What RecordOutcome remembers of an answer.
LEMMA RecordFacts ==
    ASSUME TypeOK, HandlerInv, NEW h \in Handlers, RecordOutcome(h)
    PROVE  \E k \in Keys, w \in {"allow", "deny", "error"} :
              /\ k = req[h].key
              /\ w = "allow" <=> out[h].allow
              /\ last' = [last EXCEPT ![k] = [what |-> w, age |-> 0]]
              /\ cache' = [cache EXCEPT ![k] = IF out[h].allow THEN NoEntry ELSE 0]
              /\ denied' \in {denied, [denied EXCEPT ![k] = NoEntry],
                              [denied EXCEPT ![k] = 0]}
              /\ w = "allow" => denied' = [denied EXCEPT ![k] = NoEntry]
<1> DEFINE k == req[h].key
           w == IF out[h].code # "none" THEN "error"
                ELSE IF out[h].allow THEN "allow" ELSE "deny"
<1>1. k \in Keys
  BY KeyOf DEF RecordOutcome, HandlerInv
<1>2. w \in {"allow", "deny", "error"} /\ (w = "allow" <=> out[h].allow)
  BY DEF HandlerInv, TypeOK, Output
<1>3. last' = [last EXCEPT ![k] = [what |-> w, age |-> 0]]
  BY DEF RecordOutcome
<1>4. cache' = [cache EXCEPT ![k] = IF out[h].allow THEN NoEntry ELSE 0]
  BY DEF RecordOutcome, ClearIntent, RecordDeny
<1>5. /\ denied' \in {denied, [denied EXCEPT ![k] = NoEntry], [denied EXCEPT ![k] = 0]}
      /\ w = "allow" => denied' = [denied EXCEPT ![k] = NoEntry]
  <2>1. denied' = [denied EXCEPT ![k] =
                      IF out[h].allow THEN NoEntry
                      ELSE IF out[h].code = "none" /\ req[h].actor \in Gated
                      THEN 0 ELSE @]
    BY DEF RecordOutcome
  <2>2. [denied EXCEPT ![k] = denied[k]] = denied
    BY <1>1 DEF TypeOK
  <2> QED
    BY <1>2, <2>1, <2>2
<1> HIDE DEF k, w
<1>6. k = req[h].key
  BY DEF k
<1> QED
  BY <1>1, <1>2, <1>3, <1>4, <1>5, <1>6

LEMMA TypedStep == TypeOK /\ HandlerInv /\ [Next]_vars => (TypeOK /\ HandlerInv)'
<1> SUFFICES ASSUME TypeOK, HandlerInv, [Next]_vars PROVE TypeOK' /\ HandlerInv'
  OBVIOUS
<1>1. ASSUME NEW h \in Handlers, NEW r \in Requests, Receive(h, r)
      PROVE  TypeOK' /\ HandlerInv'
  BY <1>1, ReceiveTyped
<1>2. ASSUME NEW h \in Handlers,
             CallApi(h) \/ EvaluatePolicy(h) \/ InitStore(h) \/ AppendEvidence(h)
      PROVE  TypeOK' /\ HandlerInv'
  BY <1>2, WorkEvaluates, EvaluatesTyped
<1>3. ASSUME NEW h \in Handlers, RecordOutcome(h) PROVE TypeOK' /\ HandlerInv'
  <2>1. PICK k \in Keys, w \in {"allow", "deny", "error"} :
           /\ last' = [last EXCEPT ![k] = [what |-> w, age |-> 0]]
           /\ cache' = [cache EXCEPT ![k] = IF out[h].allow THEN NoEntry ELSE 0]
           /\ denied' \in {denied, [denied EXCEPT ![k] = NoEntry],
                           [denied EXCEPT ![k] = 0]}
    BY <1>3, RecordFacts
  <2>2. last' \in [Keys -> Outcome]
    BY <2>1, AgeFacts DEF HandlerInv, Outcome
  <2>3. cache' \in [Keys -> Ages \cup {NoEntry}] /\ denied' \in [Keys -> Ages \cup {NoEntry}]
    BY <2>1, AgeFacts DEF TypeOK
  <2>4. /\ pc[h] = "record" /\ pc' = [pc EXCEPT ![h] = "answer"]
        /\ UNCHANGED <<req, out, wrote>>
    BY <1>3 DEF RecordOutcome
  <2>5. \A k2 \in Keys : last'[k2].age \in Ages
    BY <2>2 DEF Outcome
  <2>6. pc' \in [Handlers -> Steps]
    BY <2>4 DEF TypeOK, Steps
  <2>7. \A g \in Handlers : pc'[g] # "idle" => pc[g] # "idle"
    BY <2>4 DEF TypeOK
  <2> QED
    BY <2>2, <2>3, <2>4, <2>5, <2>6, <2>7 DEF TypeOK, HandlerInv
<1>4. ASSUME NEW h \in Handlers, Answer(h) PROVE TypeOK' /\ HandlerInv'
  <2>1. NoOutput \in Output /\ NoOutput.code = "none"
    BY OutputTypes DEF NoOutput
  <2>2. TypeOK'
    BY <1>4, <2>1 DEF Answer, TypeOK, Steps, history
  <2> QED
    BY <1>4, <2>1, <2>2 DEF Answer, TypeOK, HandlerInv, history
<1>5. CASE Tick
  <2>1. last' \in [Keys -> Outcome]
    <3>1. \A k \in Keys : [last[k] EXCEPT !.age = Older(@)] \in Outcome
      BY AgeFacts DEF HandlerInv, Outcome
    <3> QED
      BY <1>5, <3>1 DEF Tick
  <2>2. cache' \in [Keys -> Ages \cup {NoEntry}] /\ denied' \in [Keys -> Ages \cup {NoEntry}]
    BY <1>5, AgeFacts DEF Tick, Aged, TypeOK
  <2>3. \A k \in Keys : last'[k].age \in Ages
    BY <2>1 DEF Outcome
  <2> QED
    BY <1>5, <2>1, <2>2, <2>3 DEF Tick, TypeOK, HandlerInv
<1>6. CASE Cleanup
  <2>1. cache' \in [Keys -> Ages \cup {NoEntry}]
    BY <1>6 DEF Cleanup, TypeOK
  <2> QED
    BY <1>6, <2>1 DEF Cleanup, TypeOK, HandlerInv, history
<1>7. CASE Restart
  <2>1. Init'
    BY <1>7 DEF Restart, Init
  <2>2. Init' => TypeOK' /\ HandlerInv'
    BY TypedInit, PTL
  <2> QED
    BY <2>1, <2>2
<1>8. CASE UNCHANGED vars
  BY <1>8 DEF vars, TypeOK, HandlerInv
<1> QED
  BY <1>1, <1>2, <1>3, <1>4, <1>5, <1>6, <1>7, <1>8 DEF Next, Work

-----------------------------------------------------------------------------
(* The gate                                                                *)

LEMMA GateInit == Init => GateInv
BY DEF Init, GateInv

\* What the cache looks like after an entry that has expired is dropped, for
\* some of the intents.
LEMMA ExpiryKeepsGate ==
    ASSUME TypeOK, HandlerInv, GateInv, UNCHANGED last,
           \A k \in Keys : \/ cache'[k] = cache[k]
                           \/ /\ cache[k] # NoEntry /\ cache[k] > TTL
                              /\ cache'[k] = NoEntry
    PROVE  GateInv'
BY DEF GateInv

LEMMA TickKeepsGate ==
    ASSUME TypeOK, HandlerInv, GateInv, Tick
    PROVE  GateInv'
<1> SUFFICES ASSUME NEW k \in Keys
             PROVE  IF last'[k].what \in {"deny", "error"}
                    THEN \/ cache'[k] = last'[k].age
                         \/ cache'[k] = NoEntry /\ last'[k].age > TTL
                    ELSE cache'[k] = NoEntry
  BY DEF GateInv
<1>1. last[k] \in Outcome
  BY DEF HandlerInv
<1>2. last'[k].what = last[k].what /\ last'[k].age = Older(last[k].age)
  BY <1>1 DEF Tick, Outcome
<1>3. cache'[k] = IF cache[k] = NoEntry THEN NoEntry ELSE Older(cache[k])
  BY DEF Tick, Aged
<1>4. last[k].age \in Ages
  BY <1>1 DEF Outcome
<1>5. last[k].age > TTL => Older(last[k].age) > TTL
  BY <1>4, ServiceAssumption DEF Ages, Older
<1>6. last[k].age # NoEntry
  BY <1>4, AgeFacts
<1>7. IF last[k].what \in {"deny", "error"}
      THEN \/ cache[k] = last[k].age
           \/ cache[k] = NoEntry /\ last[k].age > TTL
      ELSE cache[k] = NoEntry
  BY DEF GateInv
<1>8. CASE last[k].what \notin {"deny", "error"}
  BY <1>2, <1>3, <1>7, <1>8
<1>9. CASE last[k].what \in {"deny", "error"} /\ cache[k] = last[k].age
  BY <1>2, <1>3, <1>6, <1>9
<1>10. CASE /\ last[k].what \in {"deny", "error"}
            /\ cache[k] = NoEntry /\ last[k].age > TTL
  BY <1>2, <1>3, <1>5, <1>10
<1> QED
  BY <1>7, <1>8, <1>9, <1>10

LEMMA GateStep == TypeOK /\ HandlerInv /\ GateInv /\ [Next]_vars => GateInv'
<1> SUFFICES ASSUME TypeOK, HandlerInv, GateInv, [Next]_vars PROVE GateInv'
  OBVIOUS
<1>1. ASSUME NEW h \in Handlers, NEW r \in Requests, Receive(h, r) PROVE GateInv'
  <2>1. UNCHANGED last
    BY <1>1 DEF Receive, history
  <2>2. cache' = cache \/ cache' = CheckDenyLoop(cache, r.key)
    BY <1>1 DEF Receive
  <2>3. \A k \in Keys : \/ cache'[k] = cache[k]
                        \/ /\ cache[k] # NoEntry /\ cache[k] > TTL
                           /\ cache'[k] = NoEntry
    BY <2>2 DEF CheckDenyLoop, TypeOK
  <2> QED
    BY <2>1, <2>3, ExpiryKeepsGate
<1>2. ASSUME NEW h \in Handlers,
             CallApi(h) \/ EvaluatePolicy(h) \/ InitStore(h) \/ AppendEvidence(h)
      PROVE  GateInv'
  <2>1. UNCHANGED <<cache, last>>
    BY <1>2, WorkEvaluates DEF Evaluates
  <2> QED
    BY <2>1 DEF GateInv
<1>3. ASSUME NEW h \in Handlers, RecordOutcome(h) PROVE GateInv'
  <2>1. PICK k \in Keys, w \in {"allow", "deny", "error"} :
           /\ w = "allow" <=> out[h].allow
           /\ last' = [last EXCEPT ![k] = [what |-> w, age |-> 0]]
           /\ cache' = [cache EXCEPT ![k] = IF out[h].allow THEN NoEntry ELSE 0]
    BY <1>3, RecordFacts
  <2>2. ASSUME NEW j \in Keys
        PROVE  IF last'[j].what \in {"deny", "error"}
               THEN \/ cache'[j] = last'[j].age
                    \/ cache'[j] = NoEntry /\ last'[j].age > TTL
               ELSE cache'[j] = NoEntry
    <3>1. CASE j = k
      <4>1. last'[j].what = w /\ last'[j].age = 0
        BY <2>1, <3>1 DEF HandlerInv
      <4>2. cache'[j] = IF out[h].allow THEN NoEntry ELSE 0
        BY <2>1, <3>1 DEF TypeOK
      <4> QED
        BY <2>1, <4>1, <4>2
    <3>2. CASE j # k
      BY <2>1, <3>2 DEF TypeOK, HandlerInv, GateInv
    <3> QED
      BY <3>1, <3>2
  <2> QED
    BY <2>2 DEF GateInv
<1>4. ASSUME NEW h \in Handlers, Answer(h) PROVE GateInv'
  BY <1>4 DEF Answer, GateInv, history
<1>5. CASE Tick
  BY <1>5, TickKeepsGate
<1>6. CASE Cleanup
  <2>1. \A k \in Keys : \/ cache'[k] = cache[k]
                        \/ /\ cache[k] # NoEntry /\ cache[k] > TTL
                           /\ cache'[k] = NoEntry
    BY <1>6 DEF Cleanup
  <2> QED
    BY <1>6, <2>1, ExpiryKeepsGate DEF Cleanup, history
<1>7. CASE Restart
  BY <1>7 DEF Restart, GateInv
<1>8. CASE UNCHANGED vars
  BY <1>8 DEF vars, GateInv
<1> QED
  BY <1>1, <1>2, <1>3, <1>4, <1>5, <1>6, <1>7, <1>8 DEF Next, Work

LEMMA DeniedInit == Init => DeniedInv
BY DEF Init, DeniedInv

LEMMA DeniedStep == TypeOK /\ HandlerInv /\ DeniedInv /\ [Next]_vars => DeniedInv'
<1> SUFFICES ASSUME TypeOK, HandlerInv, DeniedInv, [Next]_vars PROVE DeniedInv'
  OBVIOUS
<1>1. ASSUME UNCHANGED <<last, denied>> PROVE DeniedInv'
  BY <1>1 DEF DeniedInv
<1>2. ASSUME NEW h \in Handlers, RecordOutcome(h) PROVE DeniedInv'
  <2>1. PICK k \in Keys, w \in {"allow", "deny", "error"} :
           /\ last' = [last EXCEPT ![k] = [what |-> w, age |-> 0]]
           /\ denied' \in {denied, [denied EXCEPT ![k] = NoEntry],
                           [denied EXCEPT ![k] = 0]}
           /\ w = "allow" => denied' = [denied EXCEPT ![k] = NoEntry]
    BY <1>2, RecordFacts
  <2>2. ASSUME NEW j \in Keys, denied'[j] # NoEntry
        PROVE  last'[j].what \in {"deny", "error"} /\ last'[j].age <= denied'[j]
    <3>1. CASE j = k
      <4>1. last'[j].what = w /\ last'[j].age = 0
        BY <2>1, <3>1 DEF HandlerInv
      <4>2. w # "allow"
        BY <2>1, <2>2, <3>1 DEF TypeOK
      <4>3. denied'[j] \in Nat
        BY <2>1, <2>2, <3>1, AgeFacts DEF TypeOK
      <4> QED
        BY <4>1, <4>2, <4>3
    <3>2. CASE j # k
      <4>1. last'[j] = last[j] /\ denied'[j] = denied[j]
        BY <2>1, <3>2 DEF TypeOK, HandlerInv
      <4> QED
        BY <2>2, <4>1 DEF DeniedInv
    <3> QED
      BY <3>1, <3>2
  <2> QED
    BY <2>2 DEF DeniedInv
<1>3. CASE Tick
  <2>1. ASSUME NEW k \in Keys, denied'[k] # NoEntry
        PROVE  last'[k].what \in {"deny", "error"} /\ last'[k].age <= denied'[k]
    <3>1. denied[k] # NoEntry /\ denied'[k] = Older(denied[k])
      BY <1>3, <2>1 DEF Tick, Aged
    <3>2. last[k] \in Outcome
      BY DEF HandlerInv
    <3>3. last'[k].what = last[k].what /\ last'[k].age = Older(last[k].age)
      BY <1>3, <3>2 DEF Tick, Outcome
    <3>4. last[k].what \in {"deny", "error"} /\ last[k].age <= denied[k]
      BY <3>1 DEF DeniedInv
    <3>5. last[k].age \in Ages /\ denied[k] \in Ages
      BY <3>1, <3>2 DEF Outcome, TypeOK
    <3>6. Older(last[k].age) <= Older(denied[k])
      BY <3>4, <3>5, ServiceAssumption DEF Ages, Older
    <3> QED
      BY <3>1, <3>3, <3>4, <3>6
  <2> QED
    BY <2>1 DEF DeniedInv
<1>4. CASE Restart
  BY <1>4 DEF Restart, DeniedInv
<1>5. ASSUME NEW h \in Handlers,
             CallApi(h) \/ EvaluatePolicy(h) \/ InitStore(h) \/ AppendEvidence(h)
      PROVE  DeniedInv'
  BY <1>1, <1>5, WorkEvaluates DEF Evaluates
<1>6. ASSUME NEW h \in Handlers, Answer(h) \/ \E r \in Requests : Receive(h, r)
      PROVE  DeniedInv'
  BY <1>1, <1>6 DEF Answer, Receive, history
<1>7. CASE Cleanup \/ UNCHANGED vars
  BY <1>1, <1>7 DEF Cleanup, history, vars
<1> QED
  BY <1>2, <1>3, <1>4, <1>5, <1>6, <1>7 DEF Next, Work

LEMMA GateBlocks ==
    TypeOK /\ HandlerInv /\ GateInv /\ DeniedInv => GateFollowsDecisions
<1> SUFFICES ASSUME TypeOK, HandlerInv, GateInv, DeniedInv, NEW k \in Keys
             PROVE  /\ denied[k] # NoEntry /\ denied[k] <= TTL => Blocked(k)
                    /\ Blocked(k) => /\ last[k].what \in {"deny", "error"}
                                     /\ last[k].age <= TTL
  BY DEF GateFollowsDecisions
<1>1. last[k].age \in Ages /\ denied[k] \in Ages \cup {NoEntry}
  BY DEF TypeOK
<1>2. last[k].age \in Nat /\ TTL \in Nat /\ last[k].age # NoEntry
  BY <1>1, AgeFacts
<1>3. denied[k] # NoEntry =>
         /\ last[k].what \in {"deny", "error"} /\ last[k].age <= denied[k]
         /\ denied[k] \in Nat
  BY <1>1, AgeFacts DEF DeniedInv
<1>4. Blocked(k) <=> last[k].what \in {"deny", "error"} /\ last[k].age <= TTL
  BY <1>2 DEF GateInv, Blocked
<1> QED
  BY <1>2, <1>3, <1>4

-----------------------------------------------------------------------------
(* The evidence                                                            *)

LEMMA EvidenceInit == Init => EvidenceMatchesAnswer
BY DEF Init, EvidenceMatchesAnswer

\* A handler whose own state stays as it is keeps its evidence.
Settled(h) == pc[h] \in {"record", "answer"} /\ Told(h) # "none" => wrote[h] = Told(h)

LEMMA OthersStaySettled ==
    ASSUME NEW g \in Handlers, Settled(g),
           pc'[g] = pc[g] \/ pc[g] \in {"record", "answer"},
           out'[g] = out[g], wrote'[g] = wrote[g]
    PROVE  Settled(g)'
BY DEF Settled, Told

LEMMA ApiAndErrorsTellNothing ==
    ASSUME NEW g \in Handlers,
           \/ out'[g].code # "none"
           \/ out'[g].source = "api"
    PROVE  Settled(g)'
BY DEF Settled, Told

LEMMA WorkSettled ==
    ASSUME TypeOK, HandlerInv, NEW h \in Handlers,
           CallApi(h) \/ EvaluatePolicy(h) \/ InitStore(h) \/ AppendEvidence(h)
    PROVE  Settled(h)'
<1>0. /\ pc \in [Handlers -> Steps] /\ out \in [Handlers -> Output]
      /\ wrote \in [Handlers -> {"none", "allow", "deny"}]
  BY DEF TypeOK
<1>1. CASE pc'[h] \notin {"record", "answer"}
  BY <1>1 DEF Settled
<1>2. ASSUME NEW c, c # "none", Evaluated(h, Error(c)) PROVE Settled(h)'
  <2>1. out'[h].code = c
    BY <1>0, <1>2 DEF Evaluated, Error
  <2> QED
    BY <1>2, <2>1, ApiAndErrorsTellNothing
<1>3. CASE CallApi(h)
  <2>1. ASSUME NEW pass \in BOOLEAN, Evaluated(h, Decision(pass, "api"))
        PROVE  Settled(h)'
    <3>1. out'[h].source = "api"
      BY <1>0, <2>1 DEF Evaluated, Decision
    <3> QED
      BY <3>1, ApiAndErrorsTellNothing
  <2>2. ASSUME NEW e \in ClientErrors, Evaluated(h, Error(ApiCode(e)))
        PROVE  Settled(h)'
    BY <1>2, <2>2, ApiCodeType
  <2>3. ASSUME pc' = [pc EXCEPT ![h] = "local"] PROVE Settled(h)'
    BY <1>0, <1>1, <2>3
  <2> QED
    BY <1>3, <2>1, <2>2, <2>3 DEF CallApi
<1>4. CASE EvaluatePolicy(h)
  <2>1. ASSUME pc' = [pc EXCEPT ![h] = "init"] PROVE Settled(h)'
    BY <1>0, <1>1, <2>1
  <2> QED
    BY <1>2, <1>4, <2>1 DEF EvaluatePolicy
<1>5. CASE InitStore(h)
  <2>1. ASSUME pc' = [pc EXCEPT ![h] = "append"] PROVE Settled(h)'
    BY <1>0, <1>1, <2>1
  <2> QED
    BY <1>2, <1>5, <2>1 DEF InitStore
<1>6. CASE AppendEvidence(h)
  <2>1. ASSUME wrote' = [wrote EXCEPT ![h] = Verdict(h)],
               Evaluated(h, Decision(req[h].allowed,
                                     IF Online THEN "local-fallback" ELSE "local"))
        PROVE  Settled(h)'
    <3>1. wrote'[h] = Verdict(h)
      BY <1>0, <2>1
    <3>2. /\ out'[h].allow = req[h].allowed
          /\ out'[h].source \in {"local", "local-fallback"}
          /\ out'[h].code = "none"
      BY <1>0, <2>1 DEF Evaluated, Decision
    <3>3. req[h].allowed \in BOOLEAN
      BY <1>6, ServiceAssumption DEF AppendEvidence, HandlerInv
    <3> QED
      BY <3>1, <3>2, <3>3 DEF Settled, Told, Verdict
  <2> QED
    BY <1>2, <1>6, <2>1 DEF AppendEvidence
<1> QED
  BY <1>3, <1>4, <1>5, <1>6

LEMMA EvidenceStep ==
    TypeOK /\ HandlerInv /\ EvidenceMatchesAnswer /\ [Next]_vars
        => EvidenceMatchesAnswer'
<1> SUFFICES ASSUME TypeOK, HandlerInv, [Next]_vars, NEW g \in Handlers, Settled(g)
             PROVE  Settled(g)'
  BY DEF EvidenceMatchesAnswer, Settled
<1>0. /\ pc \in [Handlers -> Steps] /\ out \in [Handlers -> Output]
      /\ wrote \in [Handlers -> {"none", "allow", "deny"}]
  BY DEF TypeOK
<1>1. ASSUME NEW h \in Handlers, NEW r \in Requests, Receive(h, r)
      PROVE  Settled(g)'
  <2>1. CASE g # h
    <3>1. pc'[g] = pc[g] /\ out'[g] = out[g] /\ wrote'[g] = wrote[g]
      BY <1>0, <1>1, <2>1 DEF Receive
    <3> QED
      BY <3>1, OthersStaySettled
  <2>2. CASE g = h /\ r.actor \in Gated /\ Blocked(r.key)
    <3>1. out'[g].code = "stop_after_deny"
      BY <1>0, <1>1, <2>2 DEF Receive, Error
    <3> QED
      BY <3>1, ApiAndErrorsTellNothing
  <2>3. CASE g = h /\ ~(r.actor \in Gated /\ Blocked(r.key))
    <3>1. pc'[g] = StartOf
      BY <1>0, <1>1, <2>3 DEF Receive
    <3> QED
      BY <3>1 DEF Settled, StartOf
  <2> QED
    BY <2>1, <2>2, <2>3
<1>2. ASSUME NEW h \in Handlers,
             CallApi(h) \/ EvaluatePolicy(h) \/ InitStore(h) \/ AppendEvidence(h)
      PROVE  Settled(g)'
  <2>1. CASE g # h
    <3>1. Evaluates(h)
      BY <1>2, WorkEvaluates
    <3>2. pc'[g] = pc[g] /\ out'[g] = out[g] /\ wrote'[g] = wrote[g]
      BY <1>0, <2>1, <3>1 DEF Evaluates, Evaluated
    <3> QED
      BY <3>2, OthersStaySettled
  <2> QED
    BY <1>2, <2>1, WorkSettled
<1>3. ASSUME NEW h \in Handlers, RecordOutcome(h) PROVE Settled(g)'
  <2>1. /\ pc'[g] = pc[g] \/ pc[g] \in {"record", "answer"}
        /\ out'[g] = out[g] /\ wrote'[g] = wrote[g]
    BY <1>0, <1>3 DEF RecordOutcome
  <2> QED
    BY <2>1, OthersStaySettled
<1>4. ASSUME NEW h \in Handlers, Answer(h) PROVE Settled(g)'
  <2>1. CASE g # h
    <3>1. pc'[g] = pc[g] /\ out'[g] = out[g] /\ wrote'[g] = wrote[g]
      BY <1>0, <1>4, <2>1 DEF Answer
    <3> QED
      BY <3>1, OthersStaySettled
  <2>2. CASE g = h
    <3>1. pc'[g] = "idle"
      BY <1>0, <1>4, <2>2 DEF Answer
    <3> QED
      BY <3>1 DEF Settled
  <2> QED
    BY <2>1, <2>2
<1>5. CASE Tick \/ Cleanup \/ UNCHANGED vars
  <2>1. UNCHANGED <<pc, out, wrote>>
    BY <1>5 DEF Tick, Cleanup, vars
  <2> QED
    BY <2>1, OthersStaySettled
<1>6. CASE Restart
  BY <1>6 DEF Restart, Settled
<1> QED
  BY <1>1, <1>2, <1>3, <1>4, <1>5, <1>6 DEF Next, Work

-----------------------------------------------------------------------------
(* The theorems                                                            *)

\* What the two results below rest on: types, the handlers' state, the age of
\* every entry of the deny cache and the evidence of every local decision hold
\* in every reachable state of pkg/mcpserver's ValidateService.
THEOREM ServiceInvariant == Spec => []ServiceInv
<1>1. Init => ServiceInv
  BY TypedInit, GateInit, DeniedInit, EvidenceInit DEF ServiceInv
<1>2. ServiceInv /\ [Next]_vars => ServiceInv'
  BY TypedStep, GateStep, DeniedStep, EvidenceStep DEF ServiceInv
<1> QED
  BY <1>1, <1>2, PTL DEF Spec

\* The variables keep their types, and every error that Validate reports, also
\* of a failed call of the API, has a code of the server's own constants or one
\* of the three it has for the API client's errors.
THEOREM ServiceTypeCorrect == Spec => []TypeOK
<1>1. ServiceInv => TypeOK
  BY DEF ServiceInv
<1> QED
  BY <1>1, ServiceInvariant, PTL

\* However the CheckDenyLoop, RecordDeny, ClearIntent and Cleanup calls of any
\* number of concurrent requests interleave, an intent that an agent or CI was
\* denied stays blocked for the TTL or until it is allowed, and an intent is
\* blocked only within the TTL of an evaluation that did not allow it.
THEOREM DenialsAreKept == Spec => []GateFollowsDecisions
<1>1. ServiceInv => GateFollowsDecisions
  BY GateBlocks DEF ServiceInv
<1> QED
  BY <1>1, ServiceInvariant, PTL

\* Validate answers no local decision, of an offline server or of the fallback,
\* without an evidence record of just that decision.
THEOREM DecisionsHaveEvidence == Spec => []EvidenceMatchesAnswer
<1>1. ServiceInv => EvidenceMatchesAnswer
  BY DEF ServiceInv
<1> QED
  BY <1>1, ServiceInvariant, PTL
=============================================================================
