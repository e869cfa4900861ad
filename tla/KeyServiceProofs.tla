-------------------------- MODULE KeyServiceProofs --------------------------
(***************************************************************************)
(* API keys: the limit on admissions holds in every window, and a key that *)
(* was handed out is in the database, for any number of requests,          *)
(* addresses, restarts and failures.                                       *)
(***************************************************************************)
EXTENDS KeyService, FiniteSetTheorems, TLAPS

\* db.Connect: the statements before proc.next took effect.
MigrationInv ==
    /\ proc.phase = "migrating" =>
          \A i \in 1 .. Statements : i < proc.next => i \in schema
    /\ Serving /\ proc.store => 1 .. Statements \subseteq schema

\* What the transaction of r holds at each step of CreateKey.
RowsOf(l) ==
    IF l = "key" THEN {"tenant"}
    ELSE IF l = "commit" THEN {"tenant", "key"} ELSE {}

\* A request has no rows, and no answer, before its end.
RequestInv ==
    /\ tenants = keys
    /\ \A r \in Requests :
          /\ tx[r] = RowsOf(pc[r])
          /\ pc[r] # "done" => status[r] = 0 /\ r \notin keys
          /\ r \in keys => status[r] \in {0, 201, 500}
          /\ status[r] = 201 => r \in keys

\* The limiter forgets only admissions that have left the current window.
LimiterInv ==
    \A a \in Addresses :
        /\ IsFiniteSet(admitted[a])
        /\ limiter[a] \subseteq admitted[a]
        /\ \A s \in admitted[a] :
              s.at <= clock /\ (s \notin limiter[a] => s.at <= clock - Window)

KeyInv == TypeOK /\ MigrationInv /\ RequestInv /\ LimiterInv /\ RateLimited

-----------------------------------------------------------------------------
(* Types and migrations                                                    *)

LEMMA TypeInit == Init => TypeOK /\ MigrationInv
<1> SUFFICES ASSUME Init PROVE TypeOK /\ MigrationInv
  OBVIOUS
<1>1. ~Serving /\ proc.phase # "migrating"
  BY DEF Init, Down, Serving
<1>2. proc \in [phase : {"down", "migrating", "up", "draining"},
                store : BOOLEAN, next : Nat]
  BY DEF Init, Down
<1> QED
  BY <1>1, <1>2 DEF Init, TypeOK, MigrationInv

\* The steps of a handler leave the process alone.
LEMMA HandlerKeepsProcess ==
    ASSUME NEW r \in Requests, Handler(r)
    PROVE  UNCHANGED procVars /\ UNCHANGED addr
BY DEF Handler, HandleKeys, Allow, Label, Begin, InsertTenant, InsertKey, Commit,
   CreateFails

LEMMA HandlerType ==
    ASSUME TypeOK, MigrationInv, NEW r \in Requests, Handler(r)
    PROVE  TypeOK' /\ MigrationInv'
<1>1. UNCHANGED <<procVars, addr>>
  BY HandlerKeepsProcess
<1>2. MigrationInv'
  BY <1>1 DEF MigrationInv, Serving, procVars
<1>3. /\ pc' \in [Requests -> {"new", "allow", "label", "begin", "tenant", "key",
                               "commit", "done"}]
      /\ status' \in [Requests -> {0, 201, 400, 403, 429, 500, 501}]
      /\ tx' \in [Requests -> SUBSET {"tenant", "key"}]
  BY DEF TypeOK, Handler, HandleKeys, Allow, Label, Begin, InsertTenant, InsertKey,
     Commit, CreateFails, Finish, Goto
<1>4. limiter' \in [Addresses -> SUBSET Slot] /\ admitted' \in [Addresses -> SUBSET Slot]
  <2>1. CASE Allow(r)
    <3>1. addr[r] \in Addresses /\ [req |-> r, at |-> clock] \in Slot
      BY DEF TypeOK, Slot
    <3>2. Recent(limiter[addr[r]]) \in SUBSET Slot
      BY <3>1 DEF TypeOK, Recent
    <3> QED
      BY <2>1, <3>1, <3>2 DEF Allow, TypeOK
  <2>2. CASE ~Allow(r)
    <3>1. UNCHANGED <<limiter, admitted>>
      BY <2>2 DEF Handler, HandleKeys, Label, Begin, InsertTenant, InsertKey,
         Commit, CreateFails, limitVars
    <3> QED
      BY <3>1 DEF TypeOK
  <2> QED
    BY <2>1, <2>2
<1>5. tenants' \subseteq Requests /\ keys' \subseteq Requests
  BY DEF TypeOK, Handler, HandleKeys, Allow, Label, Begin, InsertTenant, InsertKey,
     Commit, CreateFails, Committed, tableVars
<1> QED
  BY <1>1, <1>2, <1>3, <1>4, <1>5 DEF TypeOK, MigrationInv, procVars, Serving

LEMMA TypeStep == TypeOK /\ MigrationInv /\ [Next]_vars => (TypeOK /\ MigrationInv)'
<1> SUFFICES ASSUME TypeOK, MigrationInv, [Next]_vars
             PROVE  TypeOK' /\ MigrationInv'
  OBVIOUS
<1>1. ASSUME NEW cfg \in Configs, Start(cfg) PROVE TypeOK' /\ MigrationInv'
  <2>1. /\ proc' \in [phase : {"down", "migrating", "up", "draining"},
                      store : BOOLEAN, next : Nat]
        /\ proc'.next = 1
        /\ proc'.phase = IF cfg.database THEN "migrating" ELSE "up"
        /\ proc'.store = cfg.database
    BY <1>1 DEF Start, Configs
  <2>2. MigrationInv'
    BY <2>1 DEF MigrationInv, Serving
  <2> QED
    BY <1>1, <2>1, <2>2 DEF Start, TypeOK, MigrationInv, requestVars, tableVars
<1>2. CASE Migrate
  <2>1. /\ proc.phase = "migrating" /\ proc.next \in Nat /\ proc.store \in BOOLEAN
        /\ Statements \in Nat
    BY <1>2, KeyAssumption DEF Migrate, TypeOK
  <2>2. CASE /\ proc.next <= Statements
             /\ schema' = schema \cup {proc.next}
             /\ proc' = [proc EXCEPT !.next = @ + 1]
    BY <1>2, <2>1, <2>2
       DEF Migrate, TypeOK, MigrationInv, Serving, limitVars, requestVars, tableVars
  <2>3. CASE /\ proc.next > Statements
             /\ proc' = [proc EXCEPT !.phase = "up"]
             /\ UNCHANGED schema
    BY <1>2, <2>1, <2>3
       DEF Migrate, TypeOK, MigrationInv, Serving, limitVars, requestVars, tableVars
  <2>4. CASE proc' = Down /\ UNCHANGED schema
    BY <1>2, <2>1, <2>4
       DEF Migrate, TypeOK, MigrationInv, Serving, Down, limitVars, requestVars,
           tableVars
  <2> QED
    BY <1>2, <2>2, <2>3, <2>4 DEF Migrate
<1>3. CASE Shutdown
  BY <1>3 DEF Shutdown, TypeOK, MigrationInv, Serving, limitVars, requestVars, tableVars
<1>4. CASE Gone
  <2>1. tenants' \subseteq Requests /\ keys' \subseteq Requests
    BY <1>4 DEF Gone, Committed, TypeOK
  <2>2. /\ pc' \in [Requests -> {"new", "allow", "label", "begin", "tenant", "key",
                                 "commit", "done"}]
        /\ tx' \in [Requests -> SUBSET {"tenant", "key"}]
    BY <1>4 DEF Gone, TypeOK
  <2>3. /\ proc' \in [phase : {"down", "migrating", "up", "draining"},
                      store : BOOLEAN, next : Nat]
        /\ proc'.phase = "down"
    BY <1>4 DEF Gone, Down
  <2> QED
    BY <1>4, <2>1, <2>2, <2>3 DEF Gone, TypeOK, MigrationInv, Serving, limitVars
<1>5. ASSUME NEW r \in Requests, Handler(r) PROVE TypeOK' /\ MigrationInv'
  BY <1>5, HandlerType
<1>6. CASE Tick
  BY <1>6 DEF Tick, TypeOK, MigrationInv, Serving, limitVars, requestVars, tableVars
<1>7. CASE UNCHANGED vars
  BY <1>7 DEF vars, procVars, TypeOK, MigrationInv, Serving, limitVars, requestVars,
     tableVars
<1> QED
  BY <1>1, <1>2, <1>3, <1>4, <1>5, <1>6, <1>7 DEF Next, Stop, Crash

-----------------------------------------------------------------------------
(* Rows                                                                    *)

\* Requests whose control, rows and answers do not change keep their invariant.
LEMMA RequestStutter ==
    ASSUME RequestInv, UNCHANGED <<pc, status, tx, tenants, keys>>
    PROVE  RequestInv'
BY DEF RequestInv, RowsOf

\* The whole of r's step: where it goes, what it has answered and inserted.
LEMMA RequestMoves ==
    ASSUME TypeOK, RequestInv, NEW r \in Requests, pc[r] # "done",
           NEW l \in {"allow", "label", "begin", "tenant", "key", "commit"},
           pc' = [pc EXCEPT ![r] = l], tx' = [tx EXCEPT ![r] = RowsOf(l)],
           UNCHANGED <<status, tenants, keys>>
    PROVE  RequestInv'
<1>1. ASSUME NEW q \in Requests
      PROVE  /\ tx'[q] = RowsOf(pc'[q])
             /\ pc'[q] # "done" => status'[q] = 0 /\ q \notin keys
  <2>1. CASE q = r
    BY <2>1 DEF TypeOK, RequestInv
  <2>2. CASE q # r
    BY <2>2 DEF TypeOK, RequestInv
  <2> QED
    BY <2>1, <2>2
<1> QED
  BY <1>1 DEF RequestInv

\* ... and r's end, with an answer that is no 201, and without rows.
LEMMA RequestEnds ==
    ASSUME TypeOK, RequestInv, NEW r \in Requests, pc[r] # "done",
           NEW s \in {400, 403, 429, 500, 501}, Finish(r, s),
           UNCHANGED <<tenants, keys>>
    PROVE  RequestInv'
<1>1. /\ pc' = [pc EXCEPT ![r] = "done"] /\ status' = [status EXCEPT ![r] = s]
      /\ tx' = [tx EXCEPT ![r] = {}]
  BY DEF Finish
<1>2. RowsOf("done") = {}
  BY DEF RowsOf
<1>3. r \notin keys
  BY DEF RequestInv
<1>4. ASSUME NEW q \in Requests
      PROVE  /\ tx'[q] = RowsOf(pc'[q])
             /\ pc'[q] # "done" => status'[q] = 0 /\ q \notin keys
             /\ q \in keys => status'[q] \in {0, 201, 500}
             /\ status'[q] = 201 => q \in keys
  <2>1. CASE q = r
    BY <1>1, <1>2, <1>3, <2>1 DEF TypeOK
  <2>2. CASE q # r
    BY <1>1, <2>2 DEF TypeOK, RequestInv
  <2> QED
    BY <2>1, <2>2
<1> QED
  BY <1>4 DEF RequestInv

LEMMA RequestHandler ==
    ASSUME TypeOK, RequestInv, NEW r \in Requests, Handler(r)
    PROVE  RequestInv'
<1>0. /\ pc \in [Requests -> {"new", "allow", "label", "begin", "tenant", "key",
                              "commit", "done"}]
      /\ tx \in [Requests -> SUBSET {"tenant", "key"}]
      /\ tx[r] = RowsOf(pc[r])
  BY DEF TypeOK, RequestInv
<1>1. ASSUME NEW b \in BOOLEAN, HandleKeys(r, b) PROVE RequestInv'
  <2>1. pc[r] = "new" /\ UNCHANGED <<tenants, keys>>
    BY <1>1 DEF HandleKeys, tableVars
  <2>2. Finish(r, 501) \/ Finish(r, 403) \/ Goto(r, "allow")
    BY <1>1 DEF HandleKeys
  <2>3. CASE Goto(r, "allow")
    <3>1. tx' = [tx EXCEPT ![r] = RowsOf("allow")]
      BY <1>0, <2>1, <2>3 DEF Goto, RowsOf
    <3> QED
      BY <2>1, <2>3, <3>1, RequestMoves DEF Goto
  <2> QED
    BY <2>1, <2>2, <2>3, RequestEnds
<1>2. CASE Allow(r)
  <2>1. pc[r] = "allow" /\ UNCHANGED <<tenants, keys>>
    BY <1>2 DEF Allow, tableVars
  <2>2. Finish(r, 429) \/ Goto(r, "label")
    BY <1>2 DEF Allow
  <2>3. CASE Goto(r, "label")
    <3>1. tx' = [tx EXCEPT ![r] = RowsOf("label")]
      BY <1>0, <2>1, <2>3 DEF Goto, RowsOf
    <3> QED
      BY <2>1, <2>3, <3>1, RequestMoves DEF Goto
  <2> QED
    BY <2>1, <2>2, <2>3, RequestEnds
<1>3. ASSUME NEW b \in BOOLEAN, Label(r, b) PROVE RequestInv'
  <2>1. pc[r] = "label" /\ UNCHANGED <<tenants, keys>>
    BY <1>3 DEF Label, tableVars
  <2>2. Finish(r, 400) \/ Goto(r, "begin")
    BY <1>3 DEF Label
  <2>3. CASE Goto(r, "begin")
    <3>1. tx' = [tx EXCEPT ![r] = RowsOf("begin")]
      BY <1>0, <2>1, <2>3 DEF Goto, RowsOf
    <3> QED
      BY <2>1, <2>3, <3>1, RequestMoves DEF Goto
  <2> QED
    BY <2>1, <2>2, <2>3, RequestEnds
<1>4. CASE Begin(r)
  <2>1. tx' = [tx EXCEPT ![r] = RowsOf("tenant")]
    BY <1>0, <1>4 DEF Begin, Goto, RowsOf
  <2> QED
    BY <1>4, <2>1, RequestMoves DEF Begin, Goto, tableVars
<1>5. CASE InsertTenant(r)
  <2>1. tx' = [tx EXCEPT ![r] = RowsOf("key")]
    BY <1>0, <1>5 DEF InsertTenant, RowsOf
  <2> QED
    BY <1>5, <2>1, RequestMoves DEF InsertTenant, tableVars
<1>6. CASE InsertKey(r)
  <2>1. tx' = [tx EXCEPT ![r] = RowsOf("commit")]
    BY <1>0, <1>6 DEF InsertKey, RowsOf
  <2> QED
    BY <1>6, <2>1, RequestMoves DEF InsertKey, tableVars
<1>7. CASE Commit(r)
  <2>1. pc[r] = "commit" /\ tx[r] = {"tenant", "key"} /\ r \notin keys
    BY <1>0, <1>7 DEF Commit, RowsOf, RequestInv
  <2>2. CASE UNCHANGED tableVars /\ Finish(r, 500)
    BY <2>1, <2>2, RequestEnds DEF tableVars
  <2>3. ASSUME Committed({r}), NEW s \in {201, 500}, Finish(r, s)
        PROVE  RequestInv'
    <3>1. tenants' = tenants \cup {r} /\ keys' = keys \cup {r}
      BY <2>1, <2>3 DEF Committed
    <3>2. RowsOf("done") = {}
      BY DEF RowsOf
    <3>3. ASSUME NEW q \in Requests
          PROVE  /\ tx'[q] = RowsOf(pc'[q])
                 /\ pc'[q] # "done" => status'[q] = 0 /\ q \notin keys'
                 /\ q \in keys' => status'[q] \in {0, 201, 500}
                 /\ status'[q] = 201 => q \in keys'
      <4>1. CASE q = r
        BY <2>3, <3>1, <3>2, <4>1 DEF Finish, TypeOK
      <4>2. CASE q # r
        BY <2>3, <3>1, <4>2 DEF Finish, TypeOK, RequestInv
      <4> QED
        BY <4>1, <4>2
    <3> QED
      BY <3>1, <3>3 DEF RequestInv
  <2> QED
    BY <1>7, <2>2, <2>3 DEF Commit
<1>8. CASE CreateFails(r)
  <2>1. pc[r] # "done" /\ Finish(r, 500) /\ UNCHANGED <<tenants, keys>>
    BY <1>8 DEF CreateFails, tableVars
  <2> QED
    BY <2>1, RequestEnds
<1> QED
  BY <1>1, <1>2, <1>3, <1>4, <1>5, <1>6, <1>7, <1>8 DEF Handler

\* The process ends: commits that reached the database have both their rows.
LEMMA RequestGone ==
    ASSUME TypeOK, RequestInv, Gone
    PROVE  RequestInv'
<1>1. PICK R \in SUBSET {r \in Requests : pc[r] = "commit"} : Committed(R)
  BY DEF Gone
<1>2. \A r \in R : tx[r] = {"tenant", "key"} /\ status[r] = 0
  BY <1>1 DEF RequestInv, RowsOf
<1>3. tenants' = tenants \cup R /\ keys' = keys \cup R
  BY <1>1, <1>2 DEF Committed
<1>4. ASSUME NEW q \in Requests
      PROVE  /\ tx'[q] = RowsOf(pc'[q])
             /\ pc'[q] # "done" => status'[q] = 0 /\ q \notin keys'
             /\ q \in keys' => status'[q] \in {0, 201, 500}
             /\ status'[q] = 201 => q \in keys'
  <2>1. /\ pc'[q] = IF pc[q] \in Idle THEN pc[q] ELSE "done"
        /\ tx'[q] = {} /\ status'[q] = status[q]
    BY DEF Gone
  <2>2. tx'[q] = RowsOf(pc'[q])
    BY <2>1 DEF RowsOf, Idle
  <2>3. pc[q] = "new" => q \notin R
    BY <1>1
  <2> QED
    BY <1>2, <1>3, <2>1, <2>2, <2>3 DEF RequestInv, Idle
<1> QED
  BY <1>3, <1>4 DEF RequestInv

LEMMA RequestStep == TypeOK /\ RequestInv /\ [Next]_vars => RequestInv'
<1> SUFFICES ASSUME TypeOK, RequestInv, [Next]_vars PROVE RequestInv'
  OBVIOUS
<1>1. CASE \/ \E cfg \in Configs : Start(cfg)
           \/ Migrate \/ Shutdown \/ Tick \/ UNCHANGED vars
  <2>1. UNCHANGED <<pc, status, tx, tenants, keys>>
    BY <1>1 DEF Start, Migrate, Shutdown, Tick, vars, requestVars, tableVars
  <2> QED
    BY <2>1, RequestStutter
<1>2. CASE Stop \/ Crash
  BY <1>2, RequestGone DEF Stop, Crash
<1>3. ASSUME NEW r \in Requests, Handler(r) PROVE RequestInv'
  BY <1>3, RequestHandler
<1> QED
  BY <1>1, <1>2, <1>3 DEF Next

-----------------------------------------------------------------------------
(* The rate limiter                                                        *)

\* An invariant over all addresses and windows, for one address at one time.
WithinLimit(slots, now) ==
    \A t \in 0 .. now :
        Cardinality({s \in slots : t - Window < s.at /\ s.at <= t}) <= Limit

Remembered(slots, list, now) ==
    /\ IsFiniteSet(slots)
    /\ list \subseteq slots
    /\ \A s \in slots : s.at <= now /\ (s \notin list => s.at <= now - Window)

LEMMA LimitByAddress ==
    /\ LimiterInv <=>
          \A a \in Addresses : Remembered(admitted[a], limiter[a], clock)
    /\ RateLimited <=> \A a \in Addresses : WithinLimit(admitted[a], clock)
BY DEF LimiterInv, Remembered, RateLimited, WithinLimit, InWindow

\* Nothing was admitted yet.
LEMMA LimitEmpty ==
    ASSUME NEW now \in Nat
    PROVE  Remembered({}, {}, now) /\ WithinLimit({}, now)
<1>1. IsFiniteSet({}) /\ Cardinality({}) = 0
  BY FS_EmptySet
<1>2. \A t \in 0 .. now : {s \in {} : t - Window < s.at /\ s.at <= t} = {}
  OBVIOUS
<1> QED
  BY <1>1, <1>2, KeyAssumption DEF Remembered, WithinLimit

\* A moment later: the window that ends now holds nothing that the one which
\* ended a moment ago did not hold.
LEMMA LimitTick ==
    ASSUME NEW now \in Nat, NEW slots \in SUBSET Slot, NEW list,
           Remembered(slots, list, now), WithinLimit(slots, now)
    PROVE  Remembered(slots, list, now + 1) /\ WithinLimit(slots, now + 1)
<1>0. /\ Window \in Nat /\ Limit \in Nat
      /\ \A s \in slots : s.at \in Nat /\ s.at <= now
  BY KeyAssumption DEF Remembered, Slot
<1>1. Remembered(slots, list, now + 1)
  BY <1>0 DEF Remembered
<1> DEFINE W(t) == {s \in slots : t - Window < s.at /\ s.at <= t}
<1>2. Cardinality(W(now + 1)) <= Limit
  <2>1. W(now + 1) \subseteq W(now)
    BY <1>0
  <2>2. IsFiniteSet(W(now))
    BY FS_Subset DEF Remembered
  <2>3. /\ Cardinality(W(now + 1)) <= Cardinality(W(now))
        /\ Cardinality(W(now)) \in Nat /\ Cardinality(W(now + 1)) \in Nat
    BY <2>1, <2>2, FS_Subset, FS_CardinalityType
  <2>4. Cardinality(W(now)) <= Limit
    BY DEF WithinLimit
  <2> HIDE DEF W
  <2> QED
    BY <1>0, <2>3, <2>4
<1>3. \A t \in 0 .. now : Cardinality(W(t)) <= Limit
  BY DEF WithinLimit
<1> HIDE DEF W
<1>4. \A t \in 0 .. (now + 1) : Cardinality(W(t)) <= Limit
  BY <1>2, <1>3
<1> QED
  BY <1>1, <1>4 DEF WithinLimit, W

\* rateLimiter.allow prunes the list and, below the limit, adds a slot.
LEMMA LimitPrune ==
    ASSUME NEW now \in Nat, NEW slots \in SUBSET Slot, NEW list,
           Remembered(slots, list, now)
    PROVE  Remembered(slots, {s \in list : s.at > now - Window}, now)
<1>1. Window \in Nat /\ \A s \in slots : s.at \in Nat
  BY KeyAssumption DEF Slot
<1> QED
  BY <1>1 DEF Remembered

LEMMA LimitAdmit ==
    ASSUME NEW now \in Nat, NEW slots \in SUBSET Slot, NEW list,
           Remembered(slots, list, now), WithinLimit(slots, now),
           NEW fresh, fresh = {s \in list : s.at > now - Window},
           ~(Cardinality(fresh) >= Limit),
           NEW slot \in Slot, slot.at = now
    PROVE  /\ Remembered(slots \cup {slot}, fresh \cup {slot}, now)
           /\ WithinLimit(slots \cup {slot}, now)
<1>0. /\ Window \in Nat \ {0} /\ Limit \in Nat
      /\ \A s \in slots : s.at \in Nat /\ s.at <= now
      /\ IsFiniteSet(slots) /\ list \subseteq slots
  BY KeyAssumption DEF Remembered, Slot
<1>1. Remembered(slots \cup {slot}, fresh \cup {slot}, now)
  <2>1. IsFiniteSet(slots \cup {slot})
    BY <1>0, FS_AddElement
  <2>2. fresh \cup {slot} \subseteq slots \cup {slot}
    BY <1>0
  <2>3. ASSUME NEW s \in slots \cup {slot}
        PROVE  /\ s.at <= now
               /\ s \notin fresh \cup {slot} => s.at <= now - Window
    <3>1. CASE s = slot
      BY <3>1
    <3>2. CASE s \in slots /\ s \in list
      BY <1>0, <3>2
    <3>3. CASE s \in slots /\ s \notin list
      BY <1>0, <3>3 DEF Remembered
    <3> QED
      BY <3>1, <3>2, <3>3
  <2> QED
    BY <2>1, <2>2, <2>3 DEF Remembered
<1> DEFINE Old(t) == {s \in slots : t - Window < s.at /\ s.at <= t}
           New(t) == {s \in slots \cup {slot} : t - Window < s.at /\ s.at <= t}
<1>2. ASSUME NEW t \in 0 .. now PROVE Cardinality(New(t)) <= Limit
  <2>1. CASE t < now
    <3>1. New(t) = Old(t)
      BY <1>0, <2>1
    <3>2. Cardinality(Old(t)) <= Limit
      BY DEF WithinLimit
    <3> QED
      BY <3>1, <3>2
  <2>2. CASE t = now
    <3>1. New(t) \subseteq fresh \cup {slot}
      <4>1. ASSUME NEW s \in slots, now - Window < s.at PROVE s \in fresh
        <5>1. s.at \in Nat /\ (s \notin list => s.at <= now - Window)
          BY <1>0 DEF Remembered
        <5>2. s \in list
          BY <1>0, <4>1, <5>1
        <5> QED
          BY <1>0, <4>1, <5>1, <5>2
      <4> QED
        BY <2>2, <4>1
    <3>2. IsFiniteSet(fresh)
      BY <1>0, FS_Subset
    <3>3. /\ IsFiniteSet(fresh \cup {slot}) /\ Cardinality(fresh) \in Nat
          /\ Cardinality(fresh \cup {slot}) <= Cardinality(fresh) + 1
          /\ Cardinality(fresh \cup {slot}) \in Nat
      <4>1. Cardinality(fresh) \in Nat
        BY <3>2, FS_CardinalityType
      <4>2. /\ IsFiniteSet(fresh \cup {slot})
            /\ Cardinality(fresh \cup {slot}) =
                  IF slot \in fresh THEN Cardinality(fresh) ELSE Cardinality(fresh) + 1
        BY <3>2, FS_AddElement
      <4> QED
        BY <4>1, <4>2
    <3>4. /\ Cardinality(New(t)) <= Cardinality(fresh \cup {slot})
          /\ Cardinality(New(t)) \in Nat
      BY <3>1, <3>3, FS_Subset, FS_CardinalityType
    <3> HIDE DEF New
    <3> QED
      BY <1>0, <3>3, <3>4
  <2> QED
    BY <2>1, <2>2
<1> QED
  BY <1>1, <1>2 DEF WithinLimit

LEMMA LimitStep ==
    TypeOK /\ LimiterInv /\ RateLimited /\ [Next]_vars => (LimiterInv /\ RateLimited)'
<1> SUFFICES ASSUME TypeOK, LimiterInv, RateLimited, [Next]_vars
             PROVE  LimiterInv' /\ RateLimited'
  OBVIOUS
<1> DEFINE Good(a) == /\ Remembered(admitted[a], limiter[a], clock)
                      /\ WithinLimit(admitted[a], clock)
<1>0. /\ clock \in Nat
      /\ admitted \in [Addresses -> SUBSET Slot]
      /\ limiter \in [Addresses -> SUBSET Slot]
      /\ addr \in [Requests -> Addresses]
  BY DEF TypeOK
<1>1. \A a \in Addresses : Good(a)
  BY LimitByAddress
<1> SUFFICES \A a \in Addresses : Good(a)'
  <2>1. /\ LimiterInv' <=>
              \A a \in Addresses : Remembered(admitted[a], limiter[a], clock)'
        /\ RateLimited' <=> \A a \in Addresses : WithinLimit(admitted[a], clock)'
    BY DEF LimiterInv, Remembered, RateLimited, WithinLimit, InWindow
  <2> QED
    BY <2>1
<1>2. CASE \E cfg \in Configs : Start(cfg)
  <2>1. clock' = clock /\ \A a \in Addresses : admitted'[a] = {} /\ limiter'[a] = {}
    BY <1>2 DEF Start
  <2> QED
    BY <1>0, <2>1, LimitEmpty
<1>3. CASE Tick
  <2>1. clock' = clock + 1 /\ UNCHANGED <<admitted, limiter>>
    BY <1>3 DEF Tick, limitVars
  <2>2. \A a \in Addresses : admitted[a] \in SUBSET Slot
    BY <1>0
  <2> QED
    BY <1>0, <1>1, <2>1, <2>2, LimitTick
<1>4. ASSUME NEW r \in Requests, Allow(r) PROVE \A a \in Addresses : Good(a)'
  <2> DEFINE a == addr[r]
             fresh == Recent(limiter[a])
             slot == [req |-> r, at |-> clock]
  <2>1. a \in Addresses /\ slot \in Slot /\ slot.at = clock
    BY <1>0 DEF Slot
  <2>2. fresh = {s \in limiter[a] : s.at > clock - Window}
    BY DEF Recent
  <2>3. clock' = clock
    BY <1>4 DEF Allow, procVars
  <2>4. CASE Cardinality(fresh) >= Limit
    <3>1. admitted' = admitted /\ limiter' = [limiter EXCEPT ![a] = fresh]
      BY <1>4, <2>4 DEF Allow
    <3>2. Remembered(admitted[a], fresh, clock)
      BY <1>0, <1>1, <2>1, <2>2, LimitPrune
    <3> HIDE DEF fresh, a
    <3> QED
      BY <1>0, <1>1, <2>1, <2>3, <3>1, <3>2
  <2>5. CASE ~(Cardinality(fresh) >= Limit)
    <3>1. /\ admitted' = [admitted EXCEPT ![a] = @ \cup {slot}]
          /\ limiter' = [limiter EXCEPT ![a] = fresh \cup {slot}]
      BY <1>4, <2>5 DEF Allow
    <3>2. /\ Remembered(admitted[a] \cup {slot}, fresh \cup {slot}, clock)
          /\ WithinLimit(admitted[a] \cup {slot}, clock)
      <4>1. admitted[a] \in SUBSET Slot /\ Good(a)
        BY <1>0, <1>1, <2>1
      <4> HIDE DEF fresh, slot, a
      <4> QED
        BY <1>0, <2>1, <2>2, <2>5, <4>1, LimitAdmit
    <3> HIDE DEF fresh, slot, a
    <3> QED
      BY <1>0, <1>1, <2>1, <2>3, <3>1, <3>2
  <2> QED
    BY <2>4, <2>5
<1>5. CASE UNCHANGED <<clock, limiter, admitted>>
  BY <1>1, <1>5
<1>6. ASSUME NEW r \in Requests, Handler(r), ~Allow(r)
      PROVE  UNCHANGED <<clock, limiter, admitted>>
  BY <1>6 DEF Handler, HandleKeys, Label, Begin, InsertTenant, InsertKey, Commit,
     CreateFails, procVars, limitVars
<1>7. Migrate \/ Shutdown \/ Stop \/ Crash \/ UNCHANGED vars
      => UNCHANGED <<clock, limiter, admitted>>
  BY DEF Migrate, Shutdown, Stop, Crash, Gone, vars, procVars, limitVars
<1> QED
  BY <1>2, <1>3, <1>4, <1>5, <1>6, <1>7 DEF Next

-----------------------------------------------------------------------------
(* The theorems                                                            *)

LEMMA KeyInvInit == Init => KeyInv
<1> SUFFICES ASSUME Init PROVE KeyInv
  OBVIOUS
<1>1. TypeOK /\ MigrationInv
  BY TypeInit
<1>2. RequestInv
  BY DEF Init, RequestInv, RowsOf
<1>3. LimiterInv /\ RateLimited
  <2>1. \A a \in Addresses : admitted[a] = {} /\ limiter[a] = {}
    BY DEF Init
  <2>2. clock \in Nat
    BY <1>1 DEF TypeOK
  <2> QED
    BY <2>1, <2>2, LimitEmpty, LimitByAddress
<1> QED
  BY <1>1, <1>2, <1>3 DEF KeyInv

LEMMA KeyInvStep == KeyInv /\ [Next]_vars => KeyInv'
BY TypeStep, RequestStep, LimitStep DEF KeyInv

\* What the results below rest on: in every state of evidra-api, the limiter's
\* list holds all admissions that its window can still see, and the rows of each
\* request in the database belong to where its handler is, or ended.
THEOREM KeyInvariant == Spec => []KeyInv
BY KeyInvInit, KeyInvStep, PTL DEF Spec

\* The types of the key service's variables, and that an evidra-api with a
\* database listens only after db.Connect has applied every migration.
THEOREM KeysTypeCorrect == Spec => []TypeOK
<1>1. KeyInv => TypeOK
  BY DEF KeyInv
<1> QED
  BY <1>1, KeyInvariant, PTL

\* rateLimiter.allow admits no address more than rateLimit times in any window
\* of the length rateWindow, whatever becomes of the requests it admits.
THEOREM AdmissionsAreLimited == Spec => []RateLimited
<1>1. KeyInv => RateLimited
  BY DEF KeyInv
<1> QED
  BY <1>1, KeyInvariant, PTL

\* A key that handleKeys answered with 201 is in the database with its tenant,
\* through crashes, failed commits and restarts.
THEOREM IssuedKeysAreStored == Spec => []IssuedKeysWork
<1>1. KeyInv => IssuedKeysWork
  BY DEF KeyInv, RequestInv, IssuedKeysWork
<1> QED
  BY <1>1, KeyInvariant, PTL

\* CreateKey leaves no half of a key, and no key of a request that was refused.
THEOREM RowsComeInPairs == Spec => []RowsAreAccountedFor
<1>1. KeyInv => RowsAreAccountedFor
  BY DEF KeyInv, TypeOK, RequestInv, RowsAreAccountedFor
<1> QED
  BY <1>1, KeyInvariant, PTL
=============================================================================
