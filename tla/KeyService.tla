------------------------------ MODULE KeyService -----------------------------
(***************************************************************************)
(* API keys (internal/api/keys_handler.go, internal/store, internal/auth,  *)
(* internal/db) in an evidra-api process that is started, drained, killed  *)
(* and started again on one database.  POST /v1/keys requests are handled  *)
(* concurrently: the rate limiter is locked for one check at a time, the   *)
(* two rows of a key are inserted in one transaction.                      *)
(*                                                                         *)
(* A request stands for the tenant id, the key id and the plaintext that   *)
(* its handler generates: ULIDs and 256 random bits do not repeat.         *)
(***************************************************************************)
EXTENDS Integers, FiniteSets

CONSTANTS
    Requests,    \* POST /v1/keys requests
    Addresses,   \* clientIP: X-Forwarded-For's first address, or the peer's
    Limit,       \* rateLimit
    Window,      \* rateWindow, in clock ticks
    Statements,  \* number of statements of the migrations
    MaxTime, MaxStarts  \* bounds

ASSUME KeyAssumption ==
    /\ IsFiniteSet(Requests)
    /\ Limit \in Nat \ {0} /\ Window \in Nat \ {0} /\ Statements \in Nat
    /\ MaxTime \in Nat /\ MaxStarts \in Nat

VARIABLES
    clock,
    proc,      \* the process: phase, database backed, next migration
    starts,
    schema,    \* migration statements that took effect
    limiter,   \* rateLimiter.store: per address the admissions it remembers
    admitted,  \* per address all admissions by this process (history)
    pc, addr, status,  \* per request: control, address, HTTP status sent
    tx,        \* per request: rows inserted in its open transaction
    tenants, keys      \* committed rows of tenants and api_keys

requestVars == <<pc, addr, status, tx>>
tableVars == <<tenants, keys>>
limitVars == <<limiter, admitted>>
procVars == <<clock, proc, starts, schema>>
vars == <<procVars, limitVars, requestVars, tableVars>>

\* An admission: the request that took the slot, and when.
Slot == [req : Requests, at : Nat]

Down == [phase |-> "down", store |-> FALSE, next |-> 0]

Idle == {"new", "done"}

Init ==
    /\ clock = 0 /\ proc = Down /\ starts = 0
    /\ schema = {}
    /\ limiter = [a \in Addresses |-> {}]
    /\ admitted = [a \in Addresses |-> {}]
    /\ pc = [r \in Requests |-> "new"]
    /\ addr \in [Requests -> Addresses]
    /\ status = [r \in Requests |-> 0]
    /\ tx = [r \in Requests |-> {}]
    /\ tenants = {} /\ keys = {}

-----------------------------------------------------------------------------
(* The process                                                             *)

\* run: a static key of at least 32 characters or a database, a signing key
\* or the development mode; the extraction of the bundle may fail.
MayStart(cfg) ==
    /\ cfg.database \/ cfg.apiKey = "long"
    /\ cfg.signingKey \/ cfg.devMode

Configs == [database : BOOLEAN, apiKey : {"none", "short", "long"},
            signingKey : BOOLEAN, devMode : BOOLEAN]

\* run up to the router, or up to db.Connect.  The limiter is a variable of
\* the process.
Start(cfg) ==
    /\ proc.phase = "down" /\ starts < MaxStarts
    /\ MayStart(cfg)
    /\ proc' = [phase |-> IF cfg.database THEN "migrating" ELSE "up",
                store |-> cfg.database, next |-> 1]
    /\ starts' = starts + 1
    /\ limiter' = [a \in Addresses |-> {}]
    /\ admitted' = [a \in Addresses |-> {}]
    /\ UNCHANGED <<clock, schema, requestVars, tableVars>>

\* Mutant of Migrate: a failed statement is passed over.
MigrateUnchecked ==
    /\ proc.phase = "migrating"
    /\ schema' \in {schema, schema \cup ({proc.next} \cap (1 .. Statements))}
    /\ proc' = IF proc.next > Statements THEN [proc EXCEPT !.phase = "up"]
               ELSE [proc EXCEPT !.next = @ + 1]
    /\ UNCHANGED <<clock, starts, limitVars, requestVars, tableVars>>

\* db.Connect: the ping, then one migration statement after the other; each
\* has no effect when it is repeated.  A failure ends the process.
Migrate ==
    /\ proc.phase = "migrating"
    /\ \/ /\ proc.next <= Statements
          /\ schema' = schema \cup {proc.next}
          /\ proc' = [proc EXCEPT !.next = @ + 1]
       \/ /\ proc.next > Statements
          /\ proc' = [proc EXCEPT !.phase = "up"]
          /\ UNCHANGED schema
       \/ proc' = Down /\ UNCHANGED schema
    /\ UNCHANGED <<clock, starts, limitVars, requestVars, tableVars>>

\* SIGINT or SIGTERM: the listener is closed, handlers go on.
Shutdown ==
    /\ proc.phase = "up"
    /\ proc' = [proc EXCEPT !.phase = "draining"]
    /\ UNCHANGED <<clock, starts, schema, limitVars, requestVars,
                   tableVars>>

\* The rows of the transactions of the requests R become visible.
Committed(R) ==
    /\ tenants' = tenants \cup {r \in R : "tenant" \in tx[r]}
    /\ keys' = keys \cup {r \in R : "key" \in tx[r]}

\* The process is gone: its handlers never answer, the database rolls their
\* transactions back, but for the commits that had already reached it.
Gone ==
    /\ proc' = Down
    /\ \E R \in SUBSET {r \in Requests : pc[r] = "commit"} : Committed(R)
    /\ pc' = [r \in Requests |-> IF pc[r] \in Idle THEN pc[r] ELSE "done"]
    /\ tx' = [r \in Requests |-> {}]
    /\ UNCHANGED <<clock, starts, schema, limitVars, addr, status>>

\* srv.Shutdown returns when every handler is done, or after 10 seconds.
Stop == proc.phase = "draining" /\ Gone

Crash == proc.phase \in {"migrating", "up"} /\ Gone

Serving == proc.phase \in {"up", "draining"}

-----------------------------------------------------------------------------
(* POST /v1/keys                                                           *)

Finish(r, s) ==
    /\ pc' = [pc EXCEPT ![r] = "done"]
    /\ status' = [status EXCEPT ![r] = s]
    /\ tx' = [tx EXCEPT ![r] = {}]

Goto(r, l) == pc' = [pc EXCEPT ![r] = l] /\ UNCHANGED <<status, tx>>

\* handleKeys up to the rate limiter; invited: no invite secret is set, or
\* the request's token matches it.
HandleKeys(r, invited) ==
    /\ proc.phase = "up" /\ pc[r] = "new"
    /\ IF ~proc.store THEN Finish(r, 501)
       ELSE IF ~invited THEN Finish(r, 403)
       ELSE Goto(r, "allow")
    /\ UNCHANGED <<procVars, limitVars, addr, tableVars>>

\* Mutant of Recent: the window includes its oldest instant's successor only.
RecentShort(slots) == {s \in slots : s.at > clock - Window + 1}

\* The timestamps after the cutoff.
Recent(slots) == {s \in slots : s.at > clock - Window}

\* rateLimiter.allow.  The slot is taken whatever becomes of the request.
Allow(r) ==
    LET a == addr[r]
        fresh == Recent(limiter[a])
        slot == [req |-> r, at |-> clock]
    IN  /\ Serving /\ pc[r] = "allow"
        /\ IF Cardinality(fresh) >= Limit
           THEN /\ limiter' = [limiter EXCEPT ![a] = fresh]
                /\ Finish(r, 429)
                /\ UNCHANGED admitted
           ELSE /\ limiter' = [limiter EXCEPT ![a] = fresh \cup {slot}]
                /\ admitted' = [admitted EXCEPT ![a] = @ \cup {slot}]
                /\ Goto(r, "label")
        /\ UNCHANGED <<procVars, addr, tableVars>>

\* The body is read: a label that is too long, or CreateKey.  A body that is
\* no JSON counts as no label.
Label(r, tooLong) ==
    /\ Serving /\ pc[r] = "label"
    /\ IF tooLong THEN Finish(r, 400) ELSE Goto(r, "begin")
    /\ UNCHANGED <<procVars, limitVars, addr, tableVars>>

\* CreateKey: pool.Begin, and a transaction with two inserts.
Begin(r) ==
    /\ Serving /\ pc[r] = "begin"
    /\ Goto(r, "tenant")
    /\ UNCHANGED <<procVars, limitVars, addr, tableVars>>

\* Mutant of InsertTenant: outside the transaction.
InsertTenantNow(r) ==
    /\ Serving /\ pc[r] = "tenant"
    /\ Goto(r, "key")
    /\ tenants' = tenants \cup {r}
    /\ UNCHANGED <<procVars, limitVars, addr, keys>>

InsertTenant(r) ==
    /\ Serving /\ pc[r] = "tenant"
    /\ pc' = [pc EXCEPT ![r] = "key"]
    /\ tx' = [tx EXCEPT ![r] = @ \cup {"tenant"}]
    /\ UNCHANGED <<procVars, limitVars, addr, status, tableVars>>

InsertKey(r) ==
    /\ Serving /\ pc[r] = "key"
    /\ pc' = [pc EXCEPT ![r] = "commit"]
    /\ tx' = [tx EXCEPT ![r] = @ \cup {"key"}]
    /\ UNCHANGED <<procVars, limitVars, addr, status, tableVars>>

\* Mutant of Commit: its error is not checked.
CommitUnchecked(r) ==
    /\ Serving /\ pc[r] = "commit"
    /\ Committed({r}) \/ UNCHANGED tableVars
    /\ Finish(r, 201)
    /\ UNCHANGED <<procVars, limitVars, addr>>

\* tx.Commit returns nil and the key is answered; or it returns an error,
\* which leaves open whether the database has committed.
Commit(r) ==
    /\ Serving /\ pc[r] = "commit"
    /\ \/ Committed({r}) /\ Finish(r, 201)
       \/ (Committed({r}) \/ UNCHANGED tableVars) /\ Finish(r, 500)
    /\ UNCHANGED <<procVars, limitVars, addr>>

\* Begin or an insert fails, also because the client has gone away and the
\* request's context is cancelled: the transaction is rolled back.
CreateFails(r) ==
    /\ Serving /\ pc[r] \in {"begin", "tenant", "key"}
    /\ Finish(r, 500)
    /\ UNCHANGED <<procVars, limitVars, addr, tableVars>>

-----------------------------------------------------------------------------
(* The environment                                                         *)

Tick ==
    /\ clock < MaxTime
    /\ clock' = clock + 1
    /\ UNCHANGED <<proc, starts, schema, limitVars, requestVars, tableVars>>

Handler(r) ==
    \/ Allow(r) \/ (\E b \in BOOLEAN : HandleKeys(r, b) \/ Label(r, b))
    \/ Begin(r) \/ InsertTenant(r) \/ InsertKey(r) \/ Commit(r) \/ CreateFails(r)

Next ==
    \/ (\E cfg \in Configs : Start(cfg)) \/ Migrate \/ Shutdown \/ Stop \/ Crash
    \/ \E r \in Requests : Handler(r)
    \/ Tick

Spec == Init /\ [][Next]_vars

-----------------------------------------------------------------------------
(* Properties                                                              *)

\* The types of the variables; a database-backed server that listens has
\* applied every migration statement.
TypeOK ==
    /\ clock \in Nat
    /\ proc \in [phase : {"down", "migrating", "up", "draining"},
                 store : BOOLEAN, next : Nat]
    /\ limiter \in [Addresses -> SUBSET Slot]
    /\ admitted \in [Addresses -> SUBSET Slot]
    /\ pc \in [Requests -> {"new", "allow", "label", "begin", "tenant", "key",
                            "commit", "done"}]
    /\ addr \in [Requests -> Addresses]
    /\ status \in [Requests -> {0, 201, 400, 403, 429, 500, 501}]
    /\ tx \in [Requests -> SUBSET {"tenant", "key"}]
    /\ tenants \subseteq Requests /\ keys \subseteq Requests
    /\ Serving /\ proc.store => 1 .. Statements \subseteq schema

\* The admissions of address a in the window that ends at t.
InWindow(a, t) == {s \in admitted[a] : t - Window < s.at /\ s.at <= t}

\* Between two restarts, no address is admitted more than Limit times within
\* any window, wherever the window starts: the limiter forgets only what it
\* may forget, and counts requests that fail later.
RateLimited ==
    \A a \in Addresses, t \in 0 .. clock : Cardinality(InWindow(a, t)) <= Limit

\* A key that its client was given is in the database together with its
\* tenant, through crashes, outages and restarts.
IssuedKeysWork ==
    \A r \in Requests : status[r] = 201 => r \in keys /\ r \in tenants

\* No tenant without a key and no key without a tenant; and no row of a
\* request that was told to try again or to go away (an answer 500, or none,
\* may leave a key that nobody knows).
RowsAreAccountedFor ==
    /\ tenants = keys
    /\ \A r \in keys : pc[r] = "done" /\ status[r] \in {0, 201, 500}
=============================================================================
