# Evidra: a TLA+ verification project

Evidra decides whether an infrastructure change that an AI agent, a CI job or a
person wants to make is allowed. A request (a `ToolInvocation`) is evaluated by an
OPA policy bundle, the decision is appended to a local, hash-linked evidence log,
and only then is it answered. The same evaluation is offered by a command line
tool (`cmd/evidra`), by an MCP server for agents (`cmd/evidra-mcp`) and by a hosted
HTTP API (`cmd/evidra-api`), which signs its decisions instead of keeping a log.

This directory models the parts of that program whose correctness depends on the
order in which things happen, or on two pieces of code agreeing with each other,
checks them with TLC on small instances, and proves nearly all of the safety properties
with TLAPS for all sizes.

## 1. The system

| Component | State it keeps | Operations | What makes it correct |
|---|---|---|---|
| Segmented evidence store, `pkg/evidence` | segment files `evidence-NNNNNN.jsonl`, `manifest.json` | `Init`, `Append`, `ValidateChain`, `FindByEventID`, `LastHash`, metadata | an acknowledged record is never lost, moved or rewritten; a store nobody damaged validates; damage and tampering are detected |
| Store lock, `pkg/evlock` | a flock on `.evidra.lock` | `Acquire` with a deadline, `Release` | one critical section at a time; every call returns |
| Legacy store, `pkg/evidence/legacy.go` | one JSONL file | append, validate | as above, without a manifest |
| Forwarder cursor, `pkg/evidence/forwarder.go` | `forwarder_state.json` | load, save, resolve | the cursor names a record of the chain |
| Invocations and scenarios, `pkg/invocation`, `pkg/scenario` | none | `ValidateStructure`, `LoadFile` for three file formats | the policy is shown the action that was asked about, on every path |
| Validation pipeline, `pkg/validate` | none | `EvaluateInvocation`, `EvaluateScenario` | nothing passes by default; a denial has a reason; no decision is answered without its record |
| MCP service, `pkg/mcpserver` | the deny cache, in memory | `Validate`, `GetEvent`; `CheckDenyLoop`, `RecordDeny`, `ClearIntent`, `Cleanup`; `ExtractSemanticIntent` | the gate keeps a denial until it expires or the intent is allowed; a block expires; one workload has one intent, and another identity or posture another one |
| API client and mode, `pkg/client`, `pkg/mode` | none | `Validate`, `Ping`, `Resolve` | an unreachable API fails closed, or falls back, as configured |
| Policy runtime and bundle, `pkg/runtime`, `pkg/policy`, `policy/bundles` | none | evaluate | a deny rule that fires denies |
| Bundle cache, `cmd/evidra-mcp` | `~/.evidra/bundles/ops-v0.1` | extract when the hash differs | a server evaluates a complete bundle of its own version |
| API server, `internal/api`, `internal/auth`, `internal/store` | PostgreSQL keys and tenants, a rate limiter in memory | start, migrate, drain; issue a key, authenticate, validate | no more than three keys an hour for an address; a key that was handed out works |
| Server evidence, `internal/evidence` | an Ed25519 key | build and sign a record | the signature covers the decision |
| CLI, `cmd/evidra` | none | `validate`, `evidence verify/export/violations/cursor`, `policy sim` | the exit code is one evaluator's decision over the whole scenario |

How they interact. `Validate` of the MCP service consults the deny cache, calls the API
(online) or the local pipeline (offline, or as a fallback), and updates the cache. `evidra
validate` sends one request per action of a scenario, and evaluates the whole scenario
locally when a request cannot be answered and the fallback policy says so. The pipeline
evaluates the policy, then calls `Init` and `Append` of the store. Several servers and CLI
runs share one store directory; the flock is all that orders them. The readers (`get_event`,
`verify`, `export`, `cursor`) call `ValidateChain` first, or read the files without the
lock.

What is hard. A process can die between any two file operations of an append, and
one of them can fail; nothing repairs the store afterwards. Several processes
append concurrently. A write can stop half way. The deny cache is read before an
evaluation and written after it, while other requests are in progress. Time-outs
turn into fallbacks, after answers that were already received; the API may be
redeployed, or lose its database, between two requests of one command. Two pieces of
code that nothing ties together convert a request for the policy, and two describe the
body of an answer. `PROJECT.json` lists these hazards, each at its line, with the
properties that are about it.

## 2. Modules

| Module | What it is |
|---|---|
| `EvidenceRecords` | records, hashes and files of lines, for both stores |
| `EvidenceStore` | the segmented store and its lock: state, one action per step of a call, the properties |
| `Ledger` | what the store promises, abstractly: one growing chain, acknowledgements that stand for entries of it |
| `EvidenceStoreInv` | the inductive invariant of the store, in named parts |
| `EvidenceTamper` | the store with somebody else editing the segment files once |
| `EvidenceTamperInv` | what is left of the store's invariant after such an edit, and the flaw that stays |
| `StoreReaders` | the store with a command that verifies, scans, exports or moves the forwarder's cursor, or an agent's `get_event` |
| `LegacyStore` | the store that is one JSONL file |
| `Invocation` | the structure check of a request and the two conversions to the policy's action; operators only |
| `Intent` | `ExtractSemanticIntent`, the key of the deny cache; operators only |
| `Evaluation` | the loading of an input, the loop over its actions and the decoding of the policy's answers |
| `ApiClient` | the client's classification of answers, the decoding of their body, `mode.Resolve`; operators only, shared by the next two |
| `ValidateService` | the MCP server's `Validate` with the deny cache, the API call and the local pipeline |
| `OnlineValidate` | `evidra validate` composed with the API server it asks |
| `KeyService` | the API server's life and its `POST /v1/keys`: limiter, transaction, migrations |
| `BundleCache` | the policy bundle that `evidra-mcp` extracts when it starts |
| `EvidenceStoreMC`, `EvidenceTamperMC`, `StoreReadersMC`, `LegacyStoreMC`, `EvaluationMC`, `ValidateServiceMC`, `OnlineValidateMC`, `KeyServiceMC`, `BundleCacheMC` | instances for TLC: the constants' values and the symmetry |
| `EvidenceStoreProofs` | lemmas about the operators on segment files and manifests; `FullInv` is inductive; type correctness; `UndamagedIsValid`; the store implements the ledger; append-only; sealed segments are final; damage stays visible; acknowledged records stay on disk |
| `EvidenceAuditProofs` | for those who look at the store: everything about `StoreReaders`; an edit of the segment files is detected |
| `LegacyStoreProofs` | the legacy store |
| `EvaluationProofs` | the evaluation fails closed; denials are explained; both paths see the same action; a Kubernetes workload has one key in the deny cache |
| `ValidateServiceProofs` | the deny cache and the evidence of local decisions |
| `OnlineValidateProofs` | `evidra validate` and the API |
| `KeyServiceProofs` | the rate limiter and the keys' rows |
| `BundleCacheProofs` | the extracted bundle, for servers that run one at a time |

### EvidenceStore

A call of `Init`, `Append` or `ValidateChain` by caller `p` goes through these steps
of `pc[p]`; each of them ends at a file operation of the code, so that a crash or an
interleaving can fall between any two.

| Action | Code |
|---|---|
| `Call` | entry of `Store.Init`, `Store.Append`, `Store.ValidateChain` |
| `Acquire`, `Busy`, `LockError` | `evlock.Acquire` inside `withStoreLock`: locked, deadline passed, another error |
| `Load`, `Create` | `loadOrInitManifest`: read the manifest, or create the first segment, then the manifest |
| `Write` | `appendSegmented` up to the size check: link to `last_hash`, hash, append the line, count the record in the manifest in memory |
| `Rotate`, `SkipRotation` | the new segment, when the size limit is passed; a failed `os.Stat` puts it off |
| `Save` | `writeManifestAtomic`, the rename included |
| `Validate` | `validateSegmentedChain`, by its verdict `ChainValid` |
| `Return` | the deferred `Release`, the answer |
| `Fail`, `PartialWrite`, `Crash` | a file operation fails without effect; the line's write stops after n bytes; the process dies and the kernel drops its flock |

State. `files` maps segment indices to files with their lines, size and whether the
last line is terminated; `manifest` is `manifest.json`; `man`, `rec` and `body` are
the locals of a call. `acked` and `damaged` are history variables: the records whose
`Append` returned nil, and whether a writer was ever cut off between its line and
the manifest.

Abstractions. A SHA-256 value is its pre-image, the sequence of canonical payloads
from the chain head on, so that hashes are equal exactly if the histories are
(collision freedom is assumed). A record's body is an event, a policy reference, a
size, and one component that stands for the five fields `ComputeHash` leaves out.
A line is a record, or `Torn` when it is not JSON. A record longer than `MaxLine` (64 KB, the
default of `bufio.Scanner`) is written like any other, and no reader of a file gets past it
(`LinesFit`). Names of segments are their
indices; `MaxIndex` stands for 999999, the last name of six digits, and one more can
be created but not listed. `sealed` is a set, because `normalizeSealedSegments`
sorts and removes duplicates. Writing the temporary file and renaming it is one
step: before the rename the store is as it was, and the temporary file is never
read. File operations take effect in program order, as the death of a process
leaves them; the effects of a power failure on unsynced data are not modelled.

### StoreReaders

One reader runs `evidence verify`, `violations`, `export` or `cursor ack` over
`EvidenceStore`, whose writers go on between its steps and keep all their faults. Every
command calls `ValidateChainAtPath` first (`CheckChain`) and then reads again, in critical
sections of its own: `ReadMeta`, `ScanRecords`, `LoadStoreManifest`, `ListSegments`,
`ResolveCursorRecord`, `SaveForwarderState`. A critical section of the reader is one step,
as nobody writes in it; `ReaderBusy` is its `Acquire` timing out. `CopyManifest` and
`CopySegment` are `addFileToTar`, which takes no lock: they may see a record that is written
and not yet counted, a fragment, or a segment that is new. The manifest is replaced by a
rename and is read whole; a segment that grows between its `Stat` and its copy makes the tar
writer fail. With `--since`, `violations` counts only records from the cutoff on
(`violations_since`); time stamps are set before the lock is taken, so the records it passes
over may be any. `seen`, the chain the command validated, is a history variable. `get_event`
validates and searches in one critical section (`FindByEventID`); `known`, a history
variable, tells whether the event was acknowledged before the call. The reader shares
nothing with a second one, except that two `cursor ack` would overwrite each other's cursor,
which the code allows.

### LegacyStore

The mode `detectStoreMode` chooses for a path that is a file. The lock and the lines are
those of the segmented store; there is no manifest. `ReadLast` is `readLastRecord`, which
reads the whole file and fails on a line that is not JSON or longer than a
`bufio.Scanner` takes; `Write` is `appendRecordLine`,
`WriteFails` a write without effect or cut off after n bytes. Validation, metadata and
look-up are operators on the file. `cut` is a history variable.

### BundleCache

`extractEmbeddedBundleCached`, for several servers on one directory. A file of the bundle
is absent, partial, or of some version; `sha` is `BUNDLE.SHA256`. `os.RemoveAll` goes
unlink by unlink in any order (`Remove`), may fail and is then ignored (`RemoveFails`); the
files are written one at a time (`Extract`), the hash last (`Mark`). A server can stop or
die at any point. A running server reads the directory at each evaluation, so what it
serves is what the directory holds. `GoBack` tells whether the user may start an older
binary after a newer one. `leftover` (a removal failed) is a history variable.

### Invocation, Intent, Evaluation

One evaluation of one input. `Load` is `LoadFile` (a scenario, a Terraform plan or a
Kubernetes manifest, by what the file looks like) or `EvaluateInvocation`'s structure
check and conversion. Then each action has its turn: `RejectKind` when its kind does not
split, `AskPolicy(o)` with the engine's answer `o`, `PolicyFails`. The engine is external
and may return anything: an `allow` that is no Boolean, an empty reason, lists with
empty entries. `said`, its answers, is a history variable. After the last action,
`Finish`.

`Invocation` has both conversions of a request into the action the policy sees: the one
in the client's process (`InvocationToScenario`) and the one behind the API
(`ActionToInvocation` in the client, `ApiAccepts` and `ApiActions` in the server). `Intent`
is the key the deny cache uses. A name is the sequence of its parts between dots, each with the
blanks around it, so that joining, trimming and splitting a kind is modelled; a tag is a word,
with or without blanks around it; a JSON value is a record with its type; a text is
a word and its spelling. Lists that the code sorts and frees of duplicates are sets.

### ValidateService

One handler per concurrent request. `Receive` is the gate, `CallApi` the API client's
outcome, classified as `ApiClient` says, `EvaluatePolicy`, `InitStore` and `AppendEvidence`
the local pipeline, `RecordOutcome` the update of the cache, each atomic because the cache's
mutex is held for just that. A request is the actor's type, its intent key, whether it is
well formed, and what the policy says of it. Requests that differ only in what the key
leaves out (tags, target, environment) have the same key. Ages saturate above the time to
live, so the state space is finite without a bound on time. `last` (the outcome recorded
last) and `denied` (the last denial of an agent or CI that no allow came after) are history
variables. `ServerCodes` are the error codes that have a constant in `server.go`,
`ClientCodes` the three without one that `doEvaluate` takes over from the API client's
errors. The cache is assumed to be switched on (it is off by default).

### OnlineValidate

One run of the command, and the server. `Refuse` and `Begin` are flags, mode and file;
`Send`, `Receive` and `Timeout` are `Client.Validate` for one action after the other;
`Merge` is a turn of `evaluateOnline`'s loop; `Fail` decides between an error, exit code 3
and the fallback, which starts from nothing. `Open`, `LoadPolicy`, `PolicyRef` and
`AppendEvidence` are `EvaluateScenario`, in the order in which it reads the policy files,
which somebody may replace meanwhile (`EditPolicy`). On the other side, `Serve` is the
authentication and `handleValidate` up to the signed record, `ServeFails` what ends in 500;
`Crash`, `Deploy` and `Outage` happen to the server at any moment. A policy version stands
for rules and for the reference that names them.

`Shapes` are the bodies an answer may have. `"flat"` is the body `pkg/client` was written
for, `"nested"` the one this repository's server sends; `Decode` reads both as the client
does. The passing run has both, so that it holds with either kind of server.
`denials`, `signed` and `cli.edited` are history variables.

### KeyService

An `evidra-api` process: `Start` with any configuration `run` accepts, `Migrate` one
statement at a time, `Shutdown`, `Stop` (drained, or out of time), `Crash`, and the next
start on the same database. Requests for keys run concurrently through `HandleKeys`, `Allow`
(the limiter, under its mutex), `Label`, `Begin`, `InsertTenant`, `InsertKey`, `Commit` and
`CreateFails`. A commit that returns an error leaves open whether the database has
committed; so does a process that dies, or is stopped, while commits are on their way: any
of them may have taken effect. PostgreSQL is external: a transaction's rows appear together,
or not. `admitted` is a history variable: all that the limiter admitted, while its own list
forgets.

## 3. What the runs check

| Run | Instance | Properties |
|---|---|---|
| `store_crash` | 2 callers, 4 appends of a short and an overlong record, limit of 3 bytes, 2 segment names, 2 faults; 692,621 states under symmetry | see below |
| `store_live` | 2 callers, 2 appends, 1 fault, weak fairness of each caller's steps | `EveryCallReturns` |
| `legacy` | 2 callers, 4 appends of two policies, one of them overlong, 2 faults; 21,212 states | `ValidMeansComplete`, `UncutIsValid`, `BrokenIsFrozen` |
| `tamper` | 1 caller, 4 appends, 1 edit of a whole store between any two calls, 1 fault before or after it; 440,740 states | `TamperDetected`, `TamperInv` |
| `readers` | 1 writer, 3 appends of two sizes (one overlong) and two policies, 1 fault; a reader that verifies, scans (with and without `--since`), exports, looks up, and moves the cursor to any line; 1,664,986 states | `PackHoldsVerified`, `NeverShort`, `CursorOnChain`, `GetEventFindsAcked` |
| `bundle_serial` | 1 server at a time, 3 successive versions, 4 files, any number of failures and crashes | `TypeOK`, `ServedIsComplete` |
| `validate_online` | 2 handlers, 4 requests on one key, online, fallback; 219,886 states | `TypeOK`, `GateFollowsDecisions`, `EvidenceMatchesAnswer`, `BlockExpires` |
| `cli_validate` | scenarios of 1 to 3 actions, 2 policy versions, 2 deployments or edits, every mode, both bodies; 433,600 states | `TypeOK`, `DecisionIsWhole`, `RefNamesPolicy`, `DenialOverruledByOtherPolicy`, `CommandEnds` |
| `api_keys` | 3 requests of 1 or 2 addresses, 2 keys per window of 2 ticks, 4 instants, 2 starts; 430,092 states under symmetry | `TypeOK`, `RateLimited`, `IssuedKeysWork`, `RowsAreAccountedFor` |
| `evaluation` | invocations of all shapes, files of up to 2 actions, 300 workloads of one or two containers in 3 forms, 48 plans in 2, any answer of the engine; 187,217 states | `FailClosed`, `DenialExplained`, `SameActionOnBothPaths`, `KeyFollowsWorkload` |
| `store_torn` | 2 callers, 2 appends, 1 fault | a finding, see below |
| `cli_nested` | as `cli_validate`, with the nested body only | a finding, see below |

`store_crash` checks

* `UndamagedStoreValid`: between calls the store validates, unless a writer was cut
  off between its line and the manifest, the policy changed, the names ran out, or a
  record is longer than `MaxLine`;
* `DamageIsPermanent`: and if a writer was cut off, `ValidateChain` says so for ever;
  later appends neither repair nor hide it. So, but for the
  other three cases, `damaged` is exactly what `ValidateChain` reports;
* `LedgerSpec`: the store implements `Ledger`; the rename of the manifest is the
  step at which a record takes effect. `AckedIsCommitted` is its consequence;
* `AckedOnDisk`: an acknowledged record stays in a segment file; the one exception is
  the first append after an unterminated line, which the code acknowledges (see the
  finding). Each such line costs at most one record;
* `AppendOnly`, `SealedIsFinal`: what no step may ever do to the files;
* `FullInv`: the invariant of the proofs.

`TamperDetected` says that no append hides an edit of the segment files, although the next
record is linked to the manifest's `last_hash` and not to the line before it. The edit is
made to a store that no cut-off writer has damaged: in a damaged one an edit may also be
the repair (removing the line the manifest does not know of), after which `ValidateChain`
rightly accepts the store. `TamperInv` is the invariant of its proof.

`PackHoldsVerified` says that the unlocked copies of an export still hold all that the
command validated, although the store rotated meanwhile; `NeverShort`, that no number a
command reports promises more than what it reads later (each of them is taken at another
moment; a scan with `--since` counts only what it selects, and there `records_total` may
exceed `records_scanned`); `CursorOnChain`, that validating, resolving and saving in three
critical sections leaves a cursor on the record it names; `GetEventFindsAcked`, that no
acknowledged event is answered `not_found`, although records of a second policy lie beside
it. For the legacy store, `ValidMeansComplete` says that a file which validates has lost
nothing, `UncutIsValid` that only half a line, a second policy or an overlong record makes
it invalid, and `BrokenIsFrozen` that it is not written after that. `ServedIsComplete` says
that a start after any history of failed starts serves the bundle of its own version,
complete. `GateFollowsDecisions` says that the deny cache loses no denial: an intent that an
agent or CI was denied stays blocked for the time to live or until it is allowed, whatever
fails, is retried or asked by humans meanwhile, and whatever requests overlap; and that it
blocks nothing whose last evaluation allowed. It does not say that failures and humans'
denials block, which the code does and the documents deny (below). `EvidenceMatchesAnswer`
ties an answer to its evidence.

`DecisionIsWhole` says that a command exits 0 or 2 on the decisions of one evaluator about
every action, never on answers of the API completed by local ones; `RefNamesPolicy`, that
the reference it prints is not one of a policy that decided on only some of them;
`DenialOverruledByOtherPolicy`, that a denial which reached the command can only be lost to
a fallback whose local policy is another one. `RateLimited` is about every window, while
the limiter only looks back from a request; `IssuedKeysWork` and `RowsAreAccountedFor`
say what a request was told and what the database holds, after crashes at any point.
`FailClosed` and `DenialExplained` hold for whatever the engine returns.
`SameActionOnBothPaths` compares the two conversions of a request: for a file, every action
that the API accepts, up to the blanks around its kind; for a flat invocation, one whose tags
are not empty and have no blanks around them. `KeyFollowsWorkload` compares the deny cache's
key with the workload that was meant: one workload has one key in every form and spelling,
and no two workloads that differ in tool, operation, identity, images, number of containers,
privileges, users, number of uses of a capability, or use of the host share one (for Terraform:
in resource types, number of destroyed resources, CIDR blocks or IAM actions). That is less
than telling all workloads apart: see the disagreements below.

Bounds. Two callers are enough for every pair of steps to meet; a third only waits. Four
appends with a limit of 3 bytes rotate twice, reach the last segment name, and pass it. Two
faults let a second one hit the store that a first one left behind (a line after a fragment,
a rotation past an orphaned segment). The reader meets one writer: two writers are
serialised by the lock before either touches a file. The three bundles of `bundle_serial`
have a file that stays, one that is added and one that is dropped. Three actions let a
policy change and change back within one command (`RefNamesPolicy`). Two containers with
capabilities of their own show what the sorted and merged lists of an intent do not tell
apart. Three requests are one more than `api_keys`' limit, and 4 instants let a window slide
past its first admission. The requests of `validate_online` share one key, as requests with
different keys touch nothing in common. Symmetry is used only in runs without liveness, over
the callers or the handlers, which no property names.

Fairness. `store_live` assumes that a process which is running takes its next step:
between two file operations the code does not block, and `Acquire` polls until its
deadline. Nothing is assumed of crashes, of faults, or of new calls. `validate_online`
assumes that time passes and that a handler finishes; calls out of the process have
time-outs. `cli_validate` assumes that the command takes its next step, of which a
time-out is one, and nothing of the server or of the network.

### Findings

Two runs show where the code does something else than the repository says of it; each
checks that sentence as a property, and TLC finds the violation.

| Run | The repository says | The code does |
|---|---|---|
| `store_torn` | every decision is a JSONL record (`README.md:96`) | the append after a partial write is acknowledged, and unreadable |
| `cli_nested` | `apiValidateResponse` is the shape that `POST /v1/validate` returns (`pkg/client/client.go:49`) | the server nests the decision: the client reads every answer of it as a denial without an evidence id |

More disagreements came up while modelling and have no run of their own. About the store
and the cache:

* `docs/PROTOCOL_ERRORS.md:20` reads `evidence_chain_invalid` as tamper detection. A crash
  between a line and the manifest has the same effect, for good (`DamageIsPermanent`), and
  so have a second policy in one store (`segment.go:164`) and an overlong record
  (`io.go:18`; both are premises of `UndamagedStoreValid` and `UncutIsValid`).
* `docs/ARCHITECTURE.md:194` says that the hash covers all fields but itself;
  `hash.go:11` leaves out five. `TamperDetected` is about the others.
* `cmd/evidra-mcp/main.go:282` takes a matching hash for a complete bundle. A second server
  may be removing files of it, or a newer server may have died doing so before the older
  binary is started again. `bundle_serial` excludes both (one server in `Servers`,
  `GoBack = FALSE`); without either restriction, TLC shows it.

About the service:

* `docs/PROTOCOL_ERRORS.md:31` says that `stop_after_deny` means an intent already denied, and
  `CHANGELOG.md:19` that denied operations are blocked; `server.go:306` remembers errors like
  denials, so that the retry after `api_unreachable`, which `docs/PROTOCOL_ERRORS.md:22`
  recommends, is blocked. `docs/ENGINE_LOGIC_V2.md:233` says that the denied intents of agents
  and CI are tracked; the check is limited to them, the recording is not.
* `docs/PROTOCOL_ERRORS.md:15-31` lists the error codes; `unauthorized`, `forbidden` and
  `rate_limited`, which `server.go:343` answers with, are not among them and have no constant
  in `server.go:26-35`.
* `pkg/mcpserver/intent.go:13` says that requests with one intent get the same policy
  outcome. The risk tags, `hostPath` volumes and the case of the tool's name are read by
  the policy and not by the key, and `extractString` (`intent.go:153`) passes over a
  `cidr_blocks` that is a list, which is how `deny_sg_open_world.rego:12` reads it. An image
  or a capability may move from one container to another, and an init container may become
  a container, under the same key: images and capabilities are collected over all containers,
  and the containers and init containers are one list (`intent.go:104-110`).
* The local path and the API differ on requests outside `SameActionOnBothPaths`' premise.
  Locally `params.action` is not read, although the message of `policy.go:186` tells MCP
  callers to use it; at the API a `params.action` that is null means that no action is
  evaluated. A blank before or after the kind of a file's action is there for the local
  policy (`validate.go:387`) and gone at the API, as `splitKind` trims (`main.go:277`). Of
  an invocation, the local path trims the tags and drops the empty ones (`validate.go:262`;
  a tag of blanks is left as an empty one), the API keeps them as they are. A blank tool, a
  target that is no object and unknown keys are accepted on one path only. A scenario
  without `source` or `actor.type` is evaluated locally and refused online.
* A failed key lookup, a database outage included, is answered 401
  (`internal/auth/middleware.go:87`), on which a client with a fallback does not fall back.
* `sys.invalid_kind` is reported with the action and not in the total,
  `sys.unlabeled_deny` in the total and not with the action.

## 4. What is proved

All theorems hold for every value of the constants that satisfies the named `ASSUME`s: for
any number of callers, handlers, requests, bodies, actions, versions, appends and faults.
The assumptions say that sizes and limits are natural numbers, that the "absent" values are
none of the present ones, and what Go's types guarantee of an input; TLC evaluates each of
them in a run. Each invariant below was checked by TLC on the instance of the module's run
before it was proved; `FullInv` and `TamperInv` still are.

### The evidence store

| Theorem | Statement |
|---|---|
| `TypeCorrect` | `Spec => []TypeOK` |
| `UndamagedIsValid` | `Spec => []UndamagedStoreValid` |
| `StoreImplementsLedger` | `Spec => LedgerSpec` |
| `LedgerKeepsAcks` | `L!Spec => []L!AcksArePrefixes` |
| `AckedStaysCommitted` | `Spec => []AckedIsCommitted` |
| `StoreIsAppendOnly` | `Spec => AppendOnly` |
| `SealedStaysFinal` | `Spec => SealedIsFinal` |
| `DamageStaysVisible` | `Spec => []DamageIsPermanent` |
| `StoreInvariantHolds` | `Spec => []FullInv` |
| `AckedStaysOnDisk` | `Spec => []AckedOnDisk` |

`UndamagedStoreValid` speaks of the moments at which nobody holds the lock, and is not
inductive: during an append the files are one record ahead of the manifest. `StoreInv` says
what is true at every step.

* `LockInv`: the caller inside the critical section is the one that holds the flock;
  so at most one caller is in any of the steps below.
* `ShapeInv`: what the disk looks like, damaged or not (the manifest points to an
  existing segment behind the sealed ones; without a manifest there is no record), and
  what a caller's locals have to do with it at each step (at `write` its manifest is
  the one on disk; at `rotate` and `save` it is that one plus its record).
* `ContentInv`: as long as no writer was cut off, the files match (`Matches`: linked,
  hashed, counted, contiguous) the manifest on disk, or, while a caller is between its
  line and its save, that caller's manifest in memory.

A step changes the last line of one file or adds a file; the first lemmas of
`EvidenceStoreProofs` say what that does to positions, adjacency, links and totals, and
`Matches` implies the verdict `ChainValid`. The refinement maps the ledger's chain to
`last_hash`; `Save` is `Commit`, `Return` is `Acknowledge`, a crash before it is `Lose`, and
everything else stutters. `AckedStaysCommitted` follows from `LedgerKeepsAcks` through the
refinement. Three more parts make up `FullInv`:

* `DamageInv`: after a cut-off there is an unreadable line, or there are more lines than the
  manifest counts, and each append adds as much to one side as to the other;
* `AckInv`: the records that are acknowledged, or may still be, and that no closed line
  holds (`Lost`) are at most as many as the closed lines that are torn. `AckedOnDisk` alone
  is not inductive, as an open last line may hold a record, which the next write destroys:
  so `AckInv` counts only the lines that no write can change any more (`Closed`), and
  counts a caller's record from its write on, not from its answer;
* `HistoryInv`: a manifest counts the records of its chain, and no more than the closed
  lines; as long as nothing is damaged, every record of the chain has a line, and every
  line is of the chain or of the one record about to be committed. This says what the
  readers may rely on.

### The readers

| Theorem | Statement |
|---|---|
| `ReadersInvariant` | `ReadersSpec => [](FullInv /\ ReaderInv)` |
| `PackHoldsWhatWasVerified` | `ReadersSpec => []PackHoldsVerified` |
| `ReportsAreNeverShort` | `ReadersSpec => []NeverShort` |
| `CursorStaysOnChain` | `ReadersSpec => []CursorOnChain` |
| `GetEventFindsWhatWasAcked` | `ReadersSpec => []GetEventFindsAcked` |

To the store a reader is a stuttering step, so `FullInv` holds here too. What a writer does
to the reader is summed up once, in `Onward`: the committed chain only grows, closed lines
stay, any other line stays or is torn, the set of acknowledged records grows, damage is
permanent. Every writer's step satisfies it (`StepsOnward`), and whatever satisfies it keeps
`ReaderInv` (`WritersKeepReader`). `ReaderInv` says how far a command has got: the validated
chain is a prefix of the committed one and has its lines (`SeenInv`); the numbers reported
are a prefix of the chain and at most the closed lines (`MetaInv`); the lines that are in
the pack, or in a segment that is still to be copied, include all closed lines from the
moment of the listing (`Covered`, in `PackInv`); a resolved position keeps its record unless
it is torn (`Anchored`). A chain that validates has no torn line, so by `AckInv` none of the
acknowledged records is lost, and `FindByEventID` finds them.

### Tampering

| Theorem | Statement |
|---|---|
| `TamperInvariant` | `TamperSpec => []TamperInv` |
| `TamperingIsDetected` | `TamperSpec => []TamperDetected` |

Before the edit the store is itself and `FullInv` holds; after it almost nothing of
`FullInv` does. `TamperInv` keeps the types, the lock, and `EditedInv`: nobody writes
behind the current segment, and the store has one of three flaws. The lines are not one
hash chain (`Linked`); they do not end in the hash the next record will be linked to
(`EndsIn`); or a segment is missing (`Gap`).

* What the edit does (`HashedShows`, `RehashedShows`, `DuplicateShows`, `SwapShows`,
  `DeleteShows`, `SegmentShows`). A changed field leaves a hash that is not its record's.
  With the hash recomputed, the next line is not linked to it, or, at the last line,
  `last_hash` is not its hash. A repeated or moved line is linked to the wrong one, as a
  hash is longer than the one it covers (`HashIsLonger`: the model's hash is the sequence
  of the payloads it stands for). A removed line leaves its successor without its
  predecessor, or the end with the wrong hash (`RemovedLineShows`). A removed segment
  leaves a gap; if it is the current one, the lines end too early, and in another hash,
  since the store has as many lines as its chain has records and so no hash twice
  (`HashesDistinct`).
* That no call mends it (`EditedStep`). A caller writes one line, linked to `last_hash`.
  If the lines did not end in that hash, the link is now broken for good; a broken chain
  stays broken when a line is added or torn (`WriteMendsNothing`). A gap stays before the
  current segment, as rotation only moves on.

`SizeInv` is there for the types only: an edit subtracts a line's size from its file's.
An edit of the five fields that the hash leaves out is not detected, and the theorem does
not claim it. Any number of callers, records, segments and faults is covered, and one edit.

### The legacy store

`LegacyInvariant`, and from it `ValidLegacyIsComplete` (`ValidMeansComplete`),
`UncutLegacyIsValid` (`UncutIsValid`) and `BrokenStaysFrozen` (`BrokenIsFrozen`). Only the
last line of the file can be torn, since a writer reads the whole file first and gives up
on a line that does not parse; the record at line `i` has a hash of `i` payloads. So the
hash of an acknowledged record tells its line, and the record is there unless a line is torn.
Between `ReadLast` and `Write` the lock keeps the file as it was read (`CallInv`).

### The evaluation

| Theorem | Statement |
|---|---|
| `EvaluationFailsClosed` | `Spec => []FailClosed` |
| `DenialsAreExplained` | `Spec => []DenialExplained` |
| `BothPathsSeeTheSame` | `Spec => []SameActionOnBothPaths` |
| `K8sKeyFollowsWorkload` | requests that `AsksFor` two Kubernetes workloads: one workload has one key; equal keys have equal tools and operations, and workloads that are not `K8sApart` |

`LoopInv` holds after every turn of the loop. `TurnInv`: there is one
answer and one result for each action that had its turn, and a scenario that was accepted
has an action. `VerdictInv`: as long as the scenario passes, every answer so far was true;
once it does not, there is a reason. An answer without a reason does not decode, and the
reasons a denial adds are what is left of the list, or the reason itself. For the two paths,
`SourceInv` says that the loop's actions are those of the input, and three lemmas follow an
action through the client, the JSON params and the API's handler; one more says that the tool
and the operation which `SplitKind` returns join to the trimmed kind. `EvaluationAssumption` has
what Go's types say of a file's actions: a string for the kind, a list of strings or nil for
the tags; and that a list of strings in an invocation's tags is nothing else. Nothing is
assumed of targets, payloads, or the other shapes of an invocation.

`K8sKeyFollowsWorkload` is the Kubernetes half of `KeyFollowsWorkload` for every workload, with
any number of containers: where `ExtractSemanticIntent` found the workload (`FlatForm`,
`NativeForm`, in `params.payload` or below `params.action`) leaves no trace in the key, and
the key tells apart what `K8sApart` names, which is stated about the workload's own containers
and not with the operators of the extraction. That capabilities are counted
(`CapabilitiesApart`) is left to TLC, as the merged list is a fold over the containers.

### The services

| Module | Theorems | Invariant |
|---|---|---|
| `ValidateServiceProofs` | `ServiceTypeCorrect`, `DenialsAreKept` (`GateFollowsDecisions`), `DecisionsHaveEvidence` (`EvidenceMatchesAnswer`) | `ServiceInv`: an entry of the deny cache is as old as the last evaluation, which did not allow; it may be gone only when it is too old to block; a denial that nothing allowed since is at least that old; an error never allows |
| `OnlineValidateProofs` | `OnlineTypeCorrect`, `DecisionsAreWhole`, `PolicyRefIsRight`, `DenialsStand` | `OnlineInv`: at most one request or one answer is on its way, for the action `cli.next`; the actions before it are decided, signed and in the aggregate; a denial is justified by its policy; what the local evaluation has read is what is on disk unless somebody edited it |
| `KeyServiceProofs` | `KeysTypeCorrect`, `AdmissionsAreLimited` (`RateLimited`), `IssuedKeysAreStored` (`IssuedKeysWork`), `RowsComeInPairs` (`RowsAreAccountedFor`) | `KeyInv`: the limiter forgets only what has left the window that ends now; a transaction holds the rows of its handler's step; the migrations before the next one have taken effect |
| `BundleCacheProofs` | `CacheTypeCorrect`, `SerialServesWholeBundle` (`ServedIsComplete`) | `CacheInv`: the hash file is never of a later version, and when it is of the version started last the directory is that bundle; after a miss it is not the server's own until all files are there |

`RateLimited` is about every window, and the limiter decides only about the one that ends
now. A window that ends between two instants holds nothing that the one ending at the
admission before did not hold, which is why the invariant keeps all admissions, also the
forgotten ones. `SerialServesWholeBundle` has the premise `Serial` (one server, and no way
back to an older binary), like the run; without either half it is false (see the findings).

### Only model-checked

* `EveryCallReturns`, `BlockExpires` and `CommandEnds`: liveness under fairness is not in
  the prover's reach.
* `KeyFollowsWorkload` as it stands: which workload a description stands for is part of the
  inputs that `EvaluationMC` builds. `K8sKeyFollowsWorkload` is the general statement for
  Kubernetes, capabilities left out; for Terraform, that rules and statements spelled in two
  ways give the same bags would need induction over their lists.

## 5. What is not modelled, and the plan

Not modelled:

* external: the OPA engine and the Rego rules (the models let the policy say anything),
  PostgreSQL beyond its transactions, the HTTP and MCP transports;
* Ed25519 and the text of signed payloads; that a decision is signed before it is answered
  is in `OnlineValidate`;
* the effects of a power failure on unsynced data: files keep the order of the calls;
* code without state or with no effect on a decision: guidance texts and JSON schemas,
  hints, the token registry, output truncation, `policy sim`, `cursor show`, the health,
  public key and UI routes, the time stamp of `TouchKey`, environment names and paths.

Left open:

1. The Terraform half of the intent key, for plans of any length: TLC checks it for the
   plans of `EvaluationMC`.
2. How much of `ServedIsComplete` is left for several servers of one version that start
   together; for different versions it is false (see the findings).
3. Two edits of one store, or an edit of the manifest: whoever rewrites the manifest and
   every later hash is not detected by a chain without a signature, and the code does not
   claim it.
