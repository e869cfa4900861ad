---------------------------- MODULE EvidenceStore ----------------------------
(***************************************************************************)
(* The segmented evidence store of pkg/evidence, guarded by the flock of   *)
(* pkg/evlock.  Processes (evidra-mcp servers, CLI runs) call Init, Append *)
(* and ValidateChain on one store directory.  Each call runs under the     *)
(* store lock; inside it the code performs separate file operations, and   *)
(* a process may die, or one of the operations may fail, between any two.  *)
(***************************************************************************)
EXTENDS EvidenceRecords

CONSTANTS
    Procs,           \* callers, in one or in several OS processes
    NoProc, NoManifest,  \* "absent" values
    SegmentMaxBytes, \* manifest.SegmentMaxBytes
    MaxIndex,        \* 999999: the last index evidence-%06d.jsonl can name
    MaxAppends,      \* bound on Append calls
    MaxFaults        \* bound on crashes and failed file operations

ASSUME ConstantsAssumption ==
    /\ SegmentMaxBytes \in Nat /\ MaxIndex \in Nat \ {0}
    /\ MaxAppends \in Nat /\ MaxFaults \in Nat
    /\ NoProc \notin Procs

VARIABLES
    lock,      \* holder of the flock on .evidra.lock, or NoProc
    files,     \* the segment files, by index
    manifest,  \* manifest.json
    pc, op, body, man, rec, res,  \* per caller: control, call, argument,
                                  \* manifest in memory, record, answer
    acked,     \* records whose Append returned nil
    damaged,   \* a writer was cut off between its line and the manifest
    appends, faults

disk == <<files, manifest>>
ghost == <<acked, damaged>>
vars == <<lock, files, manifest, pc, op, body, man, rec, res,
          acked, damaged, appends, faults>>

Ops == {"init", "append", "validate"}

-----------------------------------------------------------------------------
(* Segment files: segment.go                                               *)

\* MaxIndex + 1 can be created by a rotation but no longer be listed.
SegIdx == 1 .. (MaxIndex + 1)

\* orderedSegmentNames returns no error: the indices are 1..n, and each is
\* named with six digits.
NamesOrdered(fs) ==
    \A k \in SegIdx : fs[k].exists =>
        k <= MaxIndex /\ \A j \in 1 .. k : fs[j].exists

\* names[len(names)-1]
IsLastName(fs, k) ==
    fs[k].exists /\ \A j \in SegIdx : fs[j].exists => j <= k

\* Where the lines are, as pairs <<segment index, line number>>, in the order
\* streamFileRecords visits them.
Positions(fs) ==
    UNION {{<<k, i>> : i \in 1 .. Len(fs[k].lines)} : k \in SegIdx}

LineAt(fs, q) == fs[q[1]].lines[q[2]]

Before(q, r) == q[1] < r[1] \/ (q[1] = r[1] /\ q[2] < r[2])

IsFirst(fs, q) == \A r \in Positions(fs) : ~Before(r, q)

IsLast(fs, q) == \A r \in Positions(fs) : ~Before(q, r)

Adjacent(fs, q, r) ==
    /\ Before(q, r)
    /\ \A s \in Positions(fs) : ~(Before(q, s) /\ Before(s, r))

-----------------------------------------------------------------------------
(* The manifest: manifest.go.  normalizeSealedSegments sorts and removes   *)
(* duplicates, so the sealed list is a set.                                *)

Manifest == [current : SegIdx, sealed : SUBSET SegIdx, total : Nat,
             lastHash : HashVal, policyRef : PolicyVal]

ASSUME ManifestAssumption == NoManifest \notin Manifest

\* Mutant of EmptyManifest: segment numbers start at 0.
ManifestFromZero == [current |-> 0, sealed |-> {}, total |-> 0,
                     lastHash |-> NoHash, policyRef |-> NoPolicy]

EmptyManifest == [current |-> 1, sealed |-> {}, total |-> 0,
                  lastHash |-> NoHash, policyRef |-> NoPolicy]

\* manifest.PolicyRef after a record: adopted when empty, cleared on a clash.
MergePolicyRef(m, r) ==
    IF r = NoPolicy \/ m = r THEN m
    ELSE IF m = NoPolicy THEN r ELSE NoPolicy

\* The manifest in memory after its record's line is written.
Counted(m, r) ==
    [m EXCEPT !.total = m.total + 1, !.lastHash = r.hash,
              !.policyRef = MergePolicyRef(m.policyRef, r.body.policyRef)]

\* Mutant of Rotated: the new segment is sealed, not the full one.
RotatedSealsNext(m, k) ==
    [m EXCEPT !.current = k, !.sealed = m.sealed \cup {k}]

\* ... and after the switch to segment k (removeSegment included).
Rotated(m, k) ==
    [m EXCEPT !.current = k, !.sealed = (m.sealed \cup {m.current}) \ {k}]

-----------------------------------------------------------------------------
(* validateSegmentedChain.  Acquire has created the store directory before *)
(* this runs, so a missing manifest is always the "manifest not found"     *)
(* error.                                                                  *)

\* validateManifestSealedInvariants
SealedOk(fs, m) ==
    m.current \notin m.sealed /\ \A k \in m.sealed : fs[k].exists

\* json.Unmarshal of streamFileRecords succeeds for every line ...
LinesParse(fs) == \A q \in Positions(fs) : LineAt(fs, q) # Torn

\* ... and its scanner gets to the end of every segment.
LinesFit(fs) == \A q \in Positions(fs) : ~TooLong(LineAt(fs, q))

LinksOk(fs) ==
    /\ \A q \in Positions(fs) :
           IsFirst(fs, q) => LineAt(fs, q).prev = NoHash
    /\ \A q, r \in Positions(fs) :
           Adjacent(fs, q, r) => LineAt(fs, r).prev = LineAt(fs, q).hash

\* Mutant of HashesOk: the stored hash is not recomputed.
HashesTrusted(fs) == TRUE

HashesOk(fs) ==
    \A q \in Positions(fs) :
        LET l == LineAt(fs, q) IN l.hash = ComputeHash(l.body, l.prev)

PolicyRefs(fs) ==
    {LineAt(fs, q).body.policyRef : q \in Positions(fs)} \ {NoPolicy}

PolicyOk(fs, m) ==
    /\ \A x, y \in PolicyRefs(fs) : x = y
    /\ m.policyRef # NoPolicy => \A x \in PolicyRefs(fs) : x = m.policyRef

\* Mutant of TotalsOk: records_total and last_hash are not compared.
TotalsIgnored(fs, m) == TRUE

TotalsOk(fs, m) ==
    /\ m.total = Cardinality(Positions(fs))
    /\ Positions(fs) = {} => m.lastHash = NoHash
    /\ \A q \in Positions(fs) :
           IsLast(fs, q) => m.lastHash = LineAt(fs, q).hash

\* The verdict on segment files fs and manifest m.
ChainValid(fs, m) ==
    /\ m # NoManifest
    /\ NamesOrdered(fs)
    /\ SealedOk(fs, m)
    /\ LinesParse(fs) /\ LinesFit(fs)
    /\ LinksOk(fs)
    /\ HashesOk(fs)
    /\ PolicyOk(fs, m)
    /\ TotalsOk(fs, m)
    /\ (\E k \in SegIdx : fs[k].exists) => IsLastName(fs, m.current)

-----------------------------------------------------------------------------
Init ==
    /\ lock = NoProc
    /\ files = [k \in SegIdx |-> NoFile]
    /\ manifest = NoManifest
    /\ pc = [p \in Procs |-> "idle"]
    /\ op = [p \in Procs |-> "init"]
    /\ body = [p \in Procs |-> NoBody]
    /\ man = [p \in Procs |-> NoManifest]
    /\ rec = [p \in Procs |-> NoRecord]
    /\ res = [p \in Procs |-> "none"]
    /\ acked = {}
    /\ damaged = FALSE
    /\ appends = 0
    /\ faults = 0

\* A caller enters Store.Init, Store.ValidateChain or Store.Append.
Call(p, o, b) ==
    /\ pc[p] = "idle"
    /\ o = "append" <=> b \in Bodies
    /\ o = "append" => appends < MaxAppends
    /\ appends' = IF o = "append" THEN appends + 1 ELSE appends
    /\ pc' = [pc EXCEPT ![p] = "wait"]
    /\ op' = [op EXCEPT ![p] = o]
    /\ body' = [body EXCEPT ![p] = b]
    /\ res' = [res EXCEPT ![p] = "none"]
    /\ UNCHANGED <<lock, disk, man, rec, ghost, faults>>

\* Mutant of Acquire: the result of flock is not looked at.
AcquireAnyway(p) ==
    /\ pc[p] = "wait"
    /\ lock' = p
    /\ pc' = [pc EXCEPT ![p] = IF op[p] = "validate" THEN "validate" ELSE "load"]
    /\ UNCHANGED <<disk, op, body, man, rec, res, ghost, appends, faults>>

\* evlock.Acquire: a non-blocking flock, polled, succeeds.
Acquire(p) ==
    /\ pc[p] = "wait"
    /\ lock = NoProc
    /\ lock' = p
    /\ pc' = [pc EXCEPT ![p] = IF op[p] = "validate" THEN "validate" ELSE "load"]
    /\ UNCHANGED <<disk, op, body, man, rec, res, ghost, appends, faults>>

\* Mutant of Busy: no deadline, Acquire polls for ever.
BusyNever(p) == FALSE /\ UNCHANGED vars

\* ... or a poll after the deadline still finds the lock held: ErrBusy.
Busy(p) ==
    /\ pc[p] = "wait"
    /\ lock # NoProc
    /\ pc' = [pc EXCEPT ![p] = "idle"]
    /\ body' = [body EXCEPT ![p] = NoBody]
    /\ res' = [res EXCEPT ![p] = "busy"]
    /\ UNCHANGED <<lock, disk, op, man, rec, ghost, appends, faults>>

\* The caller's critical section ends with answer a.
Leave(p, a) ==
    /\ pc' = [pc EXCEPT ![p] = "release"]
    /\ res' = [res EXCEPT ![p] = a]

\* loadOrInitManifest(create): the manifest is there, or the first segment
\* is created (os.WriteFile truncates one that exists).
Load(p) ==
    /\ pc[p] = "load"
    /\ \/ /\ manifest # NoManifest
          /\ man' = [man EXCEPT ![p] = manifest]
          /\ IF op[p] = "init" THEN Leave(p, "ok")
             ELSE pc' = [pc EXCEPT ![p] = "write"] /\ UNCHANGED res
          /\ UNCHANGED files
       \/ /\ manifest = NoManifest
          /\ files' = [files EXCEPT ![1] = EmptyFile]
          /\ man' = [man EXCEPT ![p] = EmptyManifest]
          /\ pc' = [pc EXCEPT ![p] = "create"]
          /\ UNCHANGED res
    /\ UNCHANGED <<lock, manifest, op, body, rec, ghost, appends, faults>>

\* ... and its writeManifestAtomic (temporary file, then rename).
Create(p) ==
    /\ pc[p] = "create"
    /\ manifest' = man[p]
    /\ IF op[p] = "init" THEN Leave(p, "ok")
       ELSE pc' = [pc EXCEPT ![p] = "write"] /\ UNCHANGED res
    /\ UNCHANGED <<lock, files, op, body, man, rec, ghost, appends, faults>>

\* Mutant of Write: the manifest is updated in memory, the line is not
\* written (an error of appendRecordLine is ignored).
WriteUnchecked(p) ==
    LET m == man[p]
        r == NewRecord(body[p], m.lastHash)
    IN  /\ pc[p] = "write"
        /\ rec' = [rec EXCEPT ![p] = r]
        /\ man' = [man EXCEPT ![p] = Counted(m, r)]
        /\ pc' = [pc EXCEPT ![p] = "save"]
        /\ UNCHANGED <<lock, disk, op, body, res, ghost, appends, faults>>

\* appendSegmented up to the size check: link, hash, write the line, update
\* the manifest in memory.
Write(p) ==
    LET m == man[p]
        r == NewRecord(body[p], m.lastHash)
        f == AppendLine(files[m.current], r)
    IN  /\ pc[p] = "write"
        /\ files' = [files EXCEPT ![m.current] = f]
        /\ rec' = [rec EXCEPT ![p] = r]
        /\ man' = [man EXCEPT ![p] = Counted(m, r)]
        /\ pc' = [pc EXCEPT ![p] =
                     IF f.bytes > SegmentMaxBytes THEN "rotate" ELSE "save"]
        /\ UNCHANGED <<lock, manifest, op, body, res, ghost, appends, faults>>

\* The size limit is passed: create the segment after the last one listed.
\* When the listing fails the call fails too, after its line was written.
Rotate(p) ==
    /\ pc[p] = "rotate"
    /\ \/ /\ ~NamesOrdered(files)
          /\ Leave(p, "error")
          /\ damaged' = TRUE
          /\ UNCHANGED <<files, man>>
       \/ /\ NamesOrdered(files)
          /\ \E k \in SegIdx :
                 /\ IsLastName(files, k)
                 /\ files' = [files EXCEPT ![k + 1] = EmptyFile]
                 /\ man' = [man EXCEPT ![p] = Rotated(man[p], k + 1)]
          /\ pc' = [pc EXCEPT ![p] = "save"]
          /\ UNCHANGED <<res, damaged>>
    /\ UNCHANGED <<lock, manifest, op, body, rec, acked, appends, faults>>

\* os.Stat of the full segment fails: the rotation is skipped, and tried again
\* after the next record.
SkipRotation(p) ==
    /\ faults < MaxFaults
    /\ faults' = faults + 1
    /\ pc[p] = "rotate"
    /\ pc' = [pc EXCEPT ![p] = "save"]
    /\ UNCHANGED <<lock, disk, op, body, man, rec, res, ghost, appends>>

\* Mutant of Save: an error of writeManifestAtomic is ignored.
SaveUnchecked(p) ==
    /\ pc[p] = "save"
    /\ manifest' \in {manifest, man[p]}
    /\ Leave(p, "ok")
    /\ UNCHANGED <<lock, files, op, body, man, rec, ghost, appends, faults>>

\* writeManifestAtomic: the record is committed.
Save(p) ==
    /\ pc[p] = "save"
    /\ manifest' = man[p]
    /\ Leave(p, "ok")
    /\ UNCHANGED <<lock, files, op, body, man, rec, ghost, appends, faults>>

\* validateChainAtPath, whole: nobody writes while it holds the lock.
Validate(p) ==
    /\ pc[p] = "validate"
    /\ Leave(p, IF ChainValid(files, manifest) THEN "ok" ELSE "invalid")
    /\ UNCHANGED <<lock, disk, op, body, man, rec, ghost, appends, faults>>

\* The locals of a call that is over.
Forget(p) ==
    /\ body' = [body EXCEPT ![p] = NoBody]
    /\ man' = [man EXCEPT ![p] = NoManifest]
    /\ rec' = [rec EXCEPT ![p] = NoRecord]

\* The deferred Release, and the return to the caller.
Return(p) ==
    /\ pc[p] = "release"
    /\ lock' = NoProc
    /\ pc' = [pc EXCEPT ![p] = "idle"]
    /\ acked' = IF op[p] = "append" /\ res[p] = "ok"
                THEN acked \cup {rec[p]} ELSE acked
    /\ Forget(p)
    /\ UNCHANGED <<disk, op, res, damaged, appends, faults>>

\* Steps at which a file operation of a writer is still to come.
Writing == {"load", "create", "write", "rotate", "save"}

\* The line is on disk and the manifest does not know of it.
Uncommitted == {"rotate", "save"}

\* The lock file cannot be opened or locked, for another reason than a holder.
LockError(p) ==
    /\ faults < MaxFaults
    /\ faults' = faults + 1
    /\ pc[p] = "wait"
    /\ pc' = [pc EXCEPT ![p] = "idle"]
    /\ body' = [body EXCEPT ![p] = NoBody]
    /\ res' = [res EXCEPT ![p] = "error"]
    /\ UNCHANGED <<lock, disk, op, man, rec, ghost, appends>>

\* A file operation fails without effect (permission, disk full).
Fail(p) ==
    /\ faults < MaxFaults
    /\ faults' = faults + 1
    /\ pc[p] \in Writing \cup {"validate"}
    /\ damaged' = (damaged \/ pc[p] \in Uncommitted)
    /\ Leave(p, "error")
    /\ UNCHANGED <<lock, disk, op, body, man, rec, acked, appends>>

\* The line's write fails, or the process dies in it, after n bytes.
PartialWrite(p) ==
    LET m == man[p]
        r == NewRecord(body[p], m.lastHash)
    IN  /\ faults < MaxFaults
        /\ faults' = faults + 1
        /\ pc[p] = "write"
        /\ \E n \in 1 .. (r.body.bytes - 1) :
              files' = [files EXCEPT ![m.current] =
                           PartialLine(files[m.current], r, n)]
        /\ damaged' = TRUE
        /\ Leave(p, "error")
        /\ UNCHANGED <<lock, manifest, op, body, man, rec, acked, appends>>

\* The process dies between two file operations; the kernel drops its flock.
Crash(p) ==
    /\ faults < MaxFaults
    /\ faults' = faults + 1
    /\ pc[p] \in Writing \cup {"validate", "release"}
    /\ damaged' = (damaged \/ pc[p] \in Uncommitted)
    /\ lock' = NoProc
    /\ pc' = [pc EXCEPT ![p] = "idle"]
    /\ res' = [res EXCEPT ![p] = "none"]
    /\ Forget(p)
    /\ UNCHANGED <<disk, op, acked, appends>>

\* The steps of a call that has begun and is not interrupted.
Step(p) ==
    \/ Acquire(p) \/ Busy(p)
    \/ Load(p) \/ Create(p) \/ Write(p) \/ Rotate(p) \/ Save(p)
    \/ Validate(p)
    \/ Return(p)

Fault(p) ==
    LockError(p) \/ SkipRotation(p) \/ Fail(p) \/ PartialWrite(p) \/ Crash(p)

Next ==
    \E p \in Procs :
        \/ \E o \in Ops, b \in Bodies \cup {NoBody} : Call(p, o, b)
        \/ Step(p)
        \/ Fault(p)

Spec == Init /\ [][Next]_vars

\* A process that runs takes its next step: Go code between two file
\* operations does not block, and Acquire polls until its deadline.
Fairness == \A p \in Procs : WF_vars(Step(p))

FairSpec == Spec /\ Fairness

-----------------------------------------------------------------------------
(* Properties                                                              *)

Steps == {"idle", "wait", "validate", "release"} \cup Writing

Answers == {"none", "ok", "error", "busy", "invalid"}

\* The types of the variables, the manifest's and the records' included.
TypeOK ==
    /\ lock \in Procs \cup {NoProc}
    /\ files \in [SegIdx -> File]
    /\ manifest \in Manifest \cup {NoManifest}
    /\ pc \in [Procs -> Steps]
    /\ op \in [Procs -> Ops]
    /\ body \in [Procs -> Bodies \cup {NoBody}]
    /\ man \in [Procs -> Manifest \cup {NoManifest}]
    /\ rec \in [Procs -> Record \cup {NoRecord}]
    /\ res \in [Procs -> Answers]
    /\ acked \subseteq Record
    /\ damaged \in BOOLEAN
    /\ appends \in 0 .. MaxAppends
    /\ faults \in 0 .. MaxFaults

\* All records so far carry one policy reference (or none).
OnePolicy == \A x, y \in PolicyRefs(files) : x = y

\* Between calls, a store whose manifest exists passes ValidateChain, however
\* the calls of several processes interleaved and wherever they crashed,
\* unless a writer was cut off between its line and the manifest, a record is
\* too long to be read again, the policy changed, or the segment names ran out.
UndamagedStoreValid ==
    lock = NoProc /\ manifest # NoManifest /\ ~damaged
        /\ LinesFit(files) /\ OnePolicy /\ NamesOrdered(files)
    => ChainValid(files, manifest)

\* A writer cut off between its line and the manifest leaves a store that
\* ValidateChain rejects from then on: later appends neither repair it nor
\* hide it.
DamageIsPermanent ==
    lock = NoProc /\ damaged => ~ChainValid(files, manifest)

\* Records whose Append returned nil and that no line of a segment file holds.
Unwritten ==
    {r \in acked : \A q \in Positions(files) : LineAt(files, q) # r}

\* A record whose Append returned nil stays in a segment file, whatever
\* crashes or fails before or afterwards, but for one: the first append after
\* an unterminated line is acknowledged and shares that line.
AckedOnDisk ==
    Cardinality(Unwritten)
        <= Cardinality({q \in Positions(files) : LineAt(files, q) = Torn})

\* Every decision that was acknowledged is a record of the log.
EveryAckOnDisk == Unwritten = {}

FilesGrow ==
    \A k \in SegIdx :
        /\ files[k].exists => files'[k].exists
        /\ \A i \in 1 .. Len(files[k].lines) :
               /\ i <= Len(files'[k].lines)
               /\ files'[k].lines[i] = files[k].lines[i]
                      \/ (files[k].open /\ i = Len(files[k].lines))

\* No step rewrites or removes a line of a segment file.  The one exception
\* is an unterminated last line, which the next write runs into.
AppendOnly == [][FilesGrow]_vars

SealedKept ==
    manifest # NoManifest =>
        \A k \in manifest.sealed :
            files'[k] = files[k] /\ k \in manifest'.sealed

\* A segment that manifest.json lists as sealed is never written again, and
\* stays listed.
SealedIsFinal == [][SealedKept]_vars

\* Every call returns: it gets the lock or evidence_store_busy, and with the
\* lock it reaches its end.
EveryCallReturns ==
    \A p \in Procs : pc[p] # "idle" ~> pc[p] = "idle"

\* The store as a ledger: manifest.json's last_hash is the committed chain.
CommittedChain ==
    IF manifest = NoManifest THEN NoHash ELSE manifest.lastHash

\* The chain up to the record of p, between its commit and its answer.
OwnChain(p) ==
    IF pc[p] = "release" /\ op[p] = "append" /\ res[p] = "ok"
    THEN rec[p].hash ELSE NoHash

L == INSTANCE Ledger WITH
        Writers <- Procs,
        Entries <- {Canonical(b) : b \in Bodies},
        chain <- CommittedChain,
        own <- [p \in Procs |-> OwnChain(p)],
        acks <- {r.hash : r \in acked}

\* The store implements the ledger: the rename of manifest.json is the one
\* step at which a record takes effect, and only committed records are
\* acknowledged, whatever crashes or fails.
LedgerSpec == L!Spec

\* So no acknowledged record is lost, moved or replaced: the history that an
\* acknowledged record's hash stands for is a prefix of the committed chain.
AckedIsCommitted == L!AcksArePrefixes
=============================================================================
