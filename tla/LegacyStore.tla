----------------------------- MODULE LegacyStore -----------------------------
(***************************************************************************)
(* The legacy evidence store of pkg/evidence: one JSONL file, which        *)
(* detectStoreMode chooses for a path that is a file or ends in .log or    *)
(* .jsonl.  There is no manifest: Append reads the whole file for the last *)
(* hash, and appends one line.  The lock is the segmented store's.         *)
(***************************************************************************)
EXTENDS EvidenceRecords, Functions

CONSTANTS
    Procs,       \* callers
    NoProc,
    MaxAppends,  \* bound on Append calls
    MaxFaults    \* bound on crashes and failed or partial writes

ASSUME LegacyAssumption ==
    /\ NoProc \notin Procs
    /\ MaxAppends \in Nat /\ MaxFaults \in Nat

VARIABLES
    lock,   \* holder of the flock in the file's directory, or NoProc
    file,
    pc, body, rec,  \* per caller: control, argument, record to write
    acked,  \* records whose Append returned nil
    cut,    \* a write of a line stopped half way (history)
    appends, faults

locals == <<pc, body, rec>>
vars == <<lock, file, locals, acked, cut, appends, faults>>

Init ==
    /\ lock = NoProc /\ file = NoFile
    /\ pc = [p \in Procs |-> "idle"]
    /\ body = [p \in Procs |-> NoBody]
    /\ rec = [p \in Procs |-> NoRecord]
    /\ acked = {} /\ cut = FALSE /\ appends = 0 /\ faults = 0

-----------------------------------------------------------------------------
(* Readers of the file                                                     *)

\* streamFileRecords reaches the end of the file: every line is JSON, and none
\* is too long for the scanner.
Parses(f) == \A i \in DOMAIN f.lines : f.lines[i] # Torn /\ ~TooLong(f.lines[i])

\* readLastRecord's hash; no file, or an empty one, has none.
LastHash(f) ==
    IF f.lines = <<>> THEN NoHash ELSE f.lines[Len(f.lines)].hash

PolicyRefs(f) == {f.lines[i].body.policyRef : i \in DOMAIN f.lines} \ {NoPolicy}

\* previous_hash and hash of every line.
LinksOk(f) ==
    \A i \in DOMAIN f.lines :
        /\ f.lines[i].prev = IF i = 1 THEN NoHash ELSE f.lines[i - 1].hash
        /\ f.lines[i].hash = ComputeHash(f.lines[i].body, f.lines[i].prev)

\* validateLegacyChain; a missing file is valid.
ChainValid(f) ==
    /\ Parses(f) /\ LinksOk(f)
    /\ \A x, y \in PolicyRefs(f) : x = y

\* metadataFromLegacyFile counts the lines of a file it can read; it refuses
\* mixed policies, too.
Metadata(f) ==
    [records |-> Len(f.lines), lastHash |-> LastHash(f),
     policyRefs |-> PolicyRefs(f)]

\* FindByEventID on a file that validateLegacyChain accepts.
Found(f, r) == \E i \in DOMAIN f.lines : f.lines[i] = r

-----------------------------------------------------------------------------
(* appendLegacy                                                            *)

Call(p, b) ==
    /\ pc[p] = "idle" /\ appends < MaxAppends
    /\ pc' = [pc EXCEPT ![p] = "lock"]
    /\ body' = [body EXCEPT ![p] = b]
    /\ appends' = appends + 1
    /\ UNCHANGED <<lock, file, rec, acked, cut, faults>>

\* Mutant of Acquire: a second caller is let in.
AcquireAnyway(p) ==
    /\ pc[p] = "lock"
    /\ lock' = p
    /\ pc' = [pc EXCEPT ![p] = "read"]
    /\ UNCHANGED <<file, body, rec, acked, cut, appends, faults>>

Acquire(p) ==
    /\ pc[p] = "lock" /\ lock = NoProc
    /\ lock' = p
    /\ pc' = [pc EXCEPT ![p] = "read"]
    /\ UNCHANGED <<file, body, rec, acked, cut, appends, faults>>

\* The call is over and the lock free.
Leave(p) ==
    /\ pc' = [pc EXCEPT ![p] = "idle"]
    /\ body' = [body EXCEPT ![p] = NoBody]
    /\ rec' = [rec EXCEPT ![p] = NoRecord]
    /\ lock' = IF lock = p THEN NoProc ELSE lock

\* store_busy
Busy(p) ==
    /\ pc[p] = "lock" /\ lock # NoProc
    /\ Leave(p)
    /\ UNCHANGED <<file, acked, cut, appends, faults>>

\* Mutant of ReadLast: a file that cannot be read counts as empty.
ReadLastLenient(p) ==
    /\ pc[p] = "read"
    /\ rec' = [rec EXCEPT ![p] =
                  NewRecord(body[p], IF Parses(file) THEN LastHash(file) ELSE NoHash)]
    /\ pc' = [pc EXCEPT ![p] = "write"]
    /\ UNCHANGED <<lock, file, body, acked, cut, appends, faults>>

\* readLastRecord and ComputeHash; a line that cannot be read is an error.
ReadLast(p) ==
    /\ pc[p] = "read"
    /\ \/ /\ Parses(file)
          /\ rec' = [rec EXCEPT ![p] = NewRecord(body[p], LastHash(file))]
          /\ pc' = [pc EXCEPT ![p] = "write"]
          /\ UNCHANGED <<lock, body>>
       \/ ~Parses(file) /\ Leave(p)
    /\ UNCHANGED <<file, acked, cut, appends, faults>>

\* Mutant of Write: the result of the write is not looked at.
WriteUnchecked(p) ==
    /\ pc[p] = "write"
    /\ file' \in {file, AppendLine(file, rec[p])}
    /\ pc' = [pc EXCEPT ![p] = "return"]
    /\ UNCHANGED <<lock, body, rec, acked, cut, appends, faults>>

\* appendRecordLine
Write(p) ==
    /\ pc[p] = "write"
    /\ file' = AppendLine(file, rec[p])
    /\ pc' = [pc EXCEPT ![p] = "return"]
    /\ UNCHANGED <<lock, body, rec, acked, cut, appends, faults>>

\* The lock is released and Append returns nil.
Return(p) ==
    /\ pc[p] = "return"
    /\ acked' = acked \cup {rec[p]}
    /\ Leave(p)
    /\ UNCHANGED <<file, cut, appends, faults>>

\* Append returns the error of a write (or of MkdirAll) that fails before its
\* first byte, or of a write that stops after some of them.
WriteFails(p) ==
    /\ pc[p] = "write" /\ faults < MaxFaults
    /\ \/ UNCHANGED <<file, cut>>
       \/ \E n \in 1 .. (rec[p].body.bytes - 1) :
             file' = PartialLine(file, rec[p], n) /\ cut' = TRUE
    /\ Leave(p)
    /\ faults' = faults + 1
    /\ UNCHANGED <<acked, appends>>

\* The process dies; the kernel releases its lock.
Crash(p) ==
    /\ pc[p] # "idle" /\ faults < MaxFaults
    /\ Leave(p)
    /\ faults' = faults + 1
    /\ UNCHANGED <<file, acked, cut, appends>>

Next ==
    \E p \in Procs :
        \/ \E b \in Bodies : Call(p, b)
        \/ Acquire(p) \/ Busy(p) \/ ReadLast(p) \/ Write(p) \/ Return(p)
        \/ WriteFails(p) \/ Crash(p)

Spec == Init /\ [][Next]_vars

-----------------------------------------------------------------------------
(* Properties                                                              *)

\* A chain that validates has lost nothing: every acknowledged record can be
\* found by its event id, in a line of its own, at the place its hash says.
ValidMeansComplete ==
    ChainValid(file) =>
        \A r \in acked :
            /\ Found(file, r)
            /\ Len(r.hash) <= Metadata(file).records
            /\ file.lines[Len(r.hash)] = r

\* Whoever dies, and whatever write fails as a whole, the chain stays valid:
\* without a manifest nothing can disagree with the file.  Only half a line, a
\* second policy, or a record longer than the readers take makes it invalid.
UncutIsValid ==
    ~cut => /\ Torn \notin Range(file.lines) /\ LinksOk(file)
            /\ ChainValid(file) <=>
                  /\ Cardinality(PolicyRefs(file)) <= 1
                  /\ \A l \in Range(file.lines) : ~TooLong(l)

\* A file with a line that cannot be read is never written again, so that
\* whatever was appended before stays as it is: an overlong record, which is
\* acknowledged, is the last one the file takes.
BrokenIsFrozen ==
    [][~Parses(file) => file' = file]_vars
=============================================================================
