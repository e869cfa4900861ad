-------------------------- MODULE EvidenceStoreInv --------------------------
(***************************************************************************)
(* The invariants that carry the proofs about EvidenceStore: what the      *)
(* segment files, manifest.json and a caller's manifest in memory have to  *)
(* do with each other at every step of every call.                         *)
(***************************************************************************)
EXTENDS EvidenceStore

\* Steps at which the caller's manifest in memory has been read or built.
Loaded == {"create", "write", "rotate", "save"}

\* The locals that the steps of a call rely on.
LocalsInv ==
    \A p \in Procs :
        /\ pc[p] \in Loaded => man[p] \in Manifest
        /\ pc[p] = "validate" <=> pc[p] \notin {"idle", "wait", "release"}
                                     /\ op[p] = "validate"
        /\ pc[p] \in {"write", "rotate", "save"} => op[p] = "append"
        /\ pc[p] \notin {"idle"} /\ op[p] = "append" => body[p] \in Bodies
        /\ pc[p] \in {"rotate", "save"} => rec[p] \in Record
        /\ pc[p] = "release" /\ op[p] = "append" /\ res[p] = "ok"
              => rec[p] \in Record

TypeInv == TypeOK /\ LocalsInv

\* The flock is held by exactly the caller inside the critical section.
LockInv == \A p \in Procs : pc[p] \notin {"idle", "wait"} <=> lock = p

\* No record yet: at most the first segment has been created.
Blank(fs) ==
    \A k \in SegIdx : fs[k] = NoFile \/ (k = 1 /\ fs[k] = EmptyFile)

\* Manifest m points behind the segments it lists as sealed, to a file.
Points(fs, m) ==
    /\ fs[m.current].exists
    /\ \A k \in m.sealed : k < m.current /\ fs[k].exists

\* The disk between any two steps, damaged or not.
DiskShape ==
    /\ IsFiniteSet(Positions(files))
    /\ \A k \in SegIdx :
          /\ ~files[k].exists => files[k] = NoFile
          /\ files[k].open => files[k].lines # <<>>
    /\ manifest = NoManifest => Blank(files) /\ ~damaged
    /\ manifest # NoManifest => Points(files, manifest)

\* What the steps of p's call may rely on.
CallShape(p) ==
    /\ pc[p] = "create" =>
          manifest = NoManifest /\ man[p] = EmptyManifest /\ files[1] = EmptyFile
    /\ pc[p] = "write" => manifest # NoManifest /\ man[p] = manifest
    /\ pc[p] \in Uncommitted =>
          /\ manifest # NoManifest
          /\ Points(files, man[p])
          /\ manifest.sealed \subseteq man[p].sealed
          /\ rec[p] = NewRecord(body[p], manifest.lastHash)
          /\ man[p].lastHash = rec[p].hash
          /\ man[p].total = manifest.total + 1
    /\ pc[p] = "release" /\ op[p] = "append" /\ res[p] = "ok"
          => rec[p].hash # NoHash

ShapeInv == DiskShape /\ \A p \in Procs : CallShape(p)

\* The segments are 1..current, and every line of them is a whole record.
Whole(fs, m) ==
    \A k \in SegIdx :
        /\ fs[k].exists <=> k <= m.current
        /\ ~fs[k].exists => fs[k].lines = <<>>
        /\ ~fs[k].open
        /\ fs[k].lines \in Seq(Record)

\* As long as the records agree on a policy, the manifest agrees with them.
PolicyFollows(fs, m) ==
    (\A x, y \in PolicyRefs(fs) : x = y) /\ m.policyRef # NoPolicy
        => \A x \in PolicyRefs(fs) : x = m.policyRef

\* Segment files fs are what manifest m says they are.
Matches(fs, m) ==
    /\ Points(fs, m)
    /\ Whole(fs, m)
    /\ LinksOk(fs)
    /\ HashesOk(fs)
    /\ PolicyFollows(fs, m)
    /\ TotalsOk(fs, m)

\* Until a writer is cut off, the files match manifest.json, or the manifest
\* in memory of the caller that is about to save it.
ContentInv ==
    ~damaged =>
        /\ \A p \in Procs : pc[p] \in Uncommitted => Matches(files, man[p])
        /\ manifest # NoManifest /\ (\A p \in Procs : pc[p] \notin Uncommitted)
              => Matches(files, manifest)

\* Something validateSegmentedChain cannot miss, whatever is appended later.
Broken(fs, m) ==
    \/ \E q \in Positions(fs) : LineAt(fs, q) = Torn
    \/ Cardinality(Positions(fs)) > m.total

\* Once a writer was cut off, the files disagree with manifest.json, and with
\* the manifest in memory of the caller that is about to save it.
DamageInv ==
    damaged =>
        /\ \A p \in Procs : pc[p] \in Uncommitted => Broken(files, man[p])
        /\ (\A p \in Procs : pc[p] \notin Uncommitted) => Broken(files, manifest)

\* The inductive invariant: none of its parts is preserved without the others.
StoreInv == TypeInv /\ LockInv /\ ShapeInv /\ ContentInv

\* The lines that no write can change any more.
Closed(fs) ==
    {q \in Positions(fs) : ~(fs[q[1]].open /\ q[2] = Len(fs[q[1]].lines))}

\* The writes that were torn for good.
TornIn(fs) == {q \in Closed(fs) : LineAt(fs, q) = Torn}

\* The call of p has a record that it has acknowledged or may acknowledge.
HasRecord(p) ==
    \/ pc[p] \in Uncommitted
    \/ pc[p] = "release" /\ op[p] = "append" /\ res[p] = "ok"

Sent == acked \cup {rec[p] : p \in {q \in Procs : HasRecord(q)}}

\* The records that callers rely on, or will, and that no final line holds.
Lost == {r \in Sent : \A q \in Closed(files) : LineAt(files, q) # r}

\* Each of them was the one write that ran into an unterminated line.
AckInv ==
    /\ IsFiniteSet(Sent)
    /\ Cardinality(Lost) <= Cardinality(TornIn(files))

\* Manifest m counts the records of its chain, and each has written a line, or
\* closed the one it ran into.
Counts(fs, m) ==
    m.total = Len(m.lastHash) /\ m.total <= Cardinality(Closed(fs))

\* Every record of chain c has a line of its own.
HoldsChain(fs, c) ==
    \A i \in 1 .. Len(c) :
        \E q \in Closed(fs) :
            LineAt(fs, q) # Torn /\ LineAt(fs, q).hash = SubSeq(c, 1, i)

\* The files hold the chain that manifest.json, or a manifest about to be
\* saved, stands for; until a writer is cut off they hold all of it, and
\* nothing else.
HistoryInv ==
    /\ manifest # NoManifest => Counts(files, manifest)
    /\ \A p \in Procs : pc[p] \in Uncommitted => Counts(files, man[p])
    /\ ~damaged =>
          /\ HoldsChain(files, CommittedChain)
          /\ \A p \in Procs :
                pc[p] \in Uncommitted => HoldsChain(files, man[p].lastHash)
          /\ \A q \in Positions(files) :
                \/ L!IsPrefixOf(LineAt(files, q).hash, CommittedChain)
                \/ \E p \in Procs : /\ pc[p] \in Uncommitted
                                    /\ LineAt(files, q).hash = man[p].lastHash

\* ... and what is inductive together with it.
FullInv == StoreInv /\ DamageInv /\ AckInv /\ HistoryInv
=============================================================================
