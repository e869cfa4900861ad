------------------------- MODULE EvidenceTamperInv -------------------------
(***************************************************************************)
(* The invariant that carries the proof about EvidenceTamper: an edit of a *)
(* whole store leaves a flaw in the chain of lines or a hole in the list   *)
(* of segments, and no append mends either.                                *)
(***************************************************************************)
EXTENDS EvidenceStoreInv, EvidenceTamper

\* The lines of the segment files are one hash chain from the first record on.
Linked(fs) == LinesParse(fs) /\ LinksOk(fs) /\ HashesOk(fs)

\* h is the hash that the lines end in.
EndsIn(fs, h) ==
    /\ Positions(fs) = {} => h = NoHash
    /\ \A q \in Positions(fs) : IsLast(fs, q) => h = LineAt(fs, q).hash

\* A segment before the current one is missing.
Gap(fs, m) ==
    \E k \in SegIdx : k < m.current /\ ~fs[k].exists /\ fs[m.current].exists

\* The file that appendRecordLine writes to is the last one with lines.
NothingBehind(fs, m) ==
    \A k \in SegIdx : k > m.current => fs[k].lines = <<>>

\* After an edit: what is wrong is in the lines already, or, between calls, in
\* how they end; the next record is linked to the manifest's last hash, which
\* then is not the last line's.
EditedInv ==
    /\ \A k \in SegIdx :
          /\ ~files[k].exists => files[k].lines = <<>>
          /\ files[k].open => files[k].lines # <<>>
    /\ manifest # NoManifest
    /\ NothingBehind(files, manifest)
    /\ \A p \in Procs :
          /\ pc[p] # "create"
          /\ pc[p] = "write" => man[p] = manifest
          /\ pc[p] \in Uncommitted =>
                /\ NothingBehind(files, man[p])
                /\ ~Linked(files)
                      \/ (Gap(files, manifest)
                             /\ man[p].current = manifest.current)
    /\ (\A p \in Procs : pc[p] \notin Uncommitted) =>
          ~(Linked(files) /\ EndsIn(files, manifest.lastHash))
             \/ Gap(files, manifest)

\* No line is longer than its file, so no edit makes a size negative.
SizeInv ==
    ~damaged =>
        \A q \in Positions(files) :
            LineAt(files, q).body.bytes <= files[q[1]].bytes

Edits == {"hashed", "rehashed", "unhashed", "delete", "duplicate", "swap",
          "segment"}

\* What appendSegmented and validateSegmentedChain make of a store whose segment
\* files are edited once: until then the store's own invariant holds; from then
\* on the lines do not form one chain, or do not end in the hash the next record
\* will be linked to, or a segment is missing, at every step of every call.
TamperInv ==
    /\ edit \in Edits \cup {"none"}
    /\ edit = "none" => FullInv /\ SizeInv
    /\ edit \notin {"none", "unhashed"} => TypeInv /\ LockInv /\ EditedInv
=============================================================================
