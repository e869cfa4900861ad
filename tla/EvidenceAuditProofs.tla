------------------------ MODULE EvidenceAuditProofs ------------------------
(***************************************************************************)
(* What can be relied on by those who look at the evidence store: what a   *)
(* command has read, copied or looked up stays true while callers go on    *)
(* writing, and ValidateChain does not accept a store whose segment files  *)
(* somebody has edited.                                                    *)
(***************************************************************************)
EXTENDS EvidenceStoreProofs, StoreReaders, EvidenceTamperInv

-----------------------------------------------------------------------------
(* Readers: what a command has read in its earlier critical sections stays *)
(* true, or stays a part of what is true, while the writers go on.         *)

\* What a command relies on from one of its critical sections to the next.
StageInv ==
    /\ rpc \in {"idle", "validate", "find", "meta", "scan", "load",
                "copy_manifest", "list", "copy", "resolve", "save", "done"}
    /\ rpc = "validate" => job \in {"verify", "export", "ack"} \cup Violations
    /\ rpc \in {"resolve", "save"} => job = "ack"
    /\ rpc \in {"validate", "resolve", "save"} /\ job = "ack" => at \in Asked
    /\ rpc = "meta" => job \in {"verify", "export"} \cup Violations
    /\ rpc = "scan" => job \in Violations
    /\ rpc \in {"load", "copy_manifest", "list", "copy"} => job = "export"
    /\ rpc = "find" => job = "get_event"
    /\ rpc = "done" =>
          job \in {"verify", "export", "ack", "get_event"} \cup Violations
    /\ rpc \in {"meta", "load", "copy_manifest"} => manifest # NoManifest
    /\ seen \in HashVal /\ hash \in HashVal
    /\ pack \in [manifest : Manifest \cup {NoManifest}, files : [SegIdx -> File]]
    /\ todo \subseteq SegIdx

\* The chain that was validated stays committed and on disk.
SeenInv == L!IsPrefixOf(seen, CommittedChain) /\ HoldsChain(files, seen)

Reported ==
    \/ rpc \in {"scan", "load", "copy_manifest", "list", "copy"}
    \/ rpc = "done" /\ job \in {"verify", "export"} \cup Violations

MetaInv ==
    /\ Reported =>
          /\ meta.lastHash \in HashVal
          /\ L!IsPrefixOf(seen, meta.lastHash)
          /\ L!IsPrefixOf(meta.lastHash, CommittedChain)
          /\ meta.records = Len(meta.lastHash)
          /\ meta.records <= Cardinality(Closed(files))
    /\ rpc = "done" /\ job = "violations" => meta.records <= scanned

\* The lines that are in the pack, or will be.
Covered ==
    {q \in Closed(files) :
        \/ q[1] \in todo
        \/ /\ q \in Positions(pack.files)
           /\ LineAt(pack.files, q) = LineAt(files, q)}

PackInv ==
    /\ rpc \in {"copy_manifest", "list", "copy"} \/ Exported =>
          /\ L!IsPrefixOf(meta.lastHash, hash)
          /\ L!IsPrefixOf(hash, CommittedChain)
    /\ rpc \in {"list", "copy"} \/ Exported =>
          /\ pack.manifest \in Manifest
          /\ L!IsPrefixOf(hash, pack.manifest.lastHash)
    /\ rpc = "list" => pack.manifest.total <= Cardinality(Closed(files))
    /\ rpc = "copy" \/ Exported =>
          /\ pack.manifest.total <= Cardinality(Covered)
          /\ \A i \in 1 .. Len(seen) :
                \E q \in Covered :
                    /\ LineAt(files, q) # Torn
                    /\ LineAt(files, q).hash = SubSeq(seen, 1, i)
    /\ Positions(pack.files) \subseteq Positions(files)
    /\ Exported => todo = {}

\* Position q is where the record with hash h was, and is unless torn.
Anchored(q, h) ==
    /\ q \in Positions(files)
    /\ LineAt(files, q) # Torn => LineAt(files, q).hash = h
    /\ ~damaged => /\ LineAt(files, q) # Torn
                   /\ L!IsPrefixOf(h, CommittedChain)

CursorInv ==
    /\ rpc = "save" => Anchored(at, hash)
    /\ cursor # NoCursor => Anchored(cursor.at, cursor.hash)

FindInv ==
    /\ rpc = "find" /\ known => \E r \in acked : r.body.event = event
    /\ GetEventFindsAcked

ReaderInv ==
    StageInv /\ SeenInv /\ MetaInv /\ PackInv /\ CursorInv /\ FindInv

\* What holds of every step of the writers, whatever fails in it.
Onward ==
    /\ \A h \in HashVal :
          L!IsPrefixOf(h, CommittedChain) => L!IsPrefixOf(h, CommittedChain')
    /\ \A q \in Closed(files) :
          q \in Closed(files') /\ LineAt(files', q) = LineAt(files, q)
    /\ Cardinality(Closed(files)) \in Nat
    /\ Cardinality(Closed(files')) \in Nat
    /\ Cardinality(Closed(files)) <= Cardinality(Closed(files'))
    /\ acked \subseteq acked'
    /\ manifest # NoManifest => manifest' # NoManifest
    /\ damaged => damaged'
    /\ \A q \in Positions(files) :
          /\ q \in Positions(files')
          /\ LineAt(files', q) \in {LineAt(files, q), Torn}

\* A line is only ever torn by the write that runs into it.
LEMMA LinesStay ==
    ASSUME StoreInv, NEW p \in Procs, ChangesFile(p)
    PROVE  \A q \in Positions(files) :
              /\ q \in Positions(files')
              /\ LineAt(files', q) \in {LineAt(files, q), Torn}
  <1>0. files \in [SegIdx -> File] /\ manifest \in Manifest \cup {NoManifest}
    BY DEF StoreInv, TypeInv, TypeOK
  <1> SUFFICES ASSUME NEW k \in SegIdx, NEW i \in 1 .. Len(files[k].lines)
               PROVE  /\ i \in 1 .. Len(files'[k].lines)
                      /\ files'[k].lines[i] \in {files[k].lines[i], Torn}
    BY DEF Positions, LineAt
  <1>1. files[k] \in File /\ files[k].lines \in Seq(Line) /\ Len(files[k].lines) \in Nat
    BY <1>0 DEF File
  <1>2. ASSUME NEW l \in Line, NEW f \in File, f.lines = LinesWith(files[k], l),
               files'[k] = f
        PROVE  /\ i \in 1 .. Len(files'[k].lines)
               /\ files'[k].lines[i] \in {files[k].lines[i], Torn}
    <2>1. CASE files[k].open
      BY <1>1, <1>2, <2>1 DEF LinesWith
    <2>2. CASE ~files[k].open
      BY <1>1, <1>2, <2>2 DEF LinesWith
    <2>3. QED
      BY <2>1, <2>2
  <1>3. ASSUME NEW j \in SegIdx, files[j].lines = <<>>,
               files' = [files EXCEPT ![j] = EmptyFile]
        PROVE  files'[k] = files[k]
    <2>1. j # k
      BY <1>1, <1>3
    <2>2. QED
      BY <1>0, <1>3, <2>1
  <1>4. ASSUME NEW l \in Line, NEW f \in File, manifest # NoManifest,
               f.lines = LinesWith(files[manifest.current], l),
               files' = [files EXCEPT ![manifest.current] = f]
        PROVE  \/ files'[k] = files[k]
               \/ files'[k] = f /\ f.lines = LinesWith(files[k], l)
    BY <1>0, <1>4 DEF Manifest
  <1>5. CASE UNCHANGED files
    BY <1>5
  <1>6. QED
    BY <1>2, <1>3, <1>4, <1>5 DEF ChangesFile

LEMMA ChainGrows ==
    ASSUME StoreInv, [Next]_vars, NEW h \in HashVal,
           L!IsPrefixOf(h, CommittedChain)
    PROVE  L!IsPrefixOf(h, CommittedChain')
  <1>1. CommittedChain \in HashVal
    BY DEF StoreInv, TypeInv, TypeOK, CommittedChain, Manifest, NoHash, HashVal
  <1>2. [L!Next]_(L!vars)
    BY LedgerStep
  <1>3. \/ CommittedChain' = CommittedChain
        \/ \E e \in Entries : CommittedChain' = Append(CommittedChain, e)
    BY <1>2 DEF L!Next, L!vars, L!Commit, L!Acknowledge, L!Lose, Entries
  <1>4. QED
    BY <1>1, <1>3, PrefixOfLonger DEF HashVal, Entries

LEMMA StepsOnward == FullInv /\ FullInv' /\ [Next]_vars => Onward
  <1> SUFFICES ASSUME FullInv, FullInv', [Next]_vars PROVE Onward
    OBVIOUS
  <1>0. StoreInv /\ StoreInv'
    BY DEF FullInv
  <1>1. \A h \in HashVal :
           L!IsPrefixOf(h, CommittedChain) => L!IsPrefixOf(h, CommittedChain')
    BY <1>0, ChainGrows
  <1>2. /\ \A q \in Closed(files) :
              q \in Closed(files') /\ LineAt(files', q) = LineAt(files, q)
        /\ \A q \in Positions(files) :
              /\ q \in Positions(files')
              /\ LineAt(files', q) \in {LineAt(files, q), Torn}
    <2>1. ASSUME UNCHANGED files
          PROVE  /\ \A q \in Closed(files) :
                       q \in Closed(files') /\ LineAt(files', q) = LineAt(files, q)
                 /\ \A q \in Positions(files) :
                       /\ q \in Positions(files')
                       /\ LineAt(files', q) \in {LineAt(files, q), Torn}
      BY <2>1
    <2>2. ASSUME NEW p \in Procs, Step(p) \/ Fault(p)
          PROVE  /\ \A q \in Closed(files) :
                       q \in Closed(files') /\ LineAt(files', q) = LineAt(files, q)
                 /\ \A q \in Positions(files) :
                       /\ q \in Positions(files')
                       /\ LineAt(files', q) \in {LineAt(files, q), Torn}
      BY <1>0, <2>2, StepFiles, ClosedStays, LinesStay
    <2>3. \/ UNCHANGED files
          \/ \E p \in Procs : Step(p) \/ Fault(p)
      BY DEF Next, Call, vars, disk
    <2>4. QED
      BY <2>1, <2>2, <2>3
  <1>3. /\ Cardinality(Closed(files)) \in Nat
        /\ Cardinality(Closed(files')) \in Nat
        /\ Cardinality(Closed(files)) <= Cardinality(Closed(files'))
    <2>1. IsFiniteSet(Positions(files'))
      BY <1>0 DEF StoreInv, ShapeInv, DiskShape
    <2>2. IsFiniteSet(Closed(files'))
      BY <2>1, FS_Subset DEF Closed
    <2>3. Closed(files) \subseteq Closed(files')
      BY <1>2
    <2>4. QED
      BY <2>2, <2>3, FS_Subset, FS_CardinalityType
  <1>4. acked \subseteq acked' /\ (damaged => damaged')
    <2>1. ASSUME NEW p \in Procs, Step(p)
          PROVE  acked \subseteq acked' /\ (damaged => damaged')
      BY <2>1 DEF Step, Acquire, Busy, Load, Create, Write, Rotate, Save,
         Validate, Return, ghost
    <2>2. ASSUME NEW p \in Procs, Fault(p)
          PROVE  acked \subseteq acked' /\ (damaged => damaged')
      <3>1. CASE LockError(p) \/ SkipRotation(p) \/ PartialWrite(p)
        BY <3>1 DEF LockError, SkipRotation, PartialWrite, ghost
      <3>2. CASE Fail(p) \/ Crash(p)
        <4>1. acked' = acked /\ damaged' = (damaged \/ pc[p] \in Uncommitted)
          BY <3>2 DEF Fail, Crash
        <4>2. QED
          BY <4>1, Zenon
      <3>3. QED
        BY <2>2, <3>1, <3>2 DEF Fault
    <2>3. CASE \/ UNCHANGED vars
               \/ \E p \in Procs, o \in Ops, b \in Bodies \cup {NoBody} : Call(p, o, b)
      BY <2>3 DEF Call, vars, ghost
    <2>4. QED
      BY <2>1, <2>2, <2>3 DEF Next
  <1>5. manifest # NoManifest => manifest' # NoManifest
    <2>1. ASSUME NEW p \in Procs, Create(p) \/ Save(p)
          PROVE  manifest' # NoManifest
      <3>1. manifest' = man[p] /\ man[p] \in Manifest
        BY <1>0, <2>1 DEF StoreInv, TypeInv, LocalsInv, Loaded, Create, Save
      <3>2. QED
        BY <3>1, ManifestAssumption
    <2>2. \/ manifest' = manifest
          \/ \E p \in Procs : Create(p) \/ Save(p)
      BY DEF Next, Step, Fault, Call, Acquire, Busy, Load, Write, Rotate,
         Validate, Return, LockError, SkipRotation, Fail, PartialWrite, Crash,
         vars, disk
    <2>3. QED
      BY <2>1, <2>2
  <1>6. QED
    BY <1>1, <1>2, <1>3, <1>4, <1>5 DEF Onward

AllRecords == \A q \in Positions(files) : LineAt(files, q) \in Record

\* UndamagedClosed, of the state after a step.
LEMMA UndamagedLater == StoreInv' /\ ~damaged' => AllRecords'
  <1>1. StoreInv /\ ~damaged => AllRecords
    BY UndamagedClosed DEF AllRecords
  <1>2. QED
    BY <1>1, PTL

\* The writers' steps leave a command's findings in place.
LEMMA WritersKeepReader ==
    ASSUME FullInv', ReaderInv, Onward, UNCHANGED rvars
    PROVE  ReaderInv'
  <1>0. StageInv /\ SeenInv /\ MetaInv /\ PackInv /\ CursorInv /\ FindInv
    BY DEF ReaderInv
  <1>1. UNCHANGED <<rpc, job, event, known, at, seen, meta, hash, scanned, pack,
                    todo, cursor>>
    BY DEF rvars, local, query
  <1>2. StageInv'
    BY <1>0, <1>1 DEF StageInv, Onward
  <1>3. SeenInv'
    <2>1. HoldsChain(files', seen)
      BY <1>0, HoldsKept DEF SeenInv, Onward
    <2>2. L!IsPrefixOf(seen, CommittedChain')
      BY <1>0 DEF SeenInv, StageInv, Onward
    <2>3. QED
      BY <1>1, <2>1, <2>2 DEF SeenInv
  <1>4. MetaInv'
    <2>1. ASSUME Reported
          PROVE  /\ meta.lastHash \in HashVal
                 /\ L!IsPrefixOf(seen, meta.lastHash)
                 /\ L!IsPrefixOf(meta.lastHash, CommittedChain')
                 /\ meta.records = Len(meta.lastHash)
                 /\ meta.records <= Cardinality(Closed(files'))
      <3>1. /\ meta.lastHash \in HashVal
            /\ L!IsPrefixOf(seen, meta.lastHash)
            /\ L!IsPrefixOf(meta.lastHash, CommittedChain)
            /\ meta.records = Len(meta.lastHash)
            /\ meta.records <= Cardinality(Closed(files))
        BY <1>0, <2>1 DEF MetaInv
      <3>2. meta.records \in Nat
        BY <3>1 DEF HashVal
      <3>3. meta.records <= Cardinality(Closed(files'))
        BY <3>1, <3>2 DEF Onward
      <3>4. L!IsPrefixOf(meta.lastHash, CommittedChain')
        BY <3>1 DEF Onward
      <3>5. QED
        BY <3>1, <3>3, <3>4
    <2>2. Reported' = Reported
      BY <1>1 DEF Reported
    <2>3. QED
      BY <1>0, <1>1, <2>1, <2>2 DEF MetaInv
  <1>5. PackInv'
    <2>1. Exported' = Exported
      BY <1>1 DEF Exported
    <2>2. Covered \subseteq Covered'
      BY <1>1 DEF Covered, Onward
    <2>3. \A q \in Covered : LineAt(files', q) = LineAt(files, q)
      BY DEF Covered, Onward
    <2>4. Positions(pack.files) \subseteq Positions(files')
      BY <1>0 DEF PackInv, Onward
    <2>5. ASSUME rpc \in {"copy_manifest", "list", "copy"} \/ Exported
          PROVE  /\ L!IsPrefixOf(meta.lastHash, hash)
                 /\ L!IsPrefixOf(hash, CommittedChain')
      BY <1>0, <2>5 DEF PackInv, StageInv, Onward
    <2>6. ASSUME rpc = "list"
          PROVE  pack.manifest.total <= Cardinality(Closed(files'))
      <3>1. /\ pack.manifest \in Manifest
            /\ pack.manifest.total <= Cardinality(Closed(files))
        BY <1>0, <2>6 DEF PackInv
      <3>2. pack.manifest.total \in Nat
        BY <3>1 DEF Manifest
      <3>3. QED
        BY <3>1, <3>2 DEF Onward
    <2>7. ASSUME rpc = "copy" \/ Exported
          PROVE  /\ pack.manifest.total <= Cardinality(Covered')
                 /\ \A i \in 1 .. Len(seen) :
                       \E q \in Covered' :
                           /\ LineAt(files', q) # Torn
                           /\ LineAt(files', q).hash = SubSeq(seen, 1, i)
      <3>1. /\ pack.manifest \in Manifest
            /\ pack.manifest.total <= Cardinality(Covered)
            /\ \A i \in 1 .. Len(seen) :
                  \E q \in Covered :
                      /\ LineAt(files, q) # Torn
                      /\ LineAt(files, q).hash = SubSeq(seen, 1, i)
        BY <1>0, <2>7 DEF PackInv
      <3>2. IsFiniteSet(Covered')
        <4>1. IsFiniteSet(Positions(files'))
          BY DEF FullInv, StoreInv, ShapeInv, DiskShape
        <4>2. Covered' \subseteq Positions(files')
          BY DEF Covered, Closed
        <4>3. QED
          BY <4>1, <4>2, FS_Subset
      <3>3. IsFiniteSet(Covered) /\ Cardinality(Covered) <= Cardinality(Covered')
        BY <2>2, <3>2, FS_Subset
      <3>4. /\ Cardinality(Covered) \in Nat /\ Cardinality(Covered') \in Nat
            /\ pack.manifest.total \in Nat
        BY <3>1, <3>2, <3>3, FS_CardinalityType DEF Manifest
      <3>5. pack.manifest.total <= Cardinality(Covered')
        BY <3>1, <3>3, <3>4
      <3>6. QED
        BY <2>2, <2>3, <3>1, <3>5
    <2>8. QED
      BY <1>0, <1>1, <2>1, <2>4, <2>5, <2>6, <2>7 DEF PackInv
  <1>6. CursorInv'
    <2>1. ASSUME NEW q, NEW h, Anchored(q, h)
          PROVE  Anchored(q, h)'
      <3>1. q \in Positions(files') /\ LineAt(files', q) \in {LineAt(files, q), Torn}
        BY <2>1 DEF Anchored, Onward
      <3>2. LineAt(files', q) # Torn => LineAt(files', q).hash = h
        BY <2>1, <3>1 DEF Anchored
      <3>3. ASSUME ~damaged'
            PROVE  LineAt(files', q) # Torn /\ L!IsPrefixOf(h, CommittedChain')
        <4>1. ~damaged
          BY <3>3 DEF Onward
        <4>2. LineAt(files, q) # Torn /\ L!IsPrefixOf(h, CommittedChain)
          BY <2>1, <4>1 DEF Anchored
        <4>3. StoreInv'
          BY DEF FullInv
        <4>4. LineAt(files', q) \in Record
          BY <3>1, <3>3, <4>3, UndamagedLater DEF AllRecords
        <4>5. LineAt(files', q) # Torn
          BY <4>4, TornAssumption
        <4>6. h \in HashVal
          BY <2>1, <3>1, <4>2, <4>4, <4>5 DEF Anchored, Record
        <4>7. QED
          BY <4>2, <4>5, <4>6 DEF Onward
      <3>4. QED
        BY <3>1, <3>2, <3>3 DEF Anchored
    <2>2. QED
      BY <1>0, <1>1, <2>1 DEF CursorInv, Anchored
  <1>7. FindInv'
    <2>1. rpc = "find" /\ known => \E r \in acked' : r.body.event = event
      BY <1>0 DEF FindInv, Onward
    <2>2. ASSUME rpc = "done", job = "get_event"
          PROVE  /\ known => hash # NoHash
                 /\ hash # NoHash =>
                       /\ hash[Len(hash)][1] = event
                       /\ L!IsPrefixOf(hash, CommittedChain')
      BY <1>0, <2>2 DEF FindInv, GetEventFindsAcked, Onward, StageInv
    <2>3. QED
      BY <1>1, <2>1, <2>2 DEF FindInv, GetEventFindsAcked
  <1>8. QED
    BY <1>2, <1>3, <1>4, <1>5, <1>6, <1>7 DEF ReaderInv

-----------------------------------------------------------------------------
(* The steps of a command.                                                 *)

LEMMA LeastOf ==
    ASSUME NEW T \in SUBSET Nat, T # {}
    PROVE  \E x \in T : \A y \in T : x <= y
  <1> DEFINE R == {ss \in Nat \X Nat : ss[1] < ss[2]}
  <1>1. IsWellFoundedOn(R, Nat)
    BY NatLessThanWellFounded, Zenon DEF OpToRel
  <1> HIDE DEF R
  <1>2. \E x \in T : \A y \in T : ~(<<y, x>> \in R)
    BY <1>1, WFMin
  <1>3. \A x, y \in Nat : y < x => <<y, x>> \in R
    BY DEF R
  <1>4. PICK x \in T : \A y \in T : ~(<<y, x>> \in R)
    BY <1>2
  <1>5. \A y \in T : x \in Nat /\ y \in Nat /\ ~(y < x)
    BY <1>3, <1>4
  <1>6. \A y \in T : x <= y
    BY <1>5
  <1>7. QED
    BY <1>6

\* streamFileRecords meets one of the lines Q first.
LEMMA FirstOfLines ==
    ASSUME NEW F \in [SegIdx -> File], NEW Q \in SUBSET Positions(F), Q # {}
    PROVE  \E q \in Q : \A r \in Q : q = r \/ Before(q, r)
  <1>1. \A q \in Q : q[1] \in Nat /\ q[2] \in Nat /\ q = <<q[1], q[2]>>
    BY SegIdxFacts DEF Positions
  <1> DEFINE K == {q[1] : q \in Q}
  <1>2. K \in SUBSET Nat /\ K # {}
    BY <1>1
  <1>3. PICK k \in K : \A j \in K : k <= j
    BY <1>2, LeastOf
  <1> DEFINE I == {q[2] : q \in {r \in Q : r[1] = k}}
  <1>4. I \in SUBSET Nat /\ I # {}
    BY <1>1, <1>3
  <1>5. PICK i \in I : \A j \in I : i <= j
    BY <1>4, LeastOf
  <1>6. PICK q \in Q : q[1] = k /\ q[2] = i
    BY <1>5
  <1>7. ASSUME NEW r \in Q PROVE q = r \/ Before(q, r)
    <2>1. k <= r[1] /\ (r[1] = k => i <= r[2])
      BY <1>3, <1>5
    <2>2. QED
      BY <1>1, <1>6, <2>1 DEF Before
  <1>8. QED
    BY <1>7

\* Nothing is read yet: a command starts, or ends with an error.
LEMMA UnreadInv ==
    ASSUME FullInv, ReaderInv, UNCHANGED <<vars, cursor>>, Unread,
           rpc' \in {"idle", "validate", "find"},
           rpc' = "validate" =>
               /\ job' \in {"verify", "export", "ack"} \cup Violations
               /\ job' = "ack" => at' \in Asked,
           rpc' = "find" =>
               /\ job' = "get_event"
               /\ known' => \E r \in acked : r.body.event = event'
    PROVE  ReaderInv'
  <1>0. UNCHANGED <<files, manifest, acked, damaged>>
    BY DEF vars, disk, ghost
  <1>1. /\ seen' = <<>> /\ hash' = <<>> /\ todo' = {}
        /\ pack' = [manifest |-> NoManifest, files |-> [k \in SegIdx |-> NoFile]]
    BY DEF Unread, NoHash
  <1>2. pack' \in [manifest : Manifest \cup {NoManifest}, files : [SegIdx -> File]]
    BY <1>1, FileType
  <1>3. StageInv'
    BY <1>1, <1>2 DEF StageInv, HashVal
  <1>4. CommittedChain' = CommittedChain /\ CommittedChain \in HashVal
    BY <1>0 DEF CommittedChain, FullInv, StoreInv, TypeInv, TypeOK, Manifest,
       NoHash, HashVal
  <1>5. SeenInv'
    <2>1. L!IsPrefixOf(<<>>, CommittedChain)
      BY <1>4 DEF L!IsPrefixOf, HashVal
    <2>2. HoldsChain(files, <<>>)
      BY DEF HoldsChain
    <2>3. QED
      BY <1>0, <1>1, <1>4, <2>1, <2>2 DEF SeenInv
  <1>6. MetaInv'
    BY DEF MetaInv, Reported
  <1>7. PackInv'
    <2>1. \A k \in SegIdx : pack'.files[k].lines = <<>>
      BY <1>1 DEF NoFile
    <2>2. Positions(pack'.files) = {}
      BY <2>1 DEF Positions
    <2>3. QED
      BY <2>2 DEF PackInv, Exported
  <1>8. CursorInv'
    BY <1>0, <1>4 DEF ReaderInv, CursorInv, Anchored
  <1>9. FindInv'
    BY <1>0 DEF FindInv, GetEventFindsAcked
  <1>10. QED
    BY <1>3, <1>5, <1>6, <1>7, <1>8, <1>9 DEF ReaderInv

LEMMA AbortStep ==
    ASSUME FullInv, ReaderInv, Abort
    PROVE  ReaderInv'
  BY UnreadInv DEF Abort, Cleared

\* The files and manifest.json while nobody holds the lock.
LEMMA LockFree ==
    ASSUME FullInv, lock = NoProc
    PROVE  /\ \A p \in Procs : pc[p] \notin Uncommitted
           /\ ChainValid(files, manifest) => ~damaged
           /\ ~damaged =>
                 \A q \in Positions(files) :
                     /\ LineAt(files, q) \in Record
                     /\ L!IsPrefixOf(LineAt(files, q).hash, CommittedChain)
  <1>0. StoreInv /\ DamageInv /\ HistoryInv
    BY DEF FullInv
  <1>1. \A p \in Procs : pc[p] \notin Uncommitted
    BY <1>0, ConstantsAssumption DEF StoreInv, LockInv, Uncommitted
  <1>2. ASSUME damaged PROVE ~ChainValid(files, manifest)
    <2>1. Broken(files, manifest)
      BY <1>0, <1>1, <1>2 DEF DamageInv
    <2>2. manifest \in Manifest
      BY <1>0, <1>2 DEF StoreInv, TypeInv, TypeOK, ShapeInv, DiskShape
    <2>3. QED
      BY <2>1, <2>2, BrokenIsInvalid
  <1>3. ASSUME ~damaged, NEW q \in Positions(files)
        PROVE  /\ LineAt(files, q) \in Record
               /\ L!IsPrefixOf(LineAt(files, q).hash, CommittedChain)
    BY <1>0, <1>1, <1>3, UndamagedClosed DEF HistoryInv
  <1>4. QED
    BY <1>1, <1>2, <1>3

LEMMA CheckChainStep ==
    ASSUME FullInv, ReaderInv, CheckChain
    PROVE  ReaderInv'
  <1>0. StageInv /\ SeenInv /\ MetaInv /\ PackInv /\ CursorInv /\ FindInv
    BY DEF ReaderInv
  <1>1. CASE ~ChainValid(files, manifest)
    BY <1>1, AbortStep DEF CheckChain
  <1>2. CASE ChainValid(files, manifest)
    <2>1. /\ rpc = "validate" /\ seen' = CommittedChain
          /\ rpc' = IF job = "ack" THEN "resolve" ELSE "meta"
          /\ UNCHANGED <<vars, query, meta, hash, scanned, pack, todo, cursor>>
      BY <1>2 DEF CheckChain
    <2>2. UNCHANGED <<files, manifest, acked, damaged, job, event, known, at,
                      CommittedChain>>
      BY <2>1 DEF vars, disk, ghost, query, CommittedChain
    <2>3. CommittedChain \in HashVal
      BY DEF CommittedChain, FullInv, StoreInv, TypeInv, TypeOK, Manifest,
         NoHash, HashVal
    <2>4. SeenInv'
      <3>1. ~damaged
        BY <1>2, LockFree DEF CheckChain
      <3>2. HoldsChain(files, CommittedChain)
        BY <3>1 DEF FullInv, HistoryInv
      <3>3. L!IsPrefixOf(CommittedChain, CommittedChain)
        BY <2>3 DEF L!IsPrefixOf, HashVal
      <3>4. QED
        BY <2>1, <2>2, <3>2, <3>3 DEF SeenInv
    <2>5. StageInv'
      BY <1>0, <1>2, <2>1, <2>2, <2>3 DEF StageInv, ChainValid
    <2>6. MetaInv'
      BY <2>1 DEF MetaInv, Reported
    <2>7. PackInv'
      BY <1>0, <2>1, <2>2 DEF PackInv, Exported
    <2>8. CursorInv'
      BY <1>0, <2>1, <2>2 DEF CursorInv, Anchored
    <2>9. FindInv'
      BY <2>1 DEF FindInv, GetEventFindsAcked
    <2>10. QED
      BY <2>4, <2>5, <2>6, <2>7, <2>8, <2>9 DEF ReaderInv
  <1>3. QED
    BY <1>1, <1>2

LEMMA ReadMetaStep ==
    ASSUME FullInv, ReaderInv, ReadMeta
    PROVE  ReaderInv'
  <1>0. StageInv /\ SeenInv /\ MetaInv /\ PackInv /\ CursorInv /\ FindInv
    BY DEF ReaderInv
  <1>1. /\ rpc = "meta" /\ job \in {"verify", "export"} \cup Violations
        /\ manifest # NoManifest
    BY <1>0 DEF ReadMeta, StageInv
  <1>2. /\ meta' = [records |-> manifest.total, lastHash |-> manifest.lastHash]
        /\ \/ job = "verify" /\ rpc' = "done"
           \/ job \in Violations /\ rpc' = "scan"
           \/ job = "export" /\ rpc' = "load"
        /\ UNCHANGED <<vars, query, seen, hash, scanned, pack, todo, cursor>>
    BY <1>1 DEF ReadMeta, Violations
  <1>3. UNCHANGED <<files, manifest, acked, damaged, job, event, known, at,
                    CommittedChain>>
    BY <1>2 DEF vars, disk, ghost, query, CommittedChain
  <1>4. StageInv'
    BY <1>0, <1>1, <1>2, <1>3 DEF StageInv
  <1>5. SeenInv'
    BY <1>0, <1>2, <1>3 DEF SeenInv
  <1>6. MetaInv'
    <2>1. /\ manifest \in Manifest /\ Counts(files, manifest)
          /\ CommittedChain = manifest.lastHash
      BY <1>1 DEF FullInv, StoreInv, TypeInv, TypeOK, HistoryInv, CommittedChain
    <2>2. manifest.lastHash \in HashVal
      BY <2>1 DEF Manifest
    <2>3. /\ meta'.lastHash = CommittedChain /\ meta'.lastHash \in HashVal
          /\ meta'.records = Len(meta'.lastHash)
          /\ meta'.records <= Cardinality(Closed(files))
      BY <1>2, <2>1, <2>2 DEF Counts
    <2>4. L!IsPrefixOf(CommittedChain, CommittedChain)
      BY <2>1, <2>2 DEF L!IsPrefixOf, HashVal
    <2>5. L!IsPrefixOf(seen, CommittedChain)
      BY <1>0 DEF SeenInv
    <2>6. ~(rpc' = "done" /\ job = "violations")
      BY <1>2 DEF Violations
    <2>7. QED
      BY <1>2, <1>3, <2>3, <2>4, <2>5, <2>6 DEF MetaInv
  <1>7. PackInv'
    BY <1>0, <1>2, <1>3 DEF PackInv, Exported
  <1>8. CursorInv'
    BY <1>0, <1>2, <1>3 DEF CursorInv, Anchored
  <1>9. FindInv'
    BY <1>2, <1>3 DEF FindInv, GetEventFindsAcked
  <1>10. QED
    BY <1>4, <1>5, <1>6, <1>7, <1>8, <1>9 DEF ReaderInv

LEMMA ScanStep ==
    ASSUME FullInv, ReaderInv, ScanRecords
    PROVE  ReaderInv'
  <1>0. StageInv /\ SeenInv /\ MetaInv /\ PackInv /\ CursorInv /\ FindInv
    BY DEF ReaderInv
  <1>1. CASE ~Streams(files)
    BY <1>1, AbortStep DEF ScanRecords
  <1>2. CASE Streams(files)
    <2>1. /\ rpc = "scan" /\ rpc' = "done" /\ job \in Violations
          /\ job = "violations" => scanned' = Cardinality(Positions(files))
          /\ UNCHANGED <<vars, query, seen, meta, hash, pack, todo, cursor>>
      BY <1>0, <1>2 DEF ScanRecords, StageInv
    <2>2. UNCHANGED <<files, manifest, acked, damaged, job, event, known, at,
                      CommittedChain>>
      BY <2>1 DEF vars, disk, ghost, query, CommittedChain
    <2>3. StageInv'
      BY <1>0, <2>1, <2>2 DEF StageInv
    <2>4. SeenInv'
      BY <1>0, <2>1, <2>2 DEF SeenInv
    <2>5. MetaInv'
      <3>1. IsFiniteSet(Positions(files)) /\ Closed(files) \subseteq Positions(files)
        BY DEF FullInv, StoreInv, ShapeInv, DiskShape, Closed
      <3>2. /\ Cardinality(Closed(files)) <= Cardinality(Positions(files))
            /\ Cardinality(Closed(files)) \in Nat
            /\ Cardinality(Positions(files)) \in Nat
        BY <3>1, FS_Subset, FS_CardinalityType
      <3>3. Reported
        BY <2>1 DEF Reported
      <3>4. /\ meta.lastHash \in HashVal /\ meta.records = Len(meta.lastHash)
            /\ meta.records <= Cardinality(Closed(files))
        BY <1>0, <3>3 DEF MetaInv
      <3>5. meta.records \in Nat
        BY <3>4 DEF HashVal
      <3>6. job = "violations" => meta.records <= scanned'
        BY <2>1, <3>2, <3>4, <3>5
      <3>7. QED
        BY <1>0, <2>1, <2>2, <3>3, <3>6 DEF MetaInv
    <2>6. PackInv'
      BY <1>0, <2>1, <2>2 DEF PackInv, Exported, Violations
    <2>7. CursorInv'
      BY <1>0, <2>1, <2>2 DEF CursorInv, Anchored
    <2>8. FindInv'
      BY <2>1, <2>2 DEF FindInv, GetEventFindsAcked, Violations
    <2>9. QED
      BY <2>3, <2>4, <2>5, <2>6, <2>7, <2>8 DEF ReaderInv
  <1>3. QED
    BY <1>1, <1>2

\* manifest.json as export reads it and as it goes into the pack.
LEMMA ManifestSteps ==
    ASSUME FullInv, ReaderInv, LoadStoreManifest \/ CopyManifest
    PROVE  ReaderInv'
  <1>0. StageInv /\ SeenInv /\ MetaInv /\ PackInv /\ CursorInv /\ FindInv
    BY DEF ReaderInv
  <1>1. /\ manifest # NoManifest /\ rpc \in {"load", "copy_manifest"}
        /\ job = "export"
    BY <1>0 DEF LoadStoreManifest, CopyManifest, StageInv
  <1>2. /\ UNCHANGED <<vars, query, seen, meta, scanned, todo, cursor>>
        /\ \/ /\ rpc = "load" /\ rpc' = "copy_manifest"
              /\ hash' = manifest.lastHash /\ pack' = pack
           \/ /\ rpc = "copy_manifest" /\ rpc' = "list" /\ hash' = hash
              /\ pack' = [pack EXCEPT !.manifest = manifest]
    BY DEF LoadStoreManifest, CopyManifest
  <1>3. UNCHANGED <<files, manifest, acked, damaged, job, event, known, at,
                    CommittedChain>>
    BY <1>2 DEF vars, disk, ghost, query, CommittedChain
  <1>4. /\ manifest \in Manifest /\ Counts(files, manifest)
        /\ CommittedChain = manifest.lastHash
    BY <1>1 DEF FullInv, StoreInv, TypeInv, TypeOK, HistoryInv, CommittedChain
  <1>5. manifest.lastHash \in HashVal
    BY <1>4 DEF Manifest
  <1>6. /\ pack'.files = pack.files
        /\ pack' \in [manifest : Manifest \cup {NoManifest}, files : [SegIdx -> File]]
        /\ rpc' = "list" => pack'.manifest = manifest
    BY <1>0, <1>2, <1>4 DEF StageInv
  <1>7. StageInv'
    BY <1>0, <1>1, <1>2, <1>3, <1>5, <1>6 DEF StageInv
  <1>8. SeenInv'
    BY <1>0, <1>2, <1>3 DEF SeenInv
  <1>9. Reported /\ Reported' /\ rpc' # "done"
    BY <1>2 DEF Reported
  <1>10. MetaInv'
    BY <1>0, <1>2, <1>3, <1>9 DEF MetaInv
  <1>11. PackInv'
    <2>1. L!IsPrefixOf(CommittedChain, CommittedChain)
      BY <1>4, <1>5 DEF L!IsPrefixOf, HashVal
    <2>2. L!IsPrefixOf(meta.lastHash, CommittedChain)
      BY <1>0, <1>9 DEF MetaInv
    <2>3. CASE rpc' = "copy_manifest"
      BY <1>0, <1>2, <1>3, <1>4, <1>6, <2>1, <2>2, <2>3 DEF PackInv, Exported
    <2>4. CASE rpc' = "list"
      BY <1>0, <1>2, <1>3, <1>4, <1>6, <2>4 DEF PackInv, Exported, Counts
    <2>5. QED
      BY <1>2, <2>3, <2>4
  <1>12. CursorInv'
    BY <1>0, <1>2, <1>3 DEF CursorInv, Anchored
  <1>13. FindInv'
    BY <1>2 DEF FindInv, GetEventFindsAcked
  <1>14. QED
    BY <1>7, <1>8, <1>10, <1>11, <1>12, <1>13 DEF ReaderInv
\* Every line that is final when the segments are listed will be in the pack.
LEMMA ListStep ==
    ASSUME FullInv, ReaderInv, ListSegments
    PROVE  ReaderInv'
  <1>0. StageInv /\ SeenInv /\ MetaInv /\ PackInv /\ CursorInv /\ FindInv
    BY DEF ReaderInv
  <1>1. CASE ~NamesOrdered(files)
    BY <1>1, AbortStep DEF ListSegments
  <1>2. CASE NamesOrdered(files)
    <2>1. /\ rpc = "list" /\ rpc' = "copy" /\ job = "export"
          /\ todo' = {k \in SegIdx : files[k].exists}
          /\ UNCHANGED <<vars, query, seen, meta, hash, scanned, pack, cursor>>
      BY <1>0, <1>2 DEF ListSegments, StageInv
    <2>2. UNCHANGED <<files, manifest, acked, damaged, job, event, known, at,
                      CommittedChain>>
      BY <2>1 DEF vars, disk, ghost, query, CommittedChain
    <2>3. StageInv'
      BY <1>0, <2>1, <2>2 DEF StageInv
    <2>4. SeenInv'
      BY <1>0, <2>1, <2>2 DEF SeenInv
    <2>5. MetaInv'
      BY <1>0, <2>1, <2>2 DEF MetaInv, Reported
    <2>6. PackInv'
      <3>1. \A q \in Positions(files) : q[1] \in SegIdx /\ files[q[1]].exists
        BY DEF Positions, FullInv, StoreInv, ShapeInv, DiskShape, NoFile
      <3>2. Covered' = Closed(files)
        BY <2>1, <2>2, <3>1 DEF Covered, Closed
      <3>3. /\ L!IsPrefixOf(meta.lastHash, hash)
            /\ L!IsPrefixOf(hash, CommittedChain)
            /\ pack.manifest \in Manifest
            /\ L!IsPrefixOf(hash, pack.manifest.lastHash)
            /\ pack.manifest.total <= Cardinality(Closed(files))
            /\ Positions(pack.files) \subseteq Positions(files)
        BY <1>0, <2>1 DEF PackInv
      <3>4. \A i \in 1 .. Len(seen) :
               \E q \in Covered' :
                   LineAt(files, q) # Torn /\ LineAt(files, q).hash = SubSeq(seen, 1, i)
        BY <1>0, <3>2 DEF SeenInv, HoldsChain
      <3>5. QED
        BY <2>1, <2>2, <3>2, <3>3, <3>4 DEF PackInv, Exported
    <2>7. CursorInv'
      BY <1>0, <2>1, <2>2 DEF CursorInv, Anchored
    <2>8. FindInv'
      BY <2>1, <2>2 DEF FindInv, GetEventFindsAcked
    <2>9. QED
      BY <2>3, <2>4, <2>5, <2>6, <2>7, <2>8 DEF ReaderInv
  <1>3. QED
    BY <1>1, <1>2

LEMMA CopyStep ==
    ASSUME FullInv, ReaderInv, CopySegment
    PROVE  ReaderInv'
  <1>0. StageInv /\ SeenInv /\ MetaInv /\ PackInv /\ CursorInv /\ FindInv
    BY DEF ReaderInv
  <1>1. CASE Abort
    BY <1>1, AbortStep
  <1>2. ASSUME NEW k \in todo,
               pack' = [pack EXCEPT !.files[k] = files[k]],
               todo' = todo \ {k},
               rpc' = IF todo = {k} THEN "done" ELSE "copy",
               UNCHANGED <<vars, query, seen, meta, hash, scanned, cursor>>
        PROVE  ReaderInv'
    <2>1. /\ rpc = "copy" /\ job = "export" /\ todo \subseteq SegIdx
          /\ rpc' \in {"copy", "done"} /\ (rpc' = "done" => todo' = {})
          /\ pack \in [manifest : Manifest \cup {NoManifest},
                       files : [SegIdx -> File]]
      BY <1>0, <1>2 DEF CopySegment, StageInv
    <2>2. UNCHANGED <<files, manifest, acked, damaged, job, event, known, at,
                      CommittedChain>>
      BY <1>2 DEF vars, disk, ghost, query, CommittedChain
    <2>3. files \in [SegIdx -> File]
      BY DEF FullInv, StoreInv, TypeInv, TypeOK
    <2>4. /\ pack'.manifest = pack.manifest
          /\ pack'.files = [pack.files EXCEPT ![k] = files[k]]
          /\ pack' \in [manifest : Manifest \cup {NoManifest},
                        files : [SegIdx -> File]]
      BY <1>2, <2>1, <2>3
    <2>5. StageInv'
      BY <1>0, <1>2, <2>1, <2>2, <2>4 DEF StageInv
    <2>6. SeenInv'
      BY <1>0, <1>2, <2>2 DEF SeenInv
    <2>7. MetaInv'
      BY <1>0, <1>2, <2>1, <2>2 DEF MetaInv, Reported
    <2>8. PackInv'
      <3>1. \A j \in SegIdx : pack'.files[j] = IF j = k THEN files[k] ELSE pack.files[j]
        BY <2>1, <2>4
      <3>2. Positions(pack'.files) \subseteq Positions(files)
        BY <1>0, <3>1 DEF PackInv, Positions
      <3>3. Covered \subseteq Covered'
        <4>1. SUFFICES ASSUME NEW q \in Covered PROVE q \in Covered'
          OBVIOUS
        <4>2. q \in Closed(files) /\ q \in Positions(files) /\ q[1] \in SegIdx
          BY DEF Covered, Closed, Positions
        <4>3. CASE q[1] = k
          <5>1. q \in Positions(pack'.files) /\ LineAt(pack'.files, q) = LineAt(files, q)
            BY <3>1, <4>2, <4>3 DEF Positions, LineAt
          <5>2. QED
            BY <2>2, <4>2, <5>1 DEF Covered
        <4>4. CASE q[1] # k /\ q[1] \in todo
          BY <1>2, <2>2, <4>2, <4>4 DEF Covered
        <4>5. CASE q[1] # k /\ q[1] \notin todo
          <5>1. q \in Positions(pack.files) /\ LineAt(pack.files, q) = LineAt(files, q)
            BY <4>5 DEF Covered
          <5>2. q \in Positions(pack'.files) /\ LineAt(pack'.files, q) = LineAt(files, q)
            BY <3>1, <4>2, <4>5, <5>1 DEF Positions, LineAt
          <5>3. QED
            BY <2>2, <4>2, <5>2 DEF Covered
        <4>6. QED
          BY <4>3, <4>4, <4>5
      <3>4. /\ L!IsPrefixOf(meta.lastHash, hash)
            /\ L!IsPrefixOf(hash, CommittedChain)
            /\ pack.manifest \in Manifest
            /\ L!IsPrefixOf(hash, pack.manifest.lastHash)
            /\ pack.manifest.total <= Cardinality(Covered)
            /\ \A i \in 1 .. Len(seen) :
                  \E q \in Covered :
                      /\ LineAt(files, q) # Torn
                      /\ LineAt(files, q).hash = SubSeq(seen, 1, i)
        BY <1>0, <2>1 DEF PackInv
      <3>5. IsFiniteSet(Covered')
        <4>1. IsFiniteSet(Positions(files)) /\ Covered' \subseteq Positions(files)
          BY <2>2 DEF Covered, Closed, FullInv, StoreInv, ShapeInv, DiskShape
        <4>2. QED
          BY <4>1, FS_Subset
      <3>6. IsFiniteSet(Covered) /\ Cardinality(Covered) <= Cardinality(Covered')
        BY <3>3, <3>5, FS_Subset
      <3>7. /\ Cardinality(Covered) \in Nat /\ Cardinality(Covered') \in Nat
            /\ pack.manifest.total \in Nat
        BY <3>4, <3>5, <3>6, FS_CardinalityType DEF Manifest
      <3>8. pack.manifest.total <= Cardinality(Covered')
        BY <3>4, <3>6, <3>7
      <3>9. Exported' => todo' = {}
        BY <2>1 DEF Exported
      <3>10. QED
        BY <1>2, <2>1, <2>2, <2>4, <3>2, <3>3, <3>4, <3>8, <3>9 DEF PackInv
    <2>9. CursorInv'
      BY <1>0, <1>2, <2>1, <2>2 DEF CursorInv, Anchored
    <2>10. FindInv'
      BY <1>2, <2>1, <2>2 DEF FindInv, GetEventFindsAcked
    <2>11. QED
      BY <2>5, <2>6, <2>7, <2>8, <2>9, <2>10 DEF ReaderInv
  <1>3. QED
    BY <1>1, <1>2 DEF CopySegment

\* The record that cursor ack resolves, and the cursor it saves afterwards.
LEMMA CursorSteps ==
    ASSUME FullInv, ReaderInv, ResolveCursorRecord \/ SaveForwarderState
    PROVE  ReaderInv'
  <1>0. StageInv /\ SeenInv /\ MetaInv /\ PackInv /\ CursorInv /\ FindInv
    BY DEF ReaderInv
  <1>1. CASE Abort
    BY <1>1, AbortStep
  <1>2. ASSUME /\ rpc \in {"resolve", "save"} /\ rpc' \in {"save", "done"}
               /\ UNCHANGED <<vars, query, seen, meta, scanned, pack, todo>>,
               hash' \in HashVal, CursorInv'
        PROVE  ReaderInv'
    <2>1. UNCHANGED <<files, manifest, acked, damaged, job, event, known, at,
                      CommittedChain>>
      BY <1>2 DEF vars, disk, ghost, query, CommittedChain
    <2>2. job = "ack"
      BY <1>0, <1>2 DEF StageInv
    <2>3. StageInv'
      BY <1>0, <1>2, <2>1, <2>2 DEF StageInv
    <2>4. SeenInv'
      BY <1>0, <1>2, <2>1 DEF SeenInv
    <2>5. MetaInv'
      BY <1>2, <2>1, <2>2 DEF MetaInv, Reported, Violations
    <2>6. PackInv'
      BY <1>0, <1>2, <2>1, <2>2 DEF PackInv, Exported
    <2>7. FindInv'
      BY <1>2, <2>1, <2>2 DEF FindInv, GetEventFindsAcked
    <2>8. QED
      BY <1>2, <2>3, <2>4, <2>5, <2>6, <2>7 DEF ReaderInv
  <1>3. ASSUME rpc = "resolve", lock = NoProc, Resolvable(files, at),
               hash' = LineAt(files, at).hash, rpc' = "save",
               UNCHANGED <<vars, query, seen, meta, scanned, pack, todo, cursor>>
        PROVE  ReaderInv'
    <2>1. UNCHANGED <<files, damaged, at, CommittedChain>>
      BY <1>3 DEF vars, disk, ghost, query, CommittedChain
    <2>2. at \in Asked
      BY <1>0, <1>3 DEF StageInv
    <2>3. files \in [SegIdx -> File]
      BY DEF FullInv, StoreInv, TypeInv, TypeOK
    <2>4. at[1] \in SegIdx /\ at[2] \in Nat /\ at[2] >= 1 /\ at = <<at[1], at[2]>>
      BY <2>2, ConstantsAssumption DEF Asked
    <2>5. files[at[1]].lines \in Seq(Line) /\ at[2] <= Len(files[at[1]].lines)
      BY <1>3, <2>3, <2>4 DEF File, Resolvable
    <2>6. at[2] \in 1 .. Len(files[at[1]].lines)
      BY <2>4, <2>5
    <2>7. at \in Positions(files)
      BY <2>4, <2>6 DEF Positions
    <2>8. LineAt(files, at) # Torn /\ LineAt(files, at) \in Line
      BY <1>3, <2>4, <2>5, <2>6 DEF Resolvable, LineAt
    <2>9. hash' \in HashVal
      BY <1>3, <2>8 DEF Line, Record
    <2>10. ~damaged => L!IsPrefixOf(hash', CommittedChain)
      BY <1>3, <2>7, LockFree
    <2>11. Anchored(at, hash)'
      BY <1>3, <2>1, <2>7, <2>8, <2>10 DEF Anchored
    <2>12. CursorInv'
      BY <1>0, <1>3, <2>1, <2>11 DEF CursorInv, Anchored
    <2>13. QED
      BY <1>2, <1>3, <2>9, <2>12
  <1>4. CASE SaveForwarderState
    <2>1. /\ rpc = "save" /\ rpc' = "done" /\ cursor' = [at |-> at, hash |-> hash]
          /\ UNCHANGED <<vars, query, seen, meta, hash, scanned, pack, todo>>
      BY <1>4 DEF SaveForwarderState
    <2>2. UNCHANGED <<files, damaged, CommittedChain>>
      BY <2>1 DEF vars, disk, ghost, CommittedChain
    <2>3. CursorInv'
      BY <1>0, <2>1, <2>2 DEF CursorInv, Anchored
    <2>4. hash' \in HashVal
      BY <1>0, <2>1 DEF StageInv
    <2>5. QED
      BY <1>2, <2>1, <2>3, <2>4
  <1>5. QED
    BY <1>1, <1>3, <1>4 DEF ResolveCursorRecord

\* In a valid chain every acknowledged record is on a line.
LEMMA ValidHoldsAcked ==
    ASSUME FullInv, ChainValid(files, manifest), NEW r \in acked
    PROVE  \E q \in Positions(files) : LineAt(files, q) = r
  <1>1. TornIn(files) = {}
    BY DEF TornIn, Closed, ChainValid, LinesParse
  <1>2. /\ IsFiniteSet(Sent) /\ Cardinality(Lost) <= Cardinality(TornIn(files))
        /\ Lost \subseteq Sent
    BY DEF FullInv, AckInv, Lost
  <1>3. IsFiniteSet(Lost) /\ Cardinality(Lost) \in Nat
    BY <1>2, FS_Subset, FS_CardinalityType
  <1>4. Cardinality(Lost) = 0
    BY <1>1, <1>2, <1>3, FS_EmptySet
  <1>5. Lost = {}
    BY <1>3, <1>4, FS_EmptySet
  <1>6. QED
    BY <1>5 DEF Lost, Sent, Closed

LEMMA FindStep ==
    ASSUME FullInv, ReaderInv, FindByEventID
    PROVE  ReaderInv'
  <1>0. StageInv /\ SeenInv /\ MetaInv /\ PackInv /\ CursorInv /\ FindInv
    BY DEF ReaderInv
  <1>1. CASE ~ChainValid(files, manifest)
    BY <1>1, AbortStep DEF FindByEventID
  <1>2. CASE ChainValid(files, manifest)
    <2> DEFINE Q == EventLines(SegIdx, event)
    <2>1. /\ rpc = "find" /\ rpc' = "done" /\ job = "get_event" /\ lock = NoProc
          /\ hash' = FirstMatch(Q)
          /\ UNCHANGED <<vars, query, seen, meta, scanned, pack, todo, cursor>>
      BY <1>0, <1>2 DEF FindByEventID, StageInv
    <2>2. UNCHANGED <<files, manifest, acked, damaged, job, event, known, at,
                      CommittedChain>>
      BY <2>1 DEF vars, disk, ghost, query, CommittedChain
    <2>3. \A q \in Positions(files) :
             /\ LineAt(files, q) \in Record
             /\ L!IsPrefixOf(LineAt(files, q).hash, CommittedChain)
      BY <1>2, <2>1, LockFree
    <2>4. ASSUME known PROVE Q # {}
      <3>1. PICK r \in acked : r.body.event = event
        BY <1>0, <2>1, <2>4 DEF FindInv
      <3>2. PICK q \in Positions(files) : LineAt(files, q) = r
        BY <1>2, ValidHoldsAcked
      <3>3. q[1] \in SegIdx /\ LineAt(files, q) # Torn
        BY <1>2 DEF Positions, ChainValid, LinesParse
      <3>4. QED
        BY <3>1, <3>2, <3>3 DEF EventLines
    <2>5. ASSUME Q # {}
          PROVE  /\ hash' \in HashVal /\ hash' # NoHash
                 /\ hash'[Len(hash')][1] = event
                 /\ L!IsPrefixOf(hash', CommittedChain)
      <3>1. files \in [SegIdx -> File] /\ Q \in SUBSET Positions(files)
        BY DEF FullInv, StoreInv, TypeInv, TypeOK, EventLines
      <3>2. \E q \in Q : \A r \in Q : q = r \/ Before(q, r)
        BY <2>5, <3>1, FirstOfLines
      <3>3. PICK q \in Q : hash' = LineAt(files, q).hash
        <4> HIDE DEF Q
        <4>1. QED
          BY <2>1, <2>5, <3>2 DEF FirstMatch
      <3>4. q \in Positions(files) /\ LineAt(files, q).body.event = event
        BY DEF EventLines
      <3> DEFINE l == LineAt(files, q)
      <3>5. l \in Record /\ l.hash = ComputeHash(l.body, l.prev)
        BY <1>2, <2>3, <3>4 DEF ChainValid, HashesOk
      <3>6. l.body \in Bodies /\ l.prev \in HashVal /\ l.hash \in HashVal
        BY <3>5 DEF Record
      <3>7. l.body.event = event
        BY <3>4
      <3> HIDE DEF l
      <3>8. /\ l.hash # <<>> /\ Len(l.hash) = Len(l.prev) + 1
            /\ l.hash[Len(l.hash)] = Canonical(l.body)
        BY <3>5, <3>6 DEF ComputeHash, HashVal
      <3>9. l.hash[Len(l.hash)][1] = event
        BY <3>7, <3>8 DEF Canonical
      <3>10. hash' = l.hash /\ L!IsPrefixOf(l.hash, CommittedChain)
        BY <2>3, <3>3, <3>4 DEF l
      <3>11. QED
        BY <3>6, <3>8, <3>9, <3>10 DEF NoHash
    <2>6. Q = {} => hash' = NoHash
      BY <2>1 DEF FirstMatch
    <2> HIDE DEF Q
    <2>7. hash' \in HashVal
      <3>1. NoHash \in HashVal
        BY DEF NoHash, HashVal
      <3>2. QED
        BY <2>5, <2>6, <3>1
    <2>8. StageInv'
      BY <1>0, <2>1, <2>2, <2>7 DEF StageInv
    <2>9. SeenInv'
      BY <1>0, <2>1, <2>2 DEF SeenInv
    <2>10. MetaInv'
      BY <2>1, <2>2 DEF MetaInv, Reported, Violations
    <2>11. PackInv'
      BY <1>0, <2>1, <2>2 DEF PackInv, Exported
    <2>12. CursorInv'
      BY <1>0, <2>1, <2>2 DEF CursorInv, Anchored
    <2>13. FindInv'
      BY <2>1, <2>2, <2>4, <2>5, <2>6 DEF FindInv, GetEventFindsAcked
    <2>14. QED
      BY <2>8, <2>9, <2>10, <2>11, <2>12, <2>13 DEF ReaderInv
  <1>3. QED
    BY <1>1, <1>2

LEMMA StartSteps ==
    ASSUME FullInv, ReaderInv,
           \/ \E j \in Jobs, q \in Asked \cup {<<0, 0>>} : Start(j, q)
           \/ \E b \in Bodies : StartGetEvent(b.event)
    PROVE  ReaderInv'
  <1>1. ASSUME NEW j \in Jobs, NEW q, Start(j, q)
        PROVE  ReaderInv'
    <2>1. /\ rpc' = "validate" /\ job' = j /\ at' = q
          /\ j \in {"verify", "export", "ack"} \cup Violations
          /\ (j = "ack" => q \in Asked)
          /\ Unread /\ UNCHANGED <<vars, cursor>>
      BY <1>1, JobsAssumption DEF Start, Cleared, Violations
    <2>2. Asked' = Asked
      BY DEF Asked
    <2>3. QED
      BY <2>1, <2>2, UnreadInv
  <1>2. ASSUME NEW e, StartGetEvent(e)
        PROVE  ReaderInv'
    <2>1. /\ rpc' = "find" /\ job' = "get_event" /\ event' = e
          /\ known' = \E r \in acked : r.body.event = e
          /\ Unread /\ UNCHANGED <<vars, cursor>>
      BY <1>2 DEF StartGetEvent
    <2>2. known' => \E r \in acked : r.body.event = event'
      BY <2>1, Zenon
    <2>3. QED
      BY <2>1, <2>2, UnreadInv
  <1>3. QED
    BY <1>1, <1>2

LEMMA ReaderStep ==
    ASSUME FullInv, ReaderInv, Reader
    PROVE  ReaderInv'
  <1>1. CASE \/ \E j \in Jobs, q \in Asked \cup {<<0, 0>>} : Start(j, q)
             \/ \E b \in Bodies : StartGetEvent(b.event)
    BY <1>1, StartSteps
  <1>2. CASE ReaderBusy
    BY <1>2, AbortStep DEF ReaderBusy
  <1>3. CASE FindByEventID \/ CheckChain \/ ReadMeta \/ ScanRecords
    BY <1>3, FindStep, CheckChainStep, ReadMetaStep, ScanStep
  <1>4. CASE \/ LoadStoreManifest \/ CopyManifest \/ ListSegments \/ CopySegment
             \/ ResolveCursorRecord \/ SaveForwarderState
    BY <1>4, ManifestSteps, ListStep, CopyStep, CursorSteps
  <1>5. QED
    BY <1>1, <1>2, <1>3, <1>4 DEF Reader

\* To the store a reader is a stuttering step.
LEMMA ReadersLeaveStore == ReadersSpec => Spec
  <1>1. ReadersInit => Init
    BY DEF ReadersInit
  <1>2. [ReadersNext]_allvars => [Next]_vars
    <2>1. ASSUME Reader PROVE UNCHANGED vars
      BY <2>1 DEF Reader, Start, StartGetEvent, FindByEventID, ReaderBusy,
         CheckChain, ReadMeta, ScanRecords, LoadStoreManifest, CopyManifest,
         ListSegments, CopySegment, ResolveCursorRecord, SaveForwarderState,
         Abort
    <2>2. QED
      BY <2>1 DEF ReadersNext, allvars
  <1>3. QED
    BY <1>1, <1>2, PTL DEF ReadersSpec, Spec

LEMMA ReadersStart == ReadersInit /\ FullInv => ReaderInv
  <1> SUFFICES ASSUME ReadersInit, FullInv PROVE ReaderInv
    OBVIOUS
  <1>1. /\ rpc = "idle" /\ job = "verify" /\ seen = <<>> /\ hash = <<>>
        /\ todo = {} /\ cursor = NoCursor
        /\ pack = [manifest |-> NoManifest, files |-> [k \in SegIdx |-> NoFile]]
    BY DEF ReadersInit, NoHash
  <1>2. pack \in [manifest : Manifest \cup {NoManifest}, files : [SegIdx -> File]]
    BY <1>1, FileType
  <1>3. StageInv
    BY <1>1, <1>2 DEF StageInv, HashVal
  <1>4. SeenInv
    <2>1. CommittedChain \in HashVal
      BY DEF CommittedChain, FullInv, StoreInv, TypeInv, TypeOK, Manifest,
         NoHash, HashVal
    <2>2. L!IsPrefixOf(<<>>, CommittedChain) /\ HoldsChain(files, <<>>)
      BY <2>1 DEF L!IsPrefixOf, HashVal, HoldsChain
    <2>3. QED
      BY <1>1, <2>2 DEF SeenInv
  <1>5. MetaInv
    BY <1>1 DEF MetaInv, Reported
  <1>6. PackInv
    <2>1. \A k \in SegIdx : pack.files[k].lines = <<>>
      BY <1>1 DEF NoFile
    <2>2. Positions(pack.files) = {}
      BY <2>1 DEF Positions
    <2>3. QED
      BY <1>1, <2>2 DEF PackInv, Exported
  <1>7. CursorInv /\ FindInv
    BY <1>1 DEF CursorInv, FindInv, GetEventFindsAcked
  <1>8. QED
    BY <1>3, <1>4, <1>5, <1>6, <1>7 DEF ReaderInv

\* A step of the writers or of the reader.
LEMMA ReadersStep ==
    FullInv /\ FullInv' /\ ReaderInv /\ [ReadersNext]_allvars => ReaderInv'
  <1> SUFFICES ASSUME FullInv, FullInv', ReaderInv, [ReadersNext]_allvars
               PROVE  ReaderInv'
    OBVIOUS
  <1>1. CASE Reader
    BY <1>1, ReaderStep
  <1>2. ASSUME [Next]_vars, UNCHANGED rvars PROVE ReaderInv'
    BY <1>2, StepsOnward, WritersKeepReader
  <1>3. QED
    BY <1>1, <1>2 DEF ReadersNext, allvars

\* What a command has read, reported, copied or saved keeps its relation to
\* the store through everything the writers do and suffer between its critical
\* sections.
THEOREM ReadersInvariant == ReadersSpec => [](FullInv /\ ReaderInv)
  <1>1. ReadersSpec => []FullInv
    BY ReadersLeaveStore, StoreInvariantHolds, PTL
  <1>2. QED
    BY <1>1, ReadersStart, ReadersStep, PTL DEF ReadersSpec

\* The audit pack holds every record of the chain that export validated,
\* although the segments are copied without the lock while writers append,
\* rotate, crash and fail.
THEOREM PackHoldsWhatWasVerified == ReadersSpec => []PackHoldsVerified
  <1>1. ReaderInv => PackHoldsVerified
    <2> SUFFICES ASSUME ReaderInv, Exported, NEW i \in 1 .. Len(seen)
                 PROVE  \E q \in Positions(pack.files) :
                            /\ LineAt(pack.files, q) # Torn
                            /\ LineAt(pack.files, q).hash = SubSeq(seen, 1, i)
      BY DEF PackHoldsVerified
    <2>1. PICK q \in Covered : LineAt(files, q) # Torn
                               /\ LineAt(files, q).hash = SubSeq(seen, 1, i)
      BY DEF ReaderInv, PackInv
    <2>2. todo = {}
      BY DEF ReaderInv, PackInv
    <2>3. QED
      BY <2>1, <2>2 DEF Covered
  <1>2. QED
    BY <1>1, ReadersInvariant, PTL

\* The numbers of a report never promise more than what the command reads
\* afterwards, in later critical sections or without the lock, holds.
THEOREM ReportsAreNeverShort == ReadersSpec => []NeverShort
  <1>1. FullInv /\ ReaderInv => NeverShort
    <2> SUFFICES ASSUME FullInv, ReaderInv PROVE NeverShort
      OBVIOUS
    <2>1. ASSUME rpc = "done", job \notin {"ack", "get_event"}
          PROVE  L!IsPrefixOf(seen, meta.lastHash) /\ meta.records = Len(meta.lastHash)
      <3>1. Reported
        BY <2>1 DEF ReaderInv, StageInv, Reported
      <3>2. QED
        BY <3>1 DEF ReaderInv, MetaInv
    <2>2. rpc = "done" /\ job = "violations" => meta.records <= scanned
      BY DEF ReaderInv, MetaInv
    <2>3. ASSUME Exported
          PROVE  /\ L!IsPrefixOf(meta.lastHash, hash)
                 /\ L!IsPrefixOf(hash, pack.manifest.lastHash)
                 /\ pack.manifest.total <= Cardinality(Positions(pack.files))
      <3>1. /\ L!IsPrefixOf(meta.lastHash, hash)
            /\ L!IsPrefixOf(hash, pack.manifest.lastHash)
            /\ pack.manifest \in Manifest
            /\ pack.manifest.total <= Cardinality(Covered)
            /\ Positions(pack.files) \subseteq Positions(files)
            /\ todo = {}
        BY <2>3 DEF ReaderInv, PackInv
      <3>2. Covered \subseteq Positions(pack.files)
        BY <3>1 DEF Covered
      <3>3. IsFiniteSet(Positions(files))
        BY DEF FullInv, StoreInv, ShapeInv, DiskShape
      <3>4. IsFiniteSet(Positions(pack.files))
        BY <3>1, <3>3, FS_Subset
      <3>5. /\ IsFiniteSet(Covered)
            /\ Cardinality(Covered) <= Cardinality(Positions(pack.files))
        BY <3>2, <3>4, FS_Subset
      <3>6. /\ Cardinality(Covered) \in Nat /\ pack.manifest.total \in Nat
            /\ Cardinality(Positions(pack.files)) \in Nat
        BY <3>1, <3>4, <3>5, FS_CardinalityType DEF Manifest
      <3>7. QED
        BY <3>1, <3>5, <3>6
    <2>4. QED
      BY <2>1, <2>2, <2>3 DEF NeverShort
  <1>2. QED
    BY <1>1, ReadersInvariant, PTL

\* The cursor that cursor ack saves names the record whose hash it
\* acknowledges, unless a write tore that line, and while nothing is damaged
\* that record is part of the committed chain.
THEOREM CursorStaysOnChain == ReadersSpec => []CursorOnChain
  <1>1. ReaderInv => CursorOnChain
    BY DEF ReaderInv, CursorInv, Anchored, CursorOnChain
  <1>2. QED
    BY <1>1, ReadersInvariant, PTL

\* get_event finds every event whose Append had returned before it was asked,
\* or reports the chain invalid; what it finds is that event and committed.
THEOREM GetEventFindsWhatWasAcked == ReadersSpec => []GetEventFindsAcked
  <1>1. ReaderInv => GetEventFindsAcked
    BY DEF ReaderInv, FindInv
  <1>2. QED
    BY <1>1, ReadersInvariant, PTL

-----------------------------------------------------------------------------
(* Tampering: what a line's neighbours say about it.                       *)

LEMMA GreatestOf ==
    ASSUME NEW n \in Nat, NEW T \in SUBSET (0 .. n), T # {}
    PROVE  \E x \in T : \A y \in T : y <= x
  <1> DEFINE U == {n - x : x \in T}
  <1>a. \A x \in T : x \in 0 .. n
    OBVIOUS
  <1>b. \A x \in T : n - x \in Nat
    BY <1>a
  <1>1. U \in SUBSET Nat /\ U # {}
    BY <1>b
  <1>2. PICK u \in U : \A y \in U : u <= y
    BY <1>1, LeastOf
  <1>3. PICK x \in T : u = n - x
    BY <1>2
  <1>4. ASSUME NEW y \in T PROVE y <= x
    <2>1. n - x <= n - y
      BY <1>2, <1>3
    <2>2. QED
      BY <2>1
  <1>5. QED
    BY <1>4

LEMMA PositionFacts ==
    ASSUME NEW F \in [SegIdx -> File], NEW q \in Positions(F)
    PROVE  /\ q = <<q[1], q[2]>>
           /\ q[1] \in SegIdx /\ q[1] \in Nat
           /\ q[2] \in 1 .. Len(F[q[1]].lines) /\ q[2] \in Nat
           /\ F[q[1]].lines \in Seq(Line) /\ Len(F[q[1]].lines) \in Nat
           /\ LineAt(F, q) \in Line
  <1>1. PICK k \in SegIdx : \E i \in 1 .. Len(F[k].lines) : q = <<k, i>>
    BY DEF Positions
  <1>2. PICK i \in 1 .. Len(F[k].lines) : q = <<k, i>>
    BY <1>1
  <1>3. F[k].lines \in Seq(Line) /\ Len(F[k].lines) \in Nat
    BY DEF File
  <1>4. F[k].lines[i] \in Line
    BY <1>2, <1>3
  <1>5. QED
    BY <1>2, <1>3, <1>4, SegIdxFacts DEF LineAt

LEMMA IsPosition ==
    ASSUME NEW F, NEW k \in SegIdx, NEW i \in 1 .. Len(F[k].lines)
    PROVE  <<k, i>> \in Positions(F)
  BY DEF Positions

\* streamFileRecords meets one of the lines Q last.
LEMMA LastOfLines ==
    ASSUME NEW F \in [SegIdx -> File], NEW Q \in SUBSET Positions(F), Q # {}
    PROVE  \E q \in Q : \A r \in Q : q = r \/ Before(r, q)
  <1>1. \A q \in Q : q[1] \in SegIdx /\ q[1] \in Nat /\ q[2] \in Nat
                        /\ q = <<q[1], q[2]>> /\ q[2] <= Len(F[q[1]].lines)
    BY PositionFacts
  <1> DEFINE K == {q[1] : q \in Q}
  <1>2. K \in SUBSET (0 .. (MaxIndex + 1)) /\ K # {} /\ MaxIndex + 1 \in Nat
    BY <1>1, ConstantsAssumption DEF SegIdx
  <1>3. PICK k \in K : \A j \in K : j <= k
    BY <1>2, GreatestOf
  <1> DEFINE I == {q[2] : q \in {r \in Q : r[1] = k}}
  <1>4. Len(F[k].lines) \in Nat
    BY <1>1, <1>3, PositionFacts
  <1>5. I \in SUBSET (0 .. Len(F[k].lines)) /\ I # {}
    BY <1>1, <1>3, <1>4
  <1>6. PICK i \in I : \A j \in I : j <= i
    BY <1>4, <1>5, GreatestOf
  <1>7. PICK q \in Q : q[1] = k /\ q[2] = i
    BY <1>6
  <1>8. ASSUME NEW r \in Q PROVE q = r \/ Before(r, q)
    <2>1. r[1] <= k /\ (r[1] = k => r[2] <= i)
      BY <1>3, <1>6
    <2>2. QED
      BY <1>1, <1>7, <2>1 DEF Before
  <1>9. QED
    BY <1>8

LEMMA BeforeOrder ==
    ASSUME NEW F \in [SegIdx -> File]
    PROVE  \A q, r \in Positions(F) :
              /\ q = r \/ Before(q, r) \/ Before(r, q)
              /\ ~(Before(q, r) /\ Before(r, q))
              /\ ~Before(q, q)
              /\ \A s \in Positions(F) :
                    Before(q, r) /\ Before(r, s) => Before(q, s)
  <1>1. \A q \in Positions(F) :
            q[1] \in Nat /\ q[2] \in Nat /\ q = <<q[1], q[2]>>
    BY PositionFacts
  <1>2. QED
    BY <1>1 DEF Before

LEMMA NextLine ==
    ASSUME NEW F \in [SegIdx -> File], NEW q \in Positions(F), ~IsLast(F, q)
    PROVE  \E r \in Positions(F) : Adjacent(F, q, r)
  <1> DEFINE Q == {r \in Positions(F) : Before(q, r)}
  <1>1. Q \in SUBSET Positions(F) /\ Q # {}
    BY DEF IsLast
  <1>2. PICK r \in Q : \A s \in Q : r = s \/ Before(r, s)
    BY <1>1, FirstOfLines
  <1>3. \A s \in Positions(F) : ~(Before(q, s) /\ Before(s, r))
    BY <1>2, BeforeOrder
  <1>4. QED
    BY <1>2, <1>3 DEF Adjacent

LEMMA PreviousLine ==
    ASSUME NEW F \in [SegIdx -> File], NEW q \in Positions(F), ~IsFirst(F, q)
    PROVE  \E r \in Positions(F) : Adjacent(F, r, q)
  <1> DEFINE Q == {r \in Positions(F) : Before(r, q)}
  <1>1. Q \in SUBSET Positions(F) /\ Q # {}
    BY DEF IsFirst
  <1>2. PICK r \in Q : \A s \in Q : r = s \/ Before(s, r)
    BY <1>1, LastOfLines
  <1>3. \A s \in Positions(F) : ~(Before(r, s) /\ Before(s, q))
    BY <1>2, BeforeOrder
  <1>4. QED
    BY <1>2, <1>3 DEF Adjacent

\* Two lines of a segment that follow each other.
LEMMA SegmentNeighbours ==
    ASSUME NEW F \in [SegIdx -> File], NEW k \in SegIdx,
           NEW i \in Nat \ {0}, i < Len(F[k].lines)
    PROVE  /\ <<k, i>> \in Positions(F) /\ <<k, i + 1>> \in Positions(F)
           /\ Adjacent(F, <<k, i>>, <<k, i + 1>>)
  <1>1. Len(F[k].lines) \in Nat /\ k \in Nat
    BY SegIdxFacts DEF File
  <1>2. i \in 1 .. Len(F[k].lines) /\ i + 1 \in 1 .. Len(F[k].lines)
    BY <1>1
  <1>3. Before(<<k, i>>, <<k, i + 1>>)
    BY <1>1 DEF Before
  <1>4. \A s \in Positions(F) : s[1] \in Nat /\ s[2] \in Nat
    BY PositionFacts
  <1>5. \A s \in Positions(F) :
            ~(Before(<<k, i>>, s) /\ Before(s, <<k, i + 1>>))
    BY <1>1, <1>4 DEF Before
  <1>6. QED
    BY <1>2, <1>3, <1>5, IsPosition DEF Adjacent

\* A record's hash is longer than the one it is linked to.
LEMMA HashIsLonger ==
    ASSUME NEW l \in Record, l.hash = ComputeHash(l.body, l.prev)
    PROVE  /\ l.hash # l.prev /\ l.hash # NoHash
           /\ Len(l.hash) = Len(l.prev) + 1 /\ Len(l.prev) \in Nat
  <1>1. l.prev \in HashVal /\ l.prev \in Seq({Canonical(b) : b \in Bodies})
    BY DEF Record, HashVal
  <1>2. Len(l.hash) = Len(l.prev) + 1 /\ Len(l.prev) \in Nat
    BY <1>1 DEF ComputeHash
  <1>3. Len(NoHash) = 0
    BY DEF NoHash
  <1>4. QED
    BY <1>2, <1>3

LEMMA HashesDiffer ==
    ASSUME NEW x \in HashVal, NEW b \in Bodies, NEW c \in Bodies,
           Canonical(b) # Canonical(c)
    PROVE  ComputeHash(b, x) # ComputeHash(c, x)
  <1> DEFINE C == {Canonical(a) : a \in Bodies}
             u == Canonical(b)
             v == Canonical(c)
  <1>1. x \in Seq(C) /\ u \in C /\ v \in C /\ u # v
    BY DEF HashVal
  <1> HIDE DEF C, u, v
  <1>2. Append(x, u)[Len(x) + 1] = u /\ Append(x, v)[Len(x) + 1] = v
    BY <1>1
  <1>3. Append(x, u) # Append(x, v)
    BY <1>1, <1>2
  <1>4. QED
    BY <1>3 DEF ComputeHash, u, v

\* A record that follows an unbroken chain was linked to its end: so a chain
\* that was broken, or did not end in the manifest's last hash, is not mended
\* by what a caller writes behind it, whole or cut off.
LEMMA WriteMendsNothing ==
    ASSUME NEW F \in [SegIdx -> File], NEW G, NEW m \in Manifest,
           NEW b \in Bodies, NEW l \in {NewRecord(b, m.lastHash), Torn},
           Written(F, G, m.current, l),
           F[m.current].open => F[m.current].lines # <<>>,
           NothingBehind(F, m), Linked(G)
    PROVE  Linked(F) /\ EndsIn(F, m.lastHash)
  <1> DEFINE r == NewRecord(b, m.lastHash)
             c == m.current
             q0 == <<c, Len(F[c].lines) + 1>>
  <1>1. c \in SegIdx /\ r \in Record /\ l \in Line
    BY NewRecordType DEF Manifest, Line
  <1>a. c \in Nat /\ Len(F[c].lines) \in Nat
    <2> HIDE DEF c
    <2>1. c \in Nat /\ F[c] \in File
      BY <1>1, SegIdxFacts
    <2>2. F[c].lines \in Seq(Line)
      BY <2>1 DEF File
    <2>3. QED
      BY <2>1, <2>2
  <1>2. \A q \in Positions(G) : LineAt(G, q) # Torn
    BY DEF Linked, LinesParse
  <1>3. ~F[c].open
    BY <1>1, <1>2, OpenWriteTears
  <1>4. /\ Positions(G) = Positions(F) \cup {q0}
        /\ q0 \notin Positions(F)
        /\ \A q \in Positions(F) : LineAt(G, q) = LineAt(F, q)
        /\ LineAt(G, q0) = l
    BY <1>1, <1>3, NewPosition DEF Written
  <1>5. l = r /\ l.prev = m.lastHash
    <2>1. l # Torn
      BY <1>2, <1>4
    <2>2. QED
      BY <2>1 DEF NewRecord
  <1>6. ASSUME NEW q \in Positions(F)
        PROVE  Before(q, q0) /\ ~Before(q0, q)
    <2>1. /\ q[1] \in SegIdx /\ q[1] \in Nat /\ q[2] \in Nat
          /\ q[2] \in 1 .. Len(F[q[1]].lines) /\ Len(F[q[1]].lines) \in Nat
      BY PositionFacts
    <2>2. c \in Nat /\ Len(F[c].lines) \in Nat
      BY <1>a
    <2>3. q[1] <= c
      <3>1. F[q[1]].lines # <<>>
        BY <2>1
      <3>2. ~(q[1] > c)
        BY <2>1, <3>1 DEF NothingBehind
      <3>3. QED
        BY <2>1, <2>2, <3>2
    <2>4. QED
      BY <2>1, <2>2, <2>3 DEF Before
  <1>7. ~Before(q0, q0)
    BY <1>a DEF Before
  <1> HIDE DEF q0, r, c
  <1>8. LinesParse(F) /\ HashesOk(F)
    BY <1>4 DEF Linked, LinesParse, HashesOk
  <1>9. LinksOk(F)
    <2>1. ASSUME NEW q \in Positions(F), IsFirst(F, q)
          PROVE  LineAt(F, q).prev = NoHash
      <3>1. IsFirst(G, q)
        BY <1>4, <1>6, <2>1 DEF IsFirst
      <3>2. QED
        BY <1>4, <3>1 DEF Linked, LinksOk
    <2>2. ASSUME NEW q \in Positions(F), NEW s \in Positions(F),
                 Adjacent(F, q, s)
          PROVE  LineAt(F, s).prev = LineAt(F, q).hash
      <3>1. Adjacent(G, q, s)
        BY <1>4, <1>6, <2>2 DEF Adjacent
      <3>2. QED
        BY <1>4, <3>1 DEF Linked, LinksOk
    <2>3. QED
      BY <2>1, <2>2 DEF LinksOk
  <1>10. EndsIn(F, m.lastHash)
    <2>1. ASSUME Positions(F) = {} PROVE m.lastHash = NoHash
      <3>1. IsFirst(G, q0)
        BY <1>4, <1>7, <2>1 DEF IsFirst
      <3>2. QED
        BY <1>4, <1>5, <3>1 DEF Linked, LinksOk
    <2>2. ASSUME NEW q \in Positions(F), IsLast(F, q)
          PROVE  m.lastHash = LineAt(F, q).hash
      <3>1. Adjacent(G, q, q0)
        BY <1>4, <1>6, <1>7, <2>2 DEF Adjacent, IsLast
      <3>2. QED
        BY <1>4, <1>5, <3>1 DEF Linked, LinksOk
    <2>3. QED
      BY <2>1, <2>2 DEF EndsIn
  <1>11. QED
    BY <1>8, <1>9, <1>10 DEF Linked

\* The lines of files G are those of F but the one at q, in the same order: mv
\* says where each of them went.
Renumbers(mv, F, G, q) ==
    /\ mv \in [Positions(F) \ {q} -> Positions(G)]
    /\ \A t \in Positions(G) : \E s \in Positions(F) \ {q} : t = mv[s]
    /\ \A s \in Positions(F) \ {q} : LineAt(G, mv[s]) = LineAt(F, s)
    /\ \A s, t \in Positions(F) \ {q} :
          Before(mv[s], mv[t]) <=> Before(s, t)

\* A chain that lost one record and is otherwise as before is no chain, or
\* ends in another hash.
LEMMA RemovedLineShows ==
    ASSUME NEW F \in [SegIdx -> File], NEW G, NEW h, NEW q \in Positions(F),
           LineAt(F, q) \in Record, Linked(F), EndsIn(F, h),
           \E mv : Renumbers(mv, F, G, q)
    PROVE  ~(Linked(G) /\ EndsIn(G, h))
  <1> SUFFICES ASSUME Linked(G), EndsIn(G, h) PROVE FALSE
    OBVIOUS
  <1> PICK mv : Renumbers(mv, F, G, q)
    OBVIOUS
  <1> USE DEF Renumbers
  <1> DEFINE l == LineAt(F, q)
             O == Positions(F) \ {q}
  <1>1. l.hash # l.prev /\ l.hash # NoHash
    BY HashIsLonger DEF Linked, HashesOk
  <1>2. \A s \in O : Before(s, q) \/ Before(q, s)
    BY BeforeOrder
  <1>3. CASE IsFirst(F, q) /\ IsLast(F, q)
    <2>1. O = {}
      BY <1>2, <1>3 DEF IsFirst, IsLast
    <2>2. Positions(G) = {}
      BY <2>1
    <2>3. QED
      BY <1>1, <1>3, <2>2 DEF EndsIn
  <1>4. CASE IsFirst(F, q) /\ ~IsLast(F, q)
    <2>1. PICK r \in Positions(F) : Adjacent(F, q, r)
      BY <1>4, NextLine
    <2>2. r \in O /\ LineAt(F, r).prev = l.hash
      BY <2>1, BeforeOrder DEF Adjacent, Linked, LinksOk
    <2>3. \A s \in O : ~Before(s, r)
      BY <1>2, <1>4, <2>1 DEF Adjacent, IsFirst
    <2>4. IsFirst(G, mv[r])
      BY <2>2, <2>3 DEF IsFirst
    <2>5. LineAt(G, mv[r]).prev = NoHash
      BY <2>2, <2>4 DEF Linked, LinksOk
    <2>6. QED
      BY <1>1, <2>2, <2>5
  <1>5. CASE ~IsFirst(F, q) /\ IsLast(F, q)
    <2>1. PICK p \in Positions(F) : Adjacent(F, p, q)
      BY <1>5, PreviousLine
    <2>2. p \in O /\ l.prev = LineAt(F, p).hash
      BY <2>1, BeforeOrder DEF Adjacent, Linked, LinksOk
    <2>3. \A s \in O : ~Before(p, s)
      BY <1>2, <1>5, <2>1 DEF Adjacent, IsLast
    <2>4. IsLast(G, mv[p])
      BY <2>2, <2>3 DEF IsLast
    <2>5. h = LineAt(G, mv[p]).hash
      BY <2>2, <2>4 DEF EndsIn
    <2>6. h = l.hash
      BY <1>5 DEF EndsIn
    <2>7. QED
      BY <1>1, <2>2, <2>5, <2>6
  <1>6. CASE ~IsFirst(F, q) /\ ~IsLast(F, q)
    <2>1. PICK p \in Positions(F) : Adjacent(F, p, q)
      BY <1>6, PreviousLine
    <2>2. PICK r \in Positions(F) : Adjacent(F, q, r)
      BY <1>6, NextLine
    <2>3. /\ p \in O /\ l.prev = LineAt(F, p).hash
          /\ r \in O /\ LineAt(F, r).prev = l.hash
      BY <2>1, <2>2, BeforeOrder DEF Adjacent, Linked, LinksOk
    <2>4. Before(p, r)
      BY <2>1, <2>2, BeforeOrder DEF Adjacent
    <2>5. \A s \in O : ~(Before(p, s) /\ Before(s, r))
      BY <1>2, <2>1, <2>2 DEF Adjacent
    <2>6. Adjacent(G, mv[p], mv[r])
      BY <2>3, <2>4, <2>5 DEF Adjacent
    <2>7. LineAt(G, mv[r]).prev = LineAt(G, mv[p]).hash
      BY <2>3, <2>6 DEF Linked, LinksOk
    <2>8. QED
      BY <1>1, <2>3, <2>7
  <1>7. QED
    BY <1>3, <1>4, <1>5, <1>6

-----------------------------------------------------------------------------
(* Tampering: the store that is edited, and each of the edits.             *)

\* A store nobody is using and no writer was cut off in: its files match
\* manifest.json.
LEMMA WholeStore ==
    ASSUME FullInv, ~damaged, lock = NoProc, Positions(files) # {}
    PROVE  /\ files \in [SegIdx -> File] /\ manifest \in Manifest
           /\ \A p \in Procs : pc[p] \in {"idle", "wait"}
           /\ Matches(files, manifest)
           /\ \A k \in SegIdx :
                 /\ files[k].exists <=> k <= manifest.current
                 /\ ~files[k].exists => files[k].lines = <<>>
                 /\ ~files[k].open
                 /\ files[k].lines \in Seq(Record)
           /\ \A q \in Positions(files) : LineAt(files, q) \in Record
           /\ Linked(files) /\ EndsIn(files, manifest.lastHash)
  <1>0. /\ StoreInv /\ TypeInv /\ LockInv /\ ShapeInv /\ ContentInv
    BY DEF FullInv, StoreInv
  <1>1. files \in [SegIdx -> File] /\ manifest \in Manifest \cup {NoManifest}
    BY <1>0 DEF TypeInv, TypeOK
  <1>2. ASSUME NEW p \in Procs PROVE pc[p] \in {"idle", "wait"}
    BY <1>0, ConstantsAssumption DEF LockInv
  <1>3. manifest # NoManifest
    <2>1. SUFFICES ASSUME manifest = NoManifest PROVE FALSE
      OBVIOUS
    <2>2. \A k \in SegIdx : files[k].lines = <<>>
      BY <1>0, <2>1 DEF ShapeInv, DiskShape, Blank, NoFile, EmptyFile
    <2>3. QED
      BY <2>2 DEF Positions
  <1>4. Matches(files, manifest)
    BY <1>0, <1>2, <1>3 DEF ContentInv, Uncommitted
  <1>5. \A k \in SegIdx :
            /\ files[k].exists <=> k <= manifest.current
            /\ ~files[k].exists => files[k].lines = <<>>
            /\ ~files[k].open
            /\ files[k].lines \in Seq(Record)
    BY <1>4 DEF Matches, Whole
  <1>6. \A q \in Positions(files) : LineAt(files, q) \in Record
    BY <1>0, UndamagedClosed
  <1>7. LinesParse(files)
    BY <1>6, TornAssumption DEF LinesParse
  <1>8. Linked(files) /\ EndsIn(files, manifest.lastHash)
    BY <1>4, <1>7 DEF Matches, Linked, TotalsOk, EndsIn
  <1>9. QED
    BY <1>1, <1>2, <1>3, <1>4, <1>5, <1>6, <1>8

\* Its records have hashes of their own: there are as many as the committed
\* chain is long, and one ends each part of it.
LEMMA HashesDistinct ==
    ASSUME FullInv, ~damaged, lock = NoProc,
           NEW s \in Positions(files), NEW t \in Positions(files),
           LineAt(files, s).hash = LineAt(files, t).hash
    PROVE  s = t
  <1> DEFINE Q == Positions(files)
             c == manifest.lastHash
             n == Len(c)
             f == [q \in Q |-> Len(LineAt(files, q).hash)]
  <1>0. /\ StoreInv /\ TypeInv /\ LockInv /\ ShapeInv /\ HistoryInv
    BY DEF FullInv, StoreInv
  <1>1. /\ manifest \in Manifest /\ manifest # NoManifest
        /\ \A p \in Procs : pc[p] \notin Uncommitted
        /\ Matches(files, manifest)
        /\ \A q \in Q : LineAt(files, q) \in Record
    BY WholeStore, ManifestAssumption DEF Uncommitted
  <1>2. c \in HashVal /\ n \in Nat
    BY <1>1 DEF Manifest, HashVal
  <1>3. Closed(files) = Q /\ IsFiniteSet(Q)
    BY <1>0, UndamagedClosed DEF ShapeInv, DiskShape
  <1>4. Cardinality(Q) = n
    BY <1>0, <1>1 DEF HistoryInv, Counts, Matches, TotalsOk
  <1>5. CommittedChain = c
    BY <1>1 DEF CommittedChain
  <1>6. ASSUME NEW q \in Q PROVE f[q] \in 1 .. n
    <2>1. L!IsPrefixOf(LineAt(files, q).hash, c)
      BY <1>0, <1>1, <1>5 DEF HistoryInv
    <2>2. /\ Len(LineAt(files, q).hash) = Len(LineAt(files, q).prev) + 1
          /\ Len(LineAt(files, q).prev) \in Nat
      BY <1>1, HashIsLonger DEF Matches, HashesOk
    <2>3. Len(LineAt(files, q).hash) <= n
      BY <2>1 DEF L!IsPrefixOf
    <2>4. QED
      BY <1>2, <2>2, <2>3
  <1>7. ASSUME NEW i \in 1 .. n PROVE \E q \in Q : f[q] = i
    <2>1. HoldsChain(files, c)
      BY <1>0, <1>5 DEF HistoryInv
    <2>2. PICK q \in Q : LineAt(files, q).hash = SubSeq(c, 1, i)
      BY <1>3, <2>1 DEF HoldsChain
    <2>3. Len(SubSeq(c, 1, i)) = i
      BY <1>2 DEF HashVal
    <2>4. QED
      BY <2>2, <2>3
  <1>8. f \in [Q -> 1 .. n]
    BY <1>6
  <1>9. f \in Surjection(Q, 1 .. n)
    BY <1>7, <1>8 DEF Surjection
  <1>10. Cardinality(1 .. n) = n
    BY <1>2, FS_Interval
  <1> HIDE DEF f, n, Q, c
  <1>11. f \in Injection(Q, 1 .. n)
    BY <1>3, <1>4, <1>9, <1>10, FS_SurjSameCardinalityImpliesInj
  <1>12. f[s] = f[t]
    BY DEF f, Q
  <1>13. QED
    BY <1>11, <1>12 DEF Injection, IsInjective, Q

\* An edit of segment k that leaves a flaw.
LEMMA FlawedEdit ==
    ASSUME FullInv, ~damaged, lock = NoProc,
           NEW k \in SegIdx, files[k].lines # <<>>,
           files' \in [SegIdx -> File],
           \A j \in SegIdx : j # k => files'[j] = files[j],
           ~files'[k].exists => files'[k].lines = <<>>, ~files'[k].open,
           UNCHANGED <<lock, manifest, pc, op, body, man, rec, res, ghost,
                       appends, faults>>,
           \/ ~(Linked(files') /\ EndsIn(files', manifest.lastHash))
           \/ Gap(files', manifest)
    PROVE  (TypeInv /\ LockInv /\ EditedInv)'
  <1>0. TypeInv /\ LockInv
    BY DEF FullInv, StoreInv
  <1>1. Positions(files) # {}
    <2>1. files[k].lines \in Seq(Line)
      BY <1>0 DEF TypeInv, TypeOK, File
    <2>2. 1 \in 1 .. Len(files[k].lines)
      BY <2>1
    <2>3. QED
      BY <2>2, IsPosition
  <1>2. /\ manifest \in Manifest /\ manifest # NoManifest
        /\ \A p \in Procs : pc[p] \in {"idle", "wait"}
        /\ \A j \in SegIdx :
              /\ files[j].exists <=> j <= manifest.current
              /\ ~files[j].exists => files[j].lines = <<>>
              /\ ~files[j].open
    BY <1>1, WholeStore, ManifestAssumption
  <1>3. LockInv'
    BY <1>0 DEF LockInv
  <1>4. TypeInv'
    BY <1>0 DEF TypeInv, TypeOK, LocalsInv, ghost
  <1>5. NothingBehind(files', manifest)
    <2>1. SUFFICES ASSUME NEW j \in SegIdx, j > manifest.current
                   PROVE  files'[j].lines = <<>>
      BY DEF NothingBehind
    <2>2. j \in Nat /\ manifest.current \in Nat
      BY <1>2, SegIdxFacts DEF Manifest
    <2>3. ~files[j].exists
      BY <1>2, <2>1, <2>2
    <2>4. j # k /\ files[j].lines = <<>>
      BY <1>2, <2>3
    <2>5. QED
      BY <2>4
  <1>6. EditedInv'
    <2>1. manifest' = manifest /\ pc' = pc /\ man' = man
      OBVIOUS
    <2>2. \A p \in Procs : pc'[p] \in {"idle", "wait"}
      BY <1>2, <2>1
    <2>3. \A j \in SegIdx : /\ ~files'[j].exists => files'[j].lines = <<>>
                            /\ files'[j].open => files'[j].lines # <<>>
      BY <1>2
    <2>4. QED
      BY <1>2, <1>5, <2>1, <2>2, <2>3 DEF EditedInv, Uncommitted
  <1>7. QED
    BY <1>3, <1>4, <1>6

\* What an edit leaves alone: everything but the segment files.
OnlyFiles ==
    UNCHANGED <<lock, manifest, pc, op, body, man, rec, res, ghost, appends,
                faults>>

\* Other lines in a segment, its size following them.
LEMMA EditedLines ==
    ASSUME FullInv, ~damaged, lock = NoProc, NEW q \in Positions(files),
           NEW ls \in Seq(Record), NEW d \in Int, files[q[1]].bytes + d >= 0,
           SetLines(q[1], ls, d)
    PROVE  /\ files' \in [SegIdx -> File]
           /\ files'[q[1]].lines = ls
           /\ files'[q[1]].exists /\ ~files'[q[1]].open
           /\ \A j \in SegIdx : j # q[1] => files'[j] = files[j]
           /\ q[1] \in SegIdx /\ files[q[1]].lines # <<>>
  <1> DEFINE k == q[1]
             g == [files[k] EXCEPT !.lines = ls, !.bytes = @ + d]
  <1>1. files \in [SegIdx -> File] /\ ~files[k].open
    BY WholeStore, PositionFacts
  <1>2. k \in SegIdx /\ files[k] \in File /\ files[k].lines # <<>>
    BY <1>1, PositionFacts
  <1>3. files[k].exists
    BY <1>2, WholeStore
  <1>4. ls \in Seq(Line)
    BY DEF Line
  <1>5. g \in File /\ g.lines = ls /\ g.exists /\ ~g.open
    <2> DEFINE f == files[k]
               n == f.bytes + d
    <2>1. f \in File /\ f.exists /\ ~f.open
      BY <1>1, <1>2, <1>3
    <2>2. f.bytes \in Nat
      BY <2>1 DEF File
    <2>3. n \in Nat
      BY <2>2
    <2>4. g = [f EXCEPT !.lines = ls, !.bytes = n]
      BY <2>1 DEF File
    <2> HIDE DEF f, n, g
    <2>5. QED
      BY <1>4, <2>1, <2>3, <2>4 DEF File
  <1>6. files' = [files EXCEPT ![k] = g]
    BY <1>1, <1>2 DEF SetLines
  <1> HIDE DEF g
  <1>7. QED
    BY <1>1, <1>2, <1>5, <1>6

\* One line is replaced by another.
LEMMA EditedLine ==
    ASSUME FullInv, SizeInv, ~damaged, lock = NoProc,
           NEW q \in Positions(files), NEW l \in Record, SetLine(q, l)
    PROVE  /\ files' \in [SegIdx -> File]
           /\ Positions(files') = Positions(files)
           /\ LineAt(files', q) = l
           /\ \A s \in Positions(files) :
                 s # q => LineAt(files', s) = LineAt(files, s)
           /\ files'[q[1]].exists /\ ~files'[q[1]].open
           /\ \A j \in SegIdx : j # q[1] => files'[j] = files[j]
           /\ q[1] \in SegIdx /\ files[q[1]].lines # <<>>
  <1> DEFINE k == q[1]
             i == q[2]
             o == LineAt(files, q)
             ls == [files[k].lines EXCEPT ![i] = l]
             d == l.body.bytes - o.body.bytes
  <1>1. /\ files \in [SegIdx -> File] /\ o \in Record
        /\ \A j \in SegIdx : files[j].lines \in Seq(Record)
    BY WholeStore
  <1>2. /\ k \in SegIdx /\ i \in 1 .. Len(files[k].lines) /\ q = <<k, i>>
        /\ files[k].lines \in Seq(Record) /\ files[k].bytes \in Nat
    BY <1>1, PositionFacts DEF File
  <1>3. ls \in Seq(Record) /\ Len(ls) = Len(files[k].lines)
    BY <1>2
  <1>4. l.body.bytes \in Nat /\ o.body.bytes \in Nat
    BY <1>1, BodiesAssumption DEF Record
  <1>5. o.body.bytes <= files[k].bytes
    BY DEF SizeInv
  <1> HIDE DEF o
  <1>6. d \in Int /\ files[k].bytes + d >= 0
    BY <1>2, <1>4, <1>5
  <1>7. SetLines(k, ls, d)
    BY DEF SetLine, o
  <1> HIDE DEF d
  <1>8. /\ files' \in [SegIdx -> File] /\ files'[k].lines = ls
        /\ files'[k].exists /\ ~files'[k].open
        /\ \A j \in SegIdx : j # k => files'[j] = files[j]
        /\ files[k].lines # <<>>
    BY <1>3, <1>6, <1>7, EditedLines
  <1>9. \A j \in SegIdx : Len(files'[j].lines) = Len(files[j].lines)
    BY <1>3, <1>8
  <1>10. Positions(files') = Positions(files)
    BY <1>9 DEF Positions
  <1>11. LineAt(files', q) = l
    BY <1>2, <1>8 DEF LineAt
  <1>12. ASSUME NEW s \in Positions(files), s # q
         PROVE  LineAt(files', s) = LineAt(files, s)
    <2>1. /\ s[1] \in SegIdx /\ s = <<s[1], s[2]>>
          /\ s[2] \in 1 .. Len(files[s[1]].lines)
      BY <1>1, PositionFacts
    <2>2. CASE s[1] = k
      <3>1. s[2] # i
        BY <1>2, <1>12, <2>1, <2>2
      <3>2. ls[s[2]] = files[k].lines[s[2]]
        BY <1>2, <2>1, <2>2, <3>1
      <3>3. QED
        BY <1>8, <2>2, <3>2 DEF LineAt
    <2>3. CASE s[1] # k
      BY <1>8, <2>1, <2>3 DEF LineAt
    <2>4. QED
      BY <2>2, <2>3
  <1>13. QED
    BY <1>2, <1>8, <1>10, <1>11, <1>12

\* A hashed field is changed: the line's hash is no longer that of its fields.
LEMMA HashedShows ==
    ASSUME FullInv, SizeInv, ~damaged, lock = NoProc,
           NEW q \in Positions(files), EditHashed(q), OnlyFiles
    PROVE  (TypeInv /\ LockInv /\ EditedInv)'
  <1> DEFINE o == LineAt(files, q)
  <1>1. PICK b \in Bodies : /\ Canonical(b) # Canonical(o.body)
                            /\ SetLine(q, [o EXCEPT !.body = b])
    BY DEF EditHashed
  <1> DEFINE l == [o EXCEPT !.body = b]
  <1>2. o \in Record /\ HashesOk(files)
    BY WholeStore DEF Linked
  <1>3. /\ l \in Record /\ l.body = b /\ l.prev = o.prev /\ l.hash = o.hash
        /\ o.prev \in HashVal /\ o.body \in Bodies
    BY <1>2 DEF Record
  <1>4. o.hash = ComputeHash(o.body, o.prev)
    BY <1>2 DEF HashesOk
  <1> HIDE DEF o, l
  <1>5. l.hash # ComputeHash(l.body, l.prev)
    BY <1>1, <1>3, <1>4, HashesDiffer
  <1>6. SetLine(q, l)
    BY <1>1 DEF l
  <1>7. /\ files' \in [SegIdx -> File] /\ Positions(files') = Positions(files)
        /\ LineAt(files', q) = l /\ files'[q[1]].exists /\ ~files'[q[1]].open
        /\ \A j \in SegIdx : j # q[1] => files'[j] = files[j]
        /\ q[1] \in SegIdx /\ files[q[1]].lines # <<>>
    BY <1>3, <1>6, EditedLine
  <1>8. ~Linked(files')
    BY <1>5, <1>7 DEF Linked, HashesOk
  <1>9. QED
    BY <1>7, <1>8, FlawedEdit DEF OnlyFiles

\* ... with the line's own hash brought up to date: the next line, or
\* manifest.json, still has the old one.
LEMMA RehashedShows ==
    ASSUME FullInv, SizeInv, ~damaged, lock = NoProc,
           NEW q \in Positions(files), EditRehashed(q), OnlyFiles
    PROVE  (TypeInv /\ LockInv /\ EditedInv)'
  <1> DEFINE o == LineAt(files, q)
             h == manifest.lastHash
  <1>1. PICK b \in Bodies : /\ Canonical(b) # Canonical(o.body)
                            /\ SetLine(q, NewRecord(b, o.prev))
    BY DEF EditRehashed
  <1> DEFINE l == NewRecord(b, o.prev)
  <1>2. /\ files \in [SegIdx -> File] /\ o \in Record
        /\ LinksOk(files) /\ HashesOk(files) /\ EndsIn(files, h)
    BY WholeStore DEF Linked
  <1>3. o.prev \in HashVal /\ o.body \in Bodies
    BY <1>2 DEF Record
  <1>4. l \in Record /\ l.hash = ComputeHash(b, o.prev)
    BY <1>3, NewRecordType DEF NewRecord
  <1>5. o.hash = ComputeHash(o.body, o.prev)
    BY <1>2 DEF HashesOk
  <1> HIDE DEF o, l
  <1>6. l.hash # o.hash
    BY <1>1, <1>3, <1>4, <1>5, HashesDiffer
  <1>7. SetLine(q, l)
    BY <1>1 DEF l
  <1>8. /\ files' \in [SegIdx -> File] /\ Positions(files') = Positions(files)
        /\ LineAt(files', q) = l /\ files'[q[1]].exists /\ ~files'[q[1]].open
        /\ \A s \in Positions(files) :
              s # q => LineAt(files', s) = LineAt(files, s)
        /\ \A j \in SegIdx : j # q[1] => files'[j] = files[j]
        /\ q[1] \in SegIdx /\ files[q[1]].lines # <<>>
    BY <1>4, <1>7, EditedLine
  <1>9. ~(Linked(files') /\ EndsIn(files', h))
    <2>1. CASE IsLast(files, q)
      <3>1. IsLast(files', q)
        BY <1>8, <2>1 DEF IsLast
      <3>2. h = o.hash
        BY <1>2, <2>1 DEF EndsIn, o
      <3>3. QED
        BY <1>6, <1>8, <3>1, <3>2 DEF EndsIn
    <2>2. CASE ~IsLast(files, q)
      <3>1. PICK r \in Positions(files) : Adjacent(files, q, r)
        BY <1>2, <2>2, NextLine
      <3>2. r # q
        BY <1>2, <3>1, BeforeOrder DEF Adjacent
      <3>3. LineAt(files', r).prev = o.hash
        BY <1>2, <1>8, <3>1, <3>2 DEF LinksOk, o
      <3>4. Adjacent(files', q, r)
        BY <1>8, <3>1 DEF Adjacent
      <3>5. QED
        BY <1>6, <1>8, <3>3, <3>4 DEF Linked, LinksOk
    <2>3. QED
      BY <2>1, <2>2
  <1>10. QED
    BY <1>8, <1>9, FlawedEdit DEF OnlyFiles

LEMMA InsertedLines ==
    ASSUME NEW S, NEW s \in Seq(S), NEW i \in 1 .. Len(s), NEW e \in S
    PROVE  /\ InsertAt(s, i, e) \in Seq(S)
           /\ Len(InsertAt(s, i, e)) = Len(s) + 1
           /\ InsertAt(s, i, e)[i] = e
           /\ InsertAt(s, i, e)[i + 1] = s[i]
  <1> DEFINE u == SubSeq(s, 1, i - 1)
             v == SubSeq(s, i, Len(s))
             w == u \o <<e>>
  <1>1. u \in Seq(S) /\ Len(u) = i - 1 /\ v \in Seq(S)
    OBVIOUS
  <1>2. Len(v) = Len(s) - i + 1 /\ v[1] = s[i]
    OBVIOUS
  <1> HIDE DEF u, v
  <1>3. w \in Seq(S) /\ Len(w) = i /\ w[i] = e
    BY <1>1
  <1> HIDE DEF w
  <1>4. /\ w \o v \in Seq(S) /\ Len(w \o v) = Len(s) + 1
        /\ (w \o v)[i] = e /\ (w \o v)[i + 1] = s[i]
    BY <1>1, <1>2, <1>3
  <1>5. QED
    BY <1>4 DEF InsertAt, u, v, w

LEMMA RemovedLines ==
    ASSUME NEW S, NEW s \in Seq(S), NEW i \in 1 .. Len(s)
    PROVE  /\ RemoveAt(s, i) \in Seq(S)
           /\ Len(RemoveAt(s, i)) = Len(s) - 1
           /\ \A j \in 1 .. (i - 1) : RemoveAt(s, i)[j] = s[j]
           /\ \A j \in i .. (Len(s) - 1) : RemoveAt(s, i)[j] = s[j + 1]
  <1> DEFINE u == SubSeq(s, 1, i - 1)
             v == SubSeq(s, i + 1, Len(s))
  <1>1. /\ u \in Seq(S) /\ Len(u) = i - 1
        /\ \A j \in 1 .. (i - 1) : u[j] = s[j]
    OBVIOUS
  <1>2. /\ v \in Seq(S) /\ Len(v) = Len(s) - i
        /\ \A j \in 1 .. (Len(s) - i) : v[j] = s[i + j]
    OBVIOUS
  <1> HIDE DEF u, v
  <1>3. u \o v \in Seq(S) /\ Len(u \o v) = Len(s) - 1
    BY <1>1, <1>2
  <1>4. \A j \in 1 .. (i - 1) : (u \o v)[j] = s[j]
    BY <1>1, <1>2
  <1>5. ASSUME NEW j \in i .. (Len(s) - 1)
        PROVE  (u \o v)[j] = s[j + 1]
    <2>1. (u \o v)[j] = v[j - i + 1]
      BY <1>1, <1>2
    <2>2. j - i + 1 \in 1 .. (Len(s) - i) /\ i + (j - i + 1) = j + 1
      OBVIOUS
    <2>3. QED
      BY <1>2, <2>1, <2>2
  <1>6. QED
    BY <1>3, <1>4, <1>5 DEF RemoveAt, u, v

\* A line is repeated: the copy is not linked to the line it repeats.
LEMMA DuplicateShows ==
    ASSUME FullInv, ~damaged, lock = NoProc,
           NEW q \in Positions(files), DuplicateLine(q), OnlyFiles
    PROVE  (TypeInv /\ LockInv /\ EditedInv)'
  <1> DEFINE o == LineAt(files, q)
             k == q[1]
             i == q[2]
             ls == InsertAt(files[k].lines, i, o)
  <1>1. /\ files \in [SegIdx -> File] /\ o \in Record /\ HashesOk(files)
        /\ \A j \in SegIdx : files[j].lines \in Seq(Record)
    BY WholeStore DEF Linked
  <1>2. /\ k \in SegIdx /\ i \in 1 .. Len(files[k].lines) /\ i \in Nat
        /\ files[k].lines \in Seq(Record) /\ files[k].bytes \in Nat
    BY <1>1, PositionFacts DEF File
  <1>3. o = files[k].lines[i] /\ o.body.bytes \in Nat
    BY <1>1, BodiesAssumption DEF LineAt, Record
  <1>4. o.hash # o.prev
    BY <1>1, HashIsLonger DEF HashesOk
  <1>5. SetLines(k, ls, o.body.bytes)
    BY DEF DuplicateLine
  <1> HIDE DEF o
  <1>6. /\ ls \in Seq(Record) /\ Len(ls) = Len(files[k].lines) + 1
        /\ ls[i] = o /\ ls[i + 1] = o
    <2> DEFINE os == files[k].lines
    <2>1. os \in Seq(Record) /\ i \in 1 .. Len(os) /\ o \in Record /\ os[i] = o
      BY <1>1, <1>2, <1>3
    <2> HIDE DEF os, k, i
    <2>2. /\ InsertAt(os, i, o) \in Seq(Record)
          /\ Len(InsertAt(os, i, o)) = Len(os) + 1
          /\ InsertAt(os, i, o)[i] = o
          /\ InsertAt(os, i, o)[i + 1] = os[i]
      BY <2>1, InsertedLines
    <2>3. QED
      BY <2>1, <2>2 DEF os
  <1> HIDE DEF ls
  <1>7. /\ files' \in [SegIdx -> File] /\ files'[k].lines = ls
        /\ files'[k].exists /\ ~files'[k].open
        /\ \A j \in SegIdx : j # k => files'[j] = files[j]
        /\ files[k].lines # <<>>
    <2> DEFINE x == o.body.bytes
               y == files[k].bytes
    <2>0. x \in Nat /\ y \in Nat
      BY <1>2, <1>3
    <2> HIDE DEF x, y
    <2>a. x \in Int /\ y + x >= 0
      BY <2>0
    <2>1. o.body.bytes \in Int /\ files[k].bytes + o.body.bytes >= 0
      BY <2>a DEF x, y
    <2>2. QED
      BY <1>5, <1>6, <2>1, EditedLines
  <1>8. ~Linked(files')
    <2>1. i < Len(files'[k].lines) /\ i \in Nat \ {0}
      BY <1>2, <1>6, <1>7
    <2>2. /\ <<k, i>> \in Positions(files') /\ <<k, i + 1>> \in Positions(files')
          /\ Adjacent(files', <<k, i>>, <<k, i + 1>>)
      BY <1>2, <1>7, <2>1, SegmentNeighbours
    <2>3. LineAt(files', <<k, i>>) = o /\ LineAt(files', <<k, i + 1>>) = o
      BY <1>6, <1>7 DEF LineAt
    <2>4. QED
      BY <1>4, <2>2, <2>3 DEF Linked, LinksOk
  <1>9. QED
    BY <1>2, <1>7, <1>8, FlawedEdit DEF OnlyFiles

\* Two neighbours change places: the second is not linked to the first.
LEMMA SwapShows ==
    ASSUME FullInv, ~damaged, lock = NoProc,
           NEW q \in Positions(files), SwapLines(q), OnlyFiles
    PROVE  (TypeInv /\ LockInv /\ EditedInv)'
  <1> DEFINE k == q[1]
             i == q[2]
             a == files[k].lines[i]
             b == files[k].lines[i + 1]
             ls == [files[k].lines EXCEPT ![i] = b, ![i + 1] = a]
  <1>1. /\ files \in [SegIdx -> File] /\ LinksOk(files) /\ HashesOk(files)
        /\ \A j \in SegIdx : files[j].lines \in Seq(Record)
    BY WholeStore DEF Linked
  <1>2. /\ k \in SegIdx /\ i \in 1 .. Len(files[k].lines)
        /\ i \in Nat \ {0} /\ i < Len(files[k].lines)
        /\ files[k].lines \in Seq(Record) /\ files[k].bytes \in Nat
    BY <1>1, PositionFacts DEF File, SwapLines
  <1>3. a \in Record /\ b \in Record
    BY <1>2
  <1>4. /\ <<k, i>> \in Positions(files) /\ <<k, i + 1>> \in Positions(files)
        /\ Adjacent(files, <<k, i>>, <<k, i + 1>>)
    BY <1>1, <1>2, SegmentNeighbours
  <1>5. /\ LineAt(files, <<k, i>>) = a /\ LineAt(files, <<k, i + 1>>) = b
        /\ b.prev = a.hash
    BY <1>1, <1>4 DEF LinksOk, LineAt
  <1>6. /\ a.hash = ComputeHash(a.body, a.prev)
        /\ b.hash = ComputeHash(b.body, b.prev)
    BY <1>1, <1>4, <1>5 DEF HashesOk
  <1>7. a.prev # b.hash
    <2> HIDE DEF a, b
    <2>1. /\ Len(a.hash) = Len(a.prev) + 1 /\ Len(a.prev) \in Nat
          /\ Len(b.hash) = Len(b.prev) + 1
      BY <1>3, <1>6, HashIsLonger
    <2>2. QED
      BY <1>5, <2>1
  <1>8. SetLines(k, ls, 0)
    BY DEF SwapLines
  <1> HIDE DEF a, b
  <1>9. /\ ls \in Seq(Record) /\ Len(ls) = Len(files[k].lines)
        /\ ls[i] = b /\ ls[i + 1] = a
    BY <1>2, <1>3
  <1> HIDE DEF ls
  <1>10. /\ files' \in [SegIdx -> File] /\ files'[k].lines = ls
         /\ files'[k].exists /\ ~files'[k].open
         /\ \A j \in SegIdx : j # k => files'[j] = files[j]
         /\ files[k].lines # <<>>
    <2>1. 0 \in Int /\ files[k].bytes + 0 >= 0
      BY <1>2
    <2>2. QED
      BY <1>8, <1>9, <2>1, EditedLines
  <1>11. ~Linked(files')
    <2>0. i < Len(files'[k].lines)
      BY <1>2, <1>9, <1>10
    <2>1. /\ <<k, i>> \in Positions(files') /\ <<k, i + 1>> \in Positions(files')
          /\ Adjacent(files', <<k, i>>, <<k, i + 1>>)
      BY <1>2, <1>10, <2>0, SegmentNeighbours
    <2>2. LineAt(files', <<k, i>>) = b /\ LineAt(files', <<k, i + 1>>) = a
      BY <1>9, <1>10 DEF LineAt
    <2>3. QED
      BY <1>7, <2>1, <2>2 DEF Linked, LinksOk
  <1>12. QED
    BY <1>2, <1>10, <1>11, FlawedEdit DEF OnlyFiles

\* A line is taken out of its segment: the lines behind it move up by one.
LEMMA DeletedPositions ==
    ASSUME NEW F \in [SegIdx -> File], NEW G \in [SegIdx -> File],
           NEW q \in Positions(F),
           G[q[1]].lines = RemoveAt(F[q[1]].lines, q[2]),
           \A j \in SegIdx : j # q[1] => G[j] = F[j]
    PROVE  \E mv : Renumbers(mv, F, G, q)
  <1> DEFINE k == q[1]
             i == q[2]
             n == Len(F[k].lines)
             O == Positions(F) \ {q}
             M(s) == IF s[1] = k /\ s[2] > i THEN <<k, s[2] - 1>> ELSE s
             mv == [s \in O |-> M(s)]
  <1>1. /\ k \in SegIdx /\ k \in Nat /\ i \in 1 .. n /\ i \in Nat /\ q = <<k, i>>
        /\ F[k].lines \in Seq(Line) /\ n \in Nat
    BY PositionFacts
  <1>2. /\ Len(G[k].lines) = n - 1
        /\ \A j \in 1 .. (i - 1) : G[k].lines[j] = F[k].lines[j]
        /\ \A j \in i .. (n - 1) : G[k].lines[j] = F[k].lines[j + 1]
    BY <1>1, RemovedLines
  <1>3. \A s \in Positions(F) :
            /\ s = <<s[1], s[2]>> /\ s[1] \in SegIdx /\ s[1] \in Nat
            /\ s[2] \in 1 .. Len(F[s[1]].lines) /\ s[2] \in Nat
    BY PositionFacts
  <1>4. \A s \in O : s[1] = k => s[2] # i
    BY <1>1, <1>3
  <1> HIDE DEF n
  <1>5. ASSUME NEW s \in O
        PROVE  M(s) \in Positions(G) /\ LineAt(G, M(s)) = LineAt(F, s)
    <2>1. CASE s[1] # k
      <3>1. G[s[1]] = F[s[1]] /\ M(s) = s
        BY <1>3, <2>1
      <3>2. s \in Positions(G)
        BY <1>3, <3>1, IsPosition
      <3>3. QED
        BY <3>1, <3>2 DEF LineAt
    <2>2. CASE s[1] = k /\ s[2] < i
      <3>1. s[2] \in 1 .. Len(G[k].lines) /\ s[2] \in 1 .. (i - 1)
        BY <1>1, <1>2, <1>3, <2>2
      <3>2. M(s) = <<k, s[2]>> /\ s = <<k, s[2]>>
        BY <1>1, <1>3, <2>2
      <3>3. <<k, s[2]>> \in Positions(G)
        BY <1>1, <3>1, IsPosition
      <3>4. G[k].lines[s[2]] = F[k].lines[s[2]]
        BY <1>2, <3>1
      <3>5. QED
        BY <3>2, <3>3, <3>4 DEF LineAt
    <2>3. CASE s[1] = k /\ s[2] > i
      <3>1. /\ s[2] - 1 \in 1 .. Len(G[k].lines)
            /\ s[2] - 1 \in i .. (n - 1) /\ (s[2] - 1) + 1 = s[2]
        BY <1>1, <1>2, <1>3, <2>3 DEF n
      <3>2. M(s) = <<k, s[2] - 1>> /\ s = <<k, s[2]>>
        BY <1>1, <1>3, <2>3
      <3>3. <<k, s[2] - 1>> \in Positions(G)
        BY <1>1, <3>1, IsPosition
      <3>4. G[k].lines[s[2] - 1] = F[k].lines[s[2]]
        BY <1>2, <3>1
      <3>5. QED
        BY <3>2, <3>3, <3>4 DEF LineAt
    <2>4. QED
      BY <1>1, <1>3, <1>4, <2>1, <2>2, <2>3
  <1>6. ASSUME NEW t \in Positions(G)
        PROVE  \E s \in O : t = M(s)
    <2>1. /\ t = <<t[1], t[2]>> /\ t[1] \in SegIdx
          /\ t[2] \in 1 .. Len(G[t[1]].lines) /\ t[2] \in Nat
      BY PositionFacts
    <2>2. CASE t[1] # k
      <3>1. t \in Positions(F)
        BY <2>1, <2>2, IsPosition
      <3>2. t \in O /\ M(t) = t
        BY <2>2, <3>1
      <3>3. QED
        BY <3>2
    <2>3. CASE t[1] = k /\ t[2] < i
      <3>1. t[2] \in 1 .. Len(F[k].lines)
        BY <1>1, <1>2, <2>1, <2>3 DEF n
      <3>2. t \in Positions(F)
        BY <1>1, <2>1, <2>3, <3>1, IsPosition
      <3>3. t \in O /\ M(t) = t
        BY <1>1, <2>1, <2>3, <3>2
      <3>4. QED
        BY <3>3
    <2>4. CASE t[1] = k /\ t[2] >= i
      <3> DEFINE s == <<k, t[2] + 1>>
      <3>1. t[2] + 1 \in 1 .. Len(F[k].lines)
        BY <1>1, <1>2, <2>1, <2>4 DEF n
      <3>2. s \in Positions(F)
        BY <1>1, <3>1, IsPosition
      <3>3. s[1] = k /\ s[2] = t[2] + 1 /\ s[2] > i /\ s # q
        BY <1>1, <2>1, <2>4
      <3>4. M(s) = <<k, t[2]>> /\ t = <<k, t[2]>>
        BY <2>1, <2>4, <3>3
      <3>5. QED
        BY <3>2, <3>3, <3>4
    <2>5. QED
      BY <1>1, <2>1, <2>2, <2>3, <2>4
  <1>7. ASSUME NEW s \in O, NEW t \in O
        PROVE  Before(M(s), M(t)) <=> Before(s, t)
    <2>1. /\ M(s)[1] = s[1] /\ M(t)[1] = t[1]
          /\ M(s)[2] = IF s[1] = k /\ s[2] > i THEN s[2] - 1 ELSE s[2]
          /\ M(t)[2] = IF t[1] = k /\ t[2] > i THEN t[2] - 1 ELSE t[2]
      OBVIOUS
    <2>2. /\ s[1] \in Nat /\ s[2] \in Nat /\ t[1] \in Nat /\ t[2] \in Nat
          /\ (s[1] = k => s[2] # i) /\ (t[1] = k => t[2] # i)
      BY <1>3, <1>4
    <2>3. s[1] = t[1] => (M(s)[2] < M(t)[2] <=> s[2] < t[2])
      BY <1>1, <2>1, <2>2
    <2> HIDE DEF M
    <2>4. QED
      BY <2>1, <2>3 DEF Before
  <1> HIDE DEF M
  <1>8. \A s \in O : mv[s] = M(s)
    OBVIOUS
  <1>9. mv \in [O -> Positions(G)]
    BY <1>5
  <1> HIDE DEF mv
  <1>10. \A t \in Positions(G) : \E s \in O : t = mv[s]
    BY <1>6, <1>8
  <1>11. \A s \in O : LineAt(G, mv[s]) = LineAt(F, s)
    BY <1>5, <1>8
  <1>12. \A s, t \in O : Before(mv[s], mv[t]) <=> Before(s, t)
    BY <1>7, <1>8
  <1>13. QED
    BY <1>9, <1>10, <1>11, <1>12 DEF Renumbers

\* ... so the lines around it no longer fit together.
LEMMA DeleteShows ==
    ASSUME FullInv, SizeInv, ~damaged, lock = NoProc,
           NEW q \in Positions(files), DeleteLine(q), OnlyFiles
    PROVE  (TypeInv /\ LockInv /\ EditedInv)'
  <1> DEFINE o == LineAt(files, q)
             k == q[1]
             ls == RemoveAt(files[k].lines, q[2])
             d == -o.body.bytes
             h == manifest.lastHash
  <1>1. /\ files \in [SegIdx -> File] /\ o \in Record
        /\ Linked(files) /\ EndsIn(files, h)
        /\ \A j \in SegIdx : files[j].lines \in Seq(Record)
    BY WholeStore
  <1>2. /\ k \in SegIdx /\ q[2] \in 1 .. Len(files[k].lines)
        /\ files[k].lines \in Seq(Record) /\ files[k].bytes \in Nat
    BY <1>1, PositionFacts DEF File
  <1>3. ls \in Seq(Record)
    BY <1>2, RemovedLines
  <1>4. o.body.bytes \in Nat /\ o.body.bytes <= files[k].bytes
    BY <1>1, BodiesAssumption DEF Record, SizeInv
  <1>5. SetLines(k, ls, d)
    BY DEF DeleteLine
  <1> HIDE DEF o
  <1>6. d \in Int /\ files[k].bytes + d >= 0
    BY <1>2, <1>4
  <1> HIDE DEF ls, d
  <1>7. /\ files' \in [SegIdx -> File] /\ files'[k].lines = ls
        /\ files'[k].exists /\ ~files'[k].open
        /\ \A j \in SegIdx : j # k => files'[j] = files[j]
        /\ files[k].lines # <<>>
    BY <1>3, <1>5, <1>6, EditedLines
  <1>8. ~(Linked(files') /\ EndsIn(files', h))
    <2>1. \E mv : Renumbers(mv, files, files', q)
      BY <1>1, <1>7, DeletedPositions DEF ls
    <2>2. QED
      BY <1>1, <2>1, RemovedLineShows DEF o
  <1>9. QED
    BY <1>2, <1>7, <1>8, FlawedEdit DEF OnlyFiles

\* A segment is removed: the list of segments has a hole, or, when it was the
\* current one, the lines that are left do not end in the last hash.
LEMMA SegmentShows ==
    ASSUME FullInv, ~damaged, lock = NoProc,
           NEW q \in Positions(files), DeleteSegment(q), OnlyFiles
    PROVE  (TypeInv /\ LockInv /\ EditedInv)'
  <1> DEFINE k == q[1]
             h == manifest.lastHash
  <1>1. /\ files \in [SegIdx -> File] /\ manifest \in Manifest
        /\ Linked(files) /\ EndsIn(files, h)
        /\ \A j \in SegIdx :
              /\ files[j].exists <=> j <= manifest.current
              /\ ~files[j].exists => files[j].lines = <<>>
        /\ \A s \in Positions(files) : LineAt(files, s) \in Record
    BY WholeStore
  <1>2. /\ k \in SegIdx /\ k \in Nat /\ files[k].lines # <<>>
        /\ manifest.current \in SegIdx /\ manifest.current \in Nat
    BY <1>1, PositionFacts, SegIdxFacts DEF Manifest
  <1>3. files' = [files EXCEPT ![k] = NoFile]
    BY DEF DeleteSegment
  <1>4. /\ files' \in [SegIdx -> File] /\ files'[k] = NoFile
        /\ \A j \in SegIdx : j # k => files'[j] = files[j]
    BY <1>1, <1>2, <1>3, FileType
  <1>5. ~files'[k].exists /\ files'[k].lines = <<>> /\ ~files'[k].open
    BY <1>4 DEF NoFile
  <1>6. k <= manifest.current
    BY <1>1, <1>2
  <1>7. CASE k < manifest.current
    <2>1. files'[manifest.current].exists
      BY <1>1, <1>2, <1>4, <1>7
    <2>2. Gap(files', manifest)
      BY <1>2, <1>5, <1>7, <2>1 DEF Gap
    <2>3. QED
      BY <1>2, <1>4, <1>5, <2>2, FlawedEdit DEF OnlyFiles
  <1>8. CASE k = manifest.current
    <2>1. PICK z \in Positions(files) :
              \A r \in Positions(files) : z = r \/ Before(r, z)
      BY <1>1, LastOfLines
    <2>2. IsLast(files, z)
      BY <1>1, <2>1, BeforeOrder DEF IsLast
    <2>3. h = LineAt(files, z).hash /\ h # NoHash
      <3>1. h = LineAt(files, z).hash
        BY <1>1, <2>2 DEF EndsIn
      <3>2. LineAt(files, z).hash # NoHash
        BY <1>1, HashIsLonger DEF Linked, HashesOk
      <3>3. QED
        BY <3>1, <3>2
    <2>4. z[1] = k
      <3>1. /\ z[1] \in Nat /\ z[2] \in Nat /\ z[1] \in SegIdx
            /\ files[z[1]].lines # <<>>
        BY <1>1, PositionFacts
      <3>2. z[1] <= manifest.current
        BY <1>1, <3>1
      <3>3. z[1] >= k
        BY <1>2, <2>1, <3>1 DEF Before
      <3>4. QED
        BY <1>2, <1>8, <3>1, <3>2, <3>3
    <2>5. ASSUME NEW s \in Positions(files')
          PROVE  /\ s \in Positions(files) /\ s[1] # k
                 /\ LineAt(files', s) = LineAt(files, s)
      <3>1. /\ s = <<s[1], s[2]>> /\ s[1] \in SegIdx
            /\ s[2] \in 1 .. Len(files'[s[1]].lines)
            /\ files'[s[1]].lines # <<>>
        BY <1>4, PositionFacts
      <3>2. s[1] # k
        BY <1>5, <3>1
      <3>3. files'[s[1]] = files[s[1]]
        BY <1>4, <3>1, <3>2
      <3>4. s \in Positions(files)
        BY <3>1, <3>3, IsPosition
      <3>5. QED
        BY <3>2, <3>3, <3>4 DEF LineAt
    <2>6. ~EndsIn(files', h)
      <3>1. CASE Positions(files') = {}
        BY <2>3, <3>1 DEF EndsIn
      <3>2. CASE Positions(files') # {}
        <4>1. PICK w \in Positions(files') :
                  \A r \in Positions(files') : w = r \/ Before(r, w)
          BY <1>4, <3>2, LastOfLines
        <4>2. IsLast(files', w)
          BY <1>4, <4>1, BeforeOrder DEF IsLast
        <4>3. LineAt(files, w).hash # h
          BY <2>3, <2>4, <2>5, HashesDistinct
        <4>4. QED
          BY <2>5, <4>2, <4>3 DEF EndsIn
      <3>3. QED
        BY <3>1, <3>2
    <2>7. QED
      BY <1>2, <1>4, <1>5, <2>6, FlawedEdit DEF OnlyFiles
  <1>9. QED
    BY <1>2, <1>6, <1>7, <1>8

-----------------------------------------------------------------------------
(* Tampering: the calls before and after the edit.                         *)

LEMMA SizeStep == StoreInv /\ SizeInv /\ [Next]_vars => SizeInv'
  <1> SUFFICES ASSUME StoreInv, SizeInv, [Next]_vars, ~damaged' PROVE SizeInv'
    BY DEF SizeInv
  <1>0. TypeInv /\ ShapeInv
    BY DEF StoreInv
  <1>a. files \in [SegIdx -> File] /\ damaged \in BOOLEAN
    BY <1>0 DEF TypeInv, TypeOK
  <1>1. ASSUME ~damaged,
               \A k \in SegIdx : files'[k] = files[k] \/ files'[k].lines = <<>>
        PROVE  SizeInv'
    <2>1. SUFFICES ASSUME NEW q \in Positions(files')
                   PROVE  LineAt(files', q).body.bytes <= files'[q[1]].bytes
      BY DEF SizeInv
    <2>2. PICK k \in SegIdx : \E i \in 1 .. Len(files'[k].lines) : q = <<k, i>>
      BY <2>1 DEF Positions
    <2>3. files'[k] = files[k]
      BY <1>1, <2>2
    <2>4. q \in Positions(files) /\ q[1] = k
      BY <2>2, <2>3 DEF Positions
    <2>5. QED
      BY <1>1, <2>3, <2>4 DEF SizeInv, LineAt
  <1>2. ASSUME NEW p \in Procs, Write(p) PROVE SizeInv'
    <2> DEFINE m == man[p]
               r == NewRecord(body[p], m.lastHash)
               c == m.current
               f == AppendLine(files[c], r)
               q0 == <<c, Len(files[c].lines) + 1>>
    <2>1. m \in Manifest /\ body[p] \in Bodies
      BY <1>0, <1>2 DEF Write, TypeInv, LocalsInv, Loaded
    <2>2. c \in SegIdx /\ files[c] \in File /\ r \in Record /\ r \in Line
      BY <1>a, <2>1, NewRecordType DEF Manifest, Line
    <2>3. files' = [files EXCEPT ![c] = f] /\ ~damaged
      BY <1>2 DEF Write, ghost
    <2>4. /\ f.lines = LinesWith(files[c], r)
          /\ f.bytes = files[c].bytes + r.body.bytes
      BY DEF AppendLine
    <2>5. r.body.bytes \in Nat /\ files[c].bytes \in Nat
      BY <2>2, BodiesAssumption DEF Record, File
    <2> HIDE DEF f, r, m
    <2>6. files'[c] = f /\ \A k \in SegIdx : k # c => files'[k] = files[k]
      BY <1>a, <2>2, <2>3
    <2>7. ~files[c].open
      BY <2>2, <2>3, UndamagedClosed
    <2>8. /\ Positions(files') = Positions(files) \cup {q0}
          /\ \A q \in Positions(files) : LineAt(files', q) = LineAt(files, q)
          /\ LineAt(files', q0) = r
      BY <1>a, <2>2, <2>4, <2>6, <2>7, NewPosition
    <2>9. ASSUME NEW q \in Positions(files)
          PROVE  LineAt(files', q).body.bytes <= files'[q[1]].bytes
      <3>1. LineAt(files, q).body.bytes <= files[q[1]].bytes
        BY <2>3 DEF SizeInv
      <3>2. q[1] \in SegIdx /\ LineAt(files, q) \in Record
        BY <1>a, <2>3, PositionFacts, UndamagedClosed
      <3>3. LineAt(files, q).body.bytes \in Nat
        BY <3>2, BodiesAssumption DEF Record
      <3>4. CASE q[1] = c
        <4> DEFINE x == LineAt(files, q).body.bytes
        <4>1. x <= files[c].bytes /\ x \in Nat
          BY <3>1, <3>3, <3>4
        <4> HIDE DEF x
        <4>2. x <= files[c].bytes + r.body.bytes
          BY <2>5, <4>1
        <4>3. QED
          BY <2>4, <2>6, <2>8, <3>4, <4>2 DEF x
      <3>5. CASE q[1] # c
        BY <2>6, <2>8, <3>1, <3>2, <3>5
      <3>6. QED
        BY <3>4, <3>5
    <2>10. LineAt(files', q0).body.bytes <= files'[q0[1]].bytes
      <3>1. q0[1] = c
        OBVIOUS
      <3> HIDE DEF q0
      <3>2. r.body.bytes <= files[c].bytes + r.body.bytes
        BY <2>5
      <3>3. QED
        BY <2>4, <2>6, <2>8, <3>1, <3>2
    <2> HIDE DEF q0
    <2>11. QED
      BY <2>8, <2>9, <2>10 DEF SizeInv
  <1>3. ASSUME NEW p \in Procs, Load(p) PROVE SizeInv'
    <2>1. UNCHANGED files \/ files' = [files EXCEPT ![1] = EmptyFile]
      BY <1>3 DEF Load
    <2>2. \A k \in SegIdx : files'[k] = files[k] \/ files'[k].lines = <<>>
      BY <1>a, <2>1 DEF EmptyFile
    <2>3. ~damaged
      BY <1>3 DEF Load, ghost
    <2>4. QED
      BY <1>1, <2>2, <2>3
  <1>4. ASSUME NEW p \in Procs, Rotate(p) PROVE SizeInv'
    <2>1. NamesOrdered(files) /\ ~damaged
      BY <1>4 DEF Rotate
    <2>2. PICK k \in SegIdx : files' = [files EXCEPT ![k + 1] = EmptyFile]
      BY <1>4, <2>1 DEF Rotate
    <2>3. \A j \in SegIdx : files'[j] = files[j] \/ files'[j].lines = <<>>
      BY <1>a, <2>2 DEF EmptyFile
    <2>4. QED
      BY <1>1, <2>1, <2>3
  <1>5. ASSUME UNCHANGED files, ~damaged PROVE SizeInv'
    BY <1>1, <1>5
  <1>6. ASSUME NEW p \in Procs,
               \/ Acquire(p) \/ Busy(p) \/ LockError(p) \/ Create(p) \/ Save(p)
               \/ Validate(p) \/ Return(p) \/ SkipRotation(p)
               \/ Fail(p) \/ Crash(p)
        PROVE  SizeInv'
    <2>1. UNCHANGED files
      BY <1>6 DEF Acquire, Busy, LockError, Create, Save, Validate, Return,
         SkipRotation, Fail, Crash, disk
    <2>2. ~damaged
      BY <1>6, Zenon DEF Acquire, Busy, LockError, Create, Save, Validate, Return,
         SkipRotation, Fail, Crash, ghost
    <2>3. QED
      BY <1>5, <2>1, <2>2
  <1>7. ASSUME NEW p \in Procs, PartialWrite(p) PROVE SizeInv'
    BY <1>7 DEF PartialWrite
  <1>8. ASSUME NEW p \in Procs, NEW o \in Ops, NEW b \in Bodies \cup {NoBody},
               Call(p, o, b)
        PROVE  SizeInv'
    BY <1>5, <1>8 DEF Call, disk, ghost
  <1>9. CASE UNCHANGED vars
    BY <1>5, <1>9 DEF vars
  <1>10. QED
    BY <1>2, <1>3, <1>4, <1>6, <1>7, <1>8, <1>9 DEF Next, Step, Fault

\* Between calls and within them, something is wrong.
LEMMA StillFlawed ==
    ASSUME EditedInv
    PROVE  \/ ~(Linked(files) /\ EndsIn(files, manifest.lastHash))
           \/ Gap(files, manifest)
  BY DEF EditedInv

LEMMA QuietEdited ==
    ASSUME EditedInv, UNCHANGED <<files, manifest>>,
           \A q \in Procs :
               /\ pc'[q] # "create"
               /\ pc'[q] = "write" => man'[q] = manifest
               /\ pc'[q] \in Uncommitted =>
                     pc[q] \in Uncommitted /\ man'[q] = man[q]
    PROVE  EditedInv'
  BY StillFlawed DEF EditedInv

\* Only the lock holder is inside a call.
LEMMA OthersIdle ==
    ASSUME LockInv, NEW p \in Procs, pc[p] \notin {"idle", "wait"}
    PROVE  \A q \in Procs : q # p => pc[q] \in {"idle", "wait"}
  BY DEF LockInv

\* A line behind the others, whole or cut off, counted or not.
LEMMA EditedWrite ==
    ASSUME TypeInv, EditedInv, NEW p \in Procs, pc[p] = "write",
           NEW l \in {NewRecord(body[p], man[p].lastHash), Torn},
           NEW f \in File, f.exists, f.open => f.lines # <<>>,
           f.lines = LinesWith(files[man[p].current], l),
           files' = [files EXCEPT ![man[p].current] = f],
           \A q \in Procs : pc[q] \notin Uncommitted
    PROVE  /\ man[p] = manifest /\ man[p] \in Manifest
           /\ NothingBehind(files', manifest)
           /\ ~Linked(files') \/ Gap(files', manifest)
           /\ \A k \in SegIdx :
                 /\ ~files'[k].exists => files'[k].lines = <<>>
                 /\ files'[k].open => files'[k].lines # <<>>
  <1> DEFINE c == manifest.current
  <1>1. man[p] = manifest /\ man[p] \in Manifest /\ body[p] \in Bodies
    BY DEF EditedInv, TypeInv, LocalsInv, Loaded
  <1>2. files \in [SegIdx -> File] /\ c \in SegIdx
    BY <1>1 DEF TypeInv, TypeOK, Manifest
  <1>3. files'[c] = f /\ \A k \in SegIdx : k # c => files'[k] = files[k]
    BY <1>1, <1>2
  <1>4. \A k \in SegIdx : /\ ~files'[k].exists => files'[k].lines = <<>>
                          /\ files'[k].open => files'[k].lines # <<>>
    BY <1>3 DEF EditedInv
  <1>5. NothingBehind(files', manifest)
    BY <1>2, <1>3, SegIdxFacts DEF EditedInv, NothingBehind
  <1>6. ~Linked(files') \/ Gap(files', manifest)
    <2>1. CASE Gap(files, manifest)
      <3>1. PICK k \in SegIdx : k < c /\ ~files[k].exists
        BY <2>1 DEF Gap
      <3>2. k # c
        BY <1>2, <3>1, SegIdxFacts
      <3>3. ~files'[k].exists /\ files'[c].exists
        BY <1>3, <3>1, <3>2
      <3>4. QED
        BY <3>1, <3>3 DEF Gap
    <2>2. CASE ~(Linked(files) /\ EndsIn(files, manifest.lastHash))
      <3>1. Written(files, files', c, l)
        BY <1>1, <1>3 DEF Written
      <3>2. NothingBehind(files, manifest)
        BY DEF EditedInv
      <3>3. files[c].open => files[c].lines # <<>>
        BY <1>2 DEF EditedInv
      <3>4. l \in {NewRecord(body[p], manifest.lastHash), Torn}
        BY <1>1
      <3>5. QED
        BY <1>1, <1>2, <2>2, <3>1, <3>2, <3>3, <3>4, WriteMendsNothing
    <2>3. QED
      BY <2>1, <2>2, StillFlawed
  <1>7. QED
    BY <1>1, <1>4, <1>5, <1>6

LEMMA EditedStep ==
    TypeInv /\ LockInv /\ EditedInv /\ [Next]_vars => EditedInv'
  <1> SUFFICES ASSUME TypeInv, LockInv, EditedInv, [Next]_vars
               PROVE  EditedInv'
    OBVIOUS
  <1>a. /\ files \in [SegIdx -> File] /\ manifest \in Manifest
        /\ pc \in [Procs -> Steps]
        /\ man \in [Procs -> Manifest \cup {NoManifest}]
    BY DEF TypeInv, TypeOK, EditedInv
  <1>b. \A q \in Procs : pc[q] # "create" /\ (pc[q] = "write" => man[q] = manifest)
    BY DEF EditedInv
  <1>1. ASSUME NEW p \in Procs, Write(p) PROVE EditedInv'
    <2> DEFINE m == man[p]
               r == NewRecord(body[p], m.lastHash)
               f == AppendLine(files[m.current], r)
    <2>1. pc[p] = "write" /\ m \in Manifest /\ body[p] \in Bodies
      BY <1>1 DEF Write, TypeInv, LocalsInv, Loaded
    <2>2. r \in Record /\ files[m.current] \in File
      BY <1>a, <2>1, NewRecordType DEF Manifest
    <2>3. /\ f \in File /\ f.exists /\ ~f.open
          /\ f.lines = LinesWith(files[m.current], r)
      BY <2>2, AppendLineType DEF AppendLine
    <2>4. /\ files' = [files EXCEPT ![m.current] = f]
          /\ man' = [man EXCEPT ![p] = Counted(m, r)]
          /\ manifest' = manifest
          /\ \A q \in Procs : q # p => pc'[q] = pc[q]
          /\ pc'[p] \in Uncommitted
      BY <1>1, <1>a DEF Write, Uncommitted
    <2>5. \A q \in Procs : q # p => pc[q] \in {"idle", "wait"}
      BY <2>1, OthersIdle
    <2>6. \A q \in Procs : pc[q] \notin Uncommitted
      BY <2>1, <2>5 DEF Uncommitted
    <2> HIDE DEF f
    <2>7. /\ m = manifest /\ NothingBehind(files', manifest)
          /\ ~Linked(files') \/ Gap(files', manifest)
          /\ \A k \in SegIdx :
                /\ ~files'[k].exists => files'[k].lines = <<>>
                /\ files'[k].open => files'[k].lines # <<>>
      BY <2>1, <2>3, <2>4, <2>6, EditedWrite
    <2>8. man'[p] = Counted(m, r) /\ Counted(m, r).current = m.current
      BY <1>a, <2>1, <2>4 DEF Counted, Manifest
    <2>9. NothingBehind(files', man'[p]) /\ man'[p].current = manifest.current
      BY <2>7, <2>8 DEF NothingBehind
    <2>10. \A q \in Procs :
              /\ pc'[q] # "create" /\ pc'[q] # "write"
              /\ pc'[q] \in Uncommitted => q = p
      BY <2>4, <2>5 DEF Uncommitted
    <2> HIDE DEF m, r
    <2>11. QED
      BY <1>a, <2>4, <2>7, <2>9, <2>10, ManifestAssumption DEF EditedInv
  <1>2. ASSUME NEW p \in Procs, PartialWrite(p) PROVE EditedInv'
    <2> DEFINE m == man[p]
               r == NewRecord(body[p], m.lastHash)
    <2>1. pc[p] = "write" /\ m \in Manifest /\ body[p] \in Bodies
      BY <1>2 DEF PartialWrite, TypeInv, LocalsInv, Loaded
    <2>2. r \in Record /\ files[m.current] \in File /\ m.current \in SegIdx
      BY <1>a, <2>1, NewRecordType DEF Manifest
    <2> HIDE DEF r
    <2>3. PICK n \in 1 .. (r.body.bytes - 1) :
              files' = [files EXCEPT ![m.current] =
                           PartialLine(files[m.current], r, n)]
      BY <1>2 DEF PartialWrite, r
    <2> DEFINE l == IF n = r.body.bytes - 1 THEN r ELSE Torn
               f == PartialLine(files[m.current], r, n)
    <2>4. /\ f \in File /\ f.exists /\ l \in {r, Torn} /\ l \in Line
          /\ f.lines = LinesWith(files[m.current], l)
      BY <2>2, PartialLineType DEF PartialLine, Line
    <2>5. files' = [files EXCEPT ![m.current] = f]
      BY <2>3
    <2> HIDE DEF l, f
    <2>6. f.lines # <<>>
      <3>1. files[m.current].open => files[m.current].lines # <<>>
        BY <2>2 DEF EditedInv
      <3>2. files[m.current].lines \in Seq(Line)
        BY <2>2 DEF File
      <3>3. CASE files[m.current].open
        <4>1. Len(files[m.current].lines) # 0
          BY <3>1, <3>2, <3>3
        <4>2. Len(f.lines) = Len(files[m.current].lines)
          BY <2>4, <3>2, <3>3 DEF LinesWith
        <4>3. QED
          BY <4>1, <4>2
      <3>4. CASE ~files[m.current].open
        BY <2>4, <3>2, <3>4 DEF LinesWith
      <3>5. QED
        BY <3>3, <3>4
    <2>7. /\ manifest' = manifest /\ pc'[p] = "release"
          /\ \A q \in Procs : q # p => pc'[q] = pc[q]
      BY <1>2, <1>a DEF PartialWrite, Leave
    <2>8. \A q \in Procs : q # p => pc[q] \in {"idle", "wait"}
      BY <2>1, OthersIdle
    <2>9. \A q \in Procs : pc[q] \notin Uncommitted
      BY <2>1, <2>8 DEF Uncommitted
    <2>10. /\ NothingBehind(files', manifest)
           /\ ~Linked(files') \/ Gap(files', manifest)
           /\ \A k \in SegIdx :
                 /\ ~files'[k].exists => files'[k].lines = <<>>
                 /\ files'[k].open => files'[k].lines # <<>>
      BY <2>1, <2>4, <2>5, <2>6, <2>9, EditedWrite DEF r
    <2>11. \A q \in Procs : pc'[q] \in {"idle", "wait", "release"}
      BY <2>7, <2>8
    <2>12. QED
      BY <1>a, <2>7, <2>10, <2>11, ManifestAssumption DEF EditedInv, Uncommitted
  <1>3. ASSUME NEW p \in Procs, Rotate(p), NamesOrdered(files)
        PROVE  EditedInv'
    <2>1. PICK k \in SegIdx :
              /\ IsLastName(files, k)
              /\ files' = [files EXCEPT ![k + 1] = EmptyFile]
              /\ man' = [man EXCEPT ![p] = Rotated(man[p], k + 1)]
      BY <1>3 DEF Rotate
    <2>2. k + 1 \in SegIdx /\ k \in Nat
      BY <1>3, <2>1, SegIdxFacts DEF NamesOrdered, IsLastName
    <2>3. pc[p] = "rotate" /\ man[p] \in Manifest
      BY <1>3 DEF Rotate, TypeInv, LocalsInv, Loaded
    <2>4. \A j \in SegIdx : j > k => ~files[j].exists /\ files[j].lines = <<>>
      <3>1. SUFFICES ASSUME NEW j \in SegIdx, j > k PROVE ~files[j].exists
        BY DEF EditedInv
      <3>2. j \in Nat
        BY SegIdxFacts
      <3>3. QED
        BY <2>1, <2>2, <3>1, <3>2 DEF IsLastName
    <2>5. \A j \in SegIdx : files'[j].lines = files[j].lines
      BY <1>a, <2>1, <2>2, <2>4 DEF EmptyFile
    <2>6. \A j \in SegIdx : /\ ~files'[j].exists => files'[j].lines = <<>>
                            /\ files'[j].open => files'[j].lines # <<>>
      BY <1>a, <2>1, <2>2 DEF EmptyFile, EditedInv
    <2>7. Positions(files') = Positions(files)
      BY <2>5 DEF Positions
    <2>8. \A q \in Positions(files) : LineAt(files', q) = LineAt(files, q)
      BY <1>a, <2>5, PositionFacts DEF LineAt
    <2>9. ~Gap(files, manifest)
      <3>1. manifest.current \in SegIdx /\ manifest.current \in Nat
        BY <1>a, SegIdxFacts DEF Manifest
      <3>2. SUFFICES ASSUME NEW j \in SegIdx, j < manifest.current,
                            ~files[j].exists, files[manifest.current].exists
                     PROVE  FALSE
        BY DEF Gap
      <3>3. j \in 1 .. manifest.current
        BY <3>1, <3>2, ConstantsAssumption DEF SegIdx
      <3>4. QED
        BY <1>3, <3>1, <3>2, <3>3 DEF NamesOrdered
    <2>10. ~Linked(files)
      BY <2>3, <2>9 DEF EditedInv, Uncommitted
    <2>11. ~Linked(files')
      <3>1. \A q, s : /\ IsFirst(files', q) <=> IsFirst(files, q)
                      /\ Adjacent(files', q, s) <=> Adjacent(files, q, s)
        BY <2>7 DEF IsFirst, Adjacent
      <3>2. LinksOk(files') => LinksOk(files)
        BY <2>7, <2>8, <3>1 DEF LinksOk
      <3>3. LinesParse(files') => LinesParse(files)
        BY <2>7, <2>8 DEF LinesParse
      <3>4. HashesOk(files') => HashesOk(files)
        BY <2>7, <2>8 DEF HashesOk
      <3>5. QED
        BY <2>10, <3>2, <3>3, <3>4 DEF Linked
    <2>12. /\ manifest' = manifest /\ pc'[p] = "save"
           /\ \A q \in Procs : q # p => pc'[q] = pc[q]
      BY <1>3, <1>a DEF Rotate
    <2>13. \A q \in Procs : q # p => pc'[q] \in {"idle", "wait"}
      BY <2>3, <2>12, OthersIdle
    <2>14. man'[p].current = k + 1
      BY <1>a, <2>1, <2>3 DEF Rotated, Manifest
    <2>15. NothingBehind(files', man'[p])
      BY <2>2, <2>4, <2>5, <2>14, SegIdxFacts DEF NothingBehind
    <2>16. NothingBehind(files', manifest)
      BY <2>5 DEF EditedInv, NothingBehind
    <2>17. QED
      BY <1>a, <2>6, <2>11, <2>12, <2>13, <2>15, <2>16, ManifestAssumption
         DEF EditedInv, Uncommitted
  <1>4. ASSUME NEW p \in Procs, Save(p) PROVE EditedInv'
    <2>1. /\ pc[p] = "save" /\ man[p] \in Manifest
          /\ manifest' = man[p] /\ files' = files
          /\ pc'[p] = "release"
          /\ \A q \in Procs : q # p => pc'[q] = pc[q]
      BY <1>4, <1>a DEF Save, Leave, TypeInv, LocalsInv, Loaded
    <2>2. \A q \in Procs : pc'[q] \in {"idle", "wait", "release"}
      BY <2>1, OthersIdle
    <2>3. /\ NothingBehind(files, man[p])
          /\ ~Linked(files) \/ Gap(files, man[p])
      BY <2>1 DEF EditedInv, Uncommitted, Gap
    <2>4. \A k \in SegIdx : /\ ~files[k].exists => files[k].lines = <<>>
                            /\ files[k].open => files[k].lines # <<>>
      BY DEF EditedInv
    <2>5. QED
      BY <2>1, <2>2, <2>3, <2>4, ManifestAssumption DEF EditedInv, Uncommitted
  <1>5. ASSUME NEW p \in Procs, Create(p) PROVE EditedInv'
    BY <1>5, <1>b DEF Create
  <1>6. ASSUME NEW p \in Procs, Load(p) PROVE EditedInv'
    <2>1. /\ UNCHANGED <<files, manifest>> /\ man' = [man EXCEPT ![p] = manifest]
          /\ pc'[p] \in {"release", "write"}
          /\ \A q \in Procs : q # p => pc'[q] = pc[q]
      BY <1>6, <1>a, ManifestAssumption DEF Load, Leave
    <2>2. \A q \in Procs : man'[q] = IF q = p THEN manifest ELSE man[q]
      BY <1>a, <2>1
    <2>3. QED
      BY <1>b, <2>1, <2>2, QuietEdited DEF Uncommitted
  <1>7. ASSUME NEW p \in Procs,
               \/ Acquire(p) \/ Busy(p) \/ LockError(p) \/ Validate(p)
               \/ Return(p) \/ SkipRotation(p) \/ Fail(p) \/ Crash(p)
               \/ (Rotate(p) /\ ~NamesOrdered(files))
        PROVE  EditedInv'
    <2>1. /\ UNCHANGED <<files, manifest>>
          /\ \A q \in Procs : q # p => pc'[q] = pc[q] /\ man'[q] = man[q]
      BY <1>7, <1>a DEF Acquire, Busy, LockError, Validate, Return,
         SkipRotation, Fail, Crash, Rotate, Leave, Forget, disk
    <2>2. \/ pc'[p] \in {"validate", "load", "idle", "release"}
          \/ pc[p] = "rotate" /\ pc'[p] = "save" /\ man'[p] = man[p]
      BY <1>7, <1>a DEF Acquire, Busy, LockError, Validate, Return,
         SkipRotation, Fail, Crash, Rotate, Leave, Forget
    <2>3. QED
      BY <1>b, <2>1, <2>2, QuietEdited DEF Uncommitted
  <1>8. ASSUME NEW p \in Procs, NEW o \in Ops, NEW b \in Bodies \cup {NoBody},
               Call(p, o, b)
        PROVE  EditedInv'
    <2>1. /\ UNCHANGED <<files, manifest, man>> /\ pc'[p] = "wait"
          /\ \A q \in Procs : q # p => pc'[q] = pc[q]
      BY <1>8, <1>a DEF Call, disk
    <2>2. QED
      BY <1>b, <2>1, QuietEdited DEF Uncommitted
  <1>9. CASE UNCHANGED vars
    BY <1>9, <1>b, QuietEdited DEF vars
  <1>10. QED
    BY <1>1, <1>2, <1>3, <1>4, <1>5, <1>6, <1>7, <1>8, <1>9
       DEF Next, Step, Fault

LEMMA TamperStep == TamperInv /\ Tamper => TamperInv'
  <1> SUFFICES ASSUME TamperInv, Tamper PROVE TamperInv'
    OBVIOUS
  <1>1. /\ lock = NoProc /\ ~damaged /\ FullInv /\ SizeInv
        /\ OnlyFiles
    BY DEF Tamper, TamperInv, OnlyFiles
  <1>2. PICK q \in Positions(files) :
            \/ EditHashed(q) \/ EditRehashed(q) \/ EditUnhashed(q)
            \/ DeleteLine(q) \/ DuplicateLine(q) \/ SwapLines(q)
            \/ DeleteSegment(q)
    BY DEF Tamper
  <1>3. edit' \in Edits
    BY <1>2 DEF EditHashed, EditRehashed, EditUnhashed, DeleteLine,
       DuplicateLine, SwapLines, DeleteSegment, Edits
  <1>4. CASE EditUnhashed(q)
    BY <1>3, <1>4 DEF EditUnhashed, TamperInv
  <1>5. CASE ~EditUnhashed(q)
    <2>1. (TypeInv /\ LockInv /\ EditedInv)'
      BY <1>1, <1>2, <1>5, HashedShows, RehashedShows, DeleteShows,
         DuplicateShows, SwapShows, SegmentShows
    <2>2. QED
      BY <1>3, <2>1 DEF TamperInv, Edits
  <1>6. QED
    BY <1>4, <1>5

\* The invariant of a store whose segment files are edited once, at any point
\* between two calls: until then that of the store, and from then on a flaw in
\* the chain or in the list of segments that no append, failed file operation
\* or crash of pkg/evidence removes.
THEOREM TamperInvariant == TamperSpec => []TamperInv
  <1>1. TamperInit => TamperInv
    <2> SUFFICES ASSUME TamperInit PROVE TamperInv
      OBVIOUS
    <2>1. Init /\ edit = "none"
      BY DEF TamperInit
    <2>2. SizeInv
      <3>1. \A k \in SegIdx : files[k].lines = <<>>
        BY <2>1 DEF Init, NoFile
      <3>2. Positions(files) = {}
        BY <3>1 DEF Positions
      <3>3. QED
        BY <3>2 DEF SizeInv
    <2>3. QED
      BY <2>1, <2>2, FullInit DEF TamperInv
  <1>2. TamperInv /\ [TamperNext]_tvars => TamperInv'
    <2> SUFFICES ASSUME TamperInv, [TamperNext]_tvars PROVE TamperInv'
      OBVIOUS
    <2>1. CASE [Next]_vars /\ UNCHANGED edit
      <3>1. edit = "none" => FullInv' /\ SizeInv'
        BY <2>1, FullStep, SizeStep DEF TamperInv, FullInv
      <3>2. edit \notin {"none", "unhashed"} =>
                TypeInv' /\ LockInv' /\ EditedInv'
        BY <2>1, TypeStep, LockStep, EditedStep DEF TamperInv
      <3>3. QED
        BY <2>1, <3>1, <3>2 DEF TamperInv
    <2>2. CASE Tamper
      BY <2>2, TamperStep
    <2>3. ([Next]_vars /\ UNCHANGED edit) \/ Tamper
      BY DEF TamperNext, tvars
    <2>4. QED
      BY <2>1, <2>2, <2>3
  <1>3. QED
    BY <1>1, <1>2, PTL DEF TamperSpec

\* TamperDetected: after any edit of the segment files of a whole store other
\* than one of unhashed fields, ValidateChain rejects the store, at once and
\* for good, for any number of records, segments, callers and failures.
THEOREM TamperingIsDetected == TamperSpec => []TamperDetected
  <1>1. TamperInv => TamperDetected
    <2> SUFFICES ASSUME TamperInv, lock = NoProc,
                        edit \notin {"none", "unhashed"},
                        ChainValid(files, manifest)
                 PROVE  FALSE
      BY DEF TamperDetected
    <2>1. TypeInv /\ LockInv /\ EditedInv
      BY DEF TamperInv
    <2>2. Linked(files) /\ EndsIn(files, manifest.lastHash)
      BY DEF ChainValid, Linked, TotalsOk, EndsIn
    <2>3. PICK k \in SegIdx : /\ k < manifest.current /\ ~files[k].exists
                              /\ files[manifest.current].exists
      BY <2>1, <2>2, StillFlawed DEF Gap
    <2>4. manifest.current \in SegIdx /\ manifest.current \in Nat
      BY <2>1, SegIdxFacts DEF TypeInv, TypeOK, EditedInv, Manifest
    <2>5. k \in 1 .. manifest.current
      BY <2>3, <2>4, ConstantsAssumption DEF SegIdx
    <2>6. QED
      BY <2>3, <2>4, <2>5 DEF ChainValid, NamesOrdered
  <1>2. QED
    BY <1>1, TamperInvariant, PTL
=============================================================================
