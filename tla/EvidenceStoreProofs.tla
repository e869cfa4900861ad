------------------------- MODULE EvidenceStoreProofs -------------------------
(***************************************************************************)
(* Proofs about EvidenceStore, for any number of callers, any records, any *)
(* segment size and any number of crashes and failures: first what a write *)
(* or a rotation does to the segment files, to the lines in them and to    *)
(* the manifest, and why files and manifest that match pass                *)
(* validateSegmentedChain; then the parts of the inductive invariant; then *)
(* what the store promises: it implements the Ledger, its files only grow, *)
(* its sealed segments are final, damage stays visible and acknowledged    *)
(* records stay on disk, whatever fails in whichever order.                *)
(***************************************************************************)
EXTENDS EvidenceStoreInv, FiniteSetTheorems, TLAPS

-----------------------------------------------------------------------------
(* The operators on files and manifests.                                   *)

LEMMA SegIdxFacts ==
    /\ SegIdx \subseteq Nat
    /\ 1 \in SegIdx
    /\ \A k \in SegIdx : k <= MaxIndex => k + 1 \in SegIdx
  BY ConstantsAssumption DEF SegIdx

\* A new record is a record, and its hash is not the empty one.
LEMMA NewRecordType ==
    ASSUME NEW b \in Bodies, NEW h \in HashVal
    PROVE  /\ NewRecord(b, h) \in Record
           /\ NewRecord(b, h).hash # NoHash
  BY DEF NewRecord, Record, ComputeHash, HashVal, NoHash

LEMMA FileType == NoFile \in File /\ EmptyFile \in File
  <1>1. <<>> \in Seq(Line)
    OBVIOUS
  <1>2. QED
    BY <1>1 DEF NoFile, EmptyFile, File

LEMMA AppendLineType ==
    ASSUME NEW f \in File, NEW r \in Record
    PROVE  AppendLine(f, r) \in File
  <1>1. r.body.bytes \in Nat
    BY BodiesAssumption DEF Record
  <1>2. r \in Line
    BY DEF Line
  <1>3. LinesWith(f, r) \in Seq(Line)
    BY <1>2 DEF LinesWith, File, Line
  <1>4. f.bytes + r.body.bytes \in Nat
    BY <1>1 DEF File
  <1>5. QED
    BY <1>3, <1>4 DEF AppendLine, File

LEMMA PartialLineType ==
    ASSUME NEW f \in File, NEW r \in Record, NEW n \in 1 .. (r.body.bytes - 1)
    PROVE  PartialLine(f, r, n) \in File
  <1>1. r.body.bytes \in Nat
    BY BodiesAssumption DEF Record
  <1> DEFINE l == IF n = r.body.bytes - 1 THEN r ELSE Torn
  <1>2. l \in Line
    BY DEF Line
  <1>3. LinesWith(f, l) \in Seq(Line)
    BY <1>2 DEF LinesWith, File, Line
  <1>4. f.bytes + n \in Nat
    BY <1>1 DEF File
  <1>5. QED
    BY <1>3, <1>4 DEF PartialLine, File

LEMMA ManifestType ==
    /\ EmptyManifest \in Manifest
    /\ \A m \in Manifest, r \in Record : Counted(m, r) \in Manifest
    /\ \A m \in Manifest, k \in SegIdx : Rotated(m, k) \in Manifest
  <1>1. EmptyManifest \in Manifest
    BY SegIdxFacts DEF EmptyManifest, Manifest, NoHash, HashVal, PolicyVal
  <1>2. ASSUME NEW m \in Manifest, NEW r \in Record
        PROVE  Counted(m, r) \in Manifest
    <2>1. MergePolicyRef(m.policyRef, r.body.policyRef) \in PolicyVal
      BY DEF MergePolicyRef, PolicyVal, Manifest, Record
    <2>2. r.hash \in HashVal /\ m.total + 1 \in Nat
      BY DEF Record, Manifest
    <2>3. QED
      BY <2>1, <2>2 DEF Counted, Manifest
  <1>3. ASSUME NEW m \in Manifest, NEW k \in SegIdx
        PROVE  Rotated(m, k) \in Manifest
    BY DEF Rotated, Manifest
  <1>4. QED
    BY <1>1, <1>2, <1>3

\* A write behind an unterminated line brings no position ...
LEMMA OpenPositions ==
    ASSUME NEW F \in [SegIdx -> File], NEW c \in SegIdx, NEW l,
           NEW g, g.lines = LinesWith(F[c], l), F[c].open
    PROVE  Positions([F EXCEPT ![c] = g]) = Positions(F)
  <1> DEFINE G == [F EXCEPT ![c] = g]
  <1>1. F[c].lines \in Seq(Line)
    BY DEF File
  <1>2. Len(g.lines) = Len(F[c].lines)
    BY <1>1 DEF LinesWith
  <1>3. \A k \in SegIdx : Len(G[k].lines) = Len(F[k].lines)
    BY <1>2
  <1>4. QED
    BY <1>3 DEF Positions

\* ... and behind a complete one, or into an empty file, one position.
LEMMA NewPosition ==
    ASSUME NEW F \in [SegIdx -> File], NEW G, NEW c \in SegIdx, NEW l \in Line,
           \A k \in SegIdx : k # c => G[k] = F[k],
           G[c].lines = LinesWith(F[c], l), ~F[c].open
    PROVE  /\ Positions(G) = Positions(F) \cup {<<c, Len(F[c].lines) + 1>>}
           /\ <<c, Len(F[c].lines) + 1>> \notin Positions(F)
           /\ \A q \in Positions(F) : LineAt(G, q) = LineAt(F, q)
           /\ LineAt(G, <<c, Len(F[c].lines) + 1>>) = l
  <1> DEFINE g == G[c]
             q0 == <<c, Len(F[c].lines) + 1>>
  <1>1. /\ \A k \in SegIdx : k # c => G[k] = F[k]
        /\ G[c] = g
    OBVIOUS
  <1>2. \A k \in SegIdx : F[k].lines \in Seq(Line) /\ Len(F[k].lines) \in Nat
    BY DEF File
  <1>3. /\ g.lines = Append(F[c].lines, l)
        /\ Len(g.lines) = Len(F[c].lines) + 1
        /\ \A i \in 1 .. Len(F[c].lines) : g.lines[i] = F[c].lines[i]
        /\ g.lines[Len(F[c].lines) + 1] = l
    BY <1>2 DEF LinesWith
  <1>4. ASSUME NEW q \in Positions(G)
        PROVE  q \in Positions(F) \/ q = q0
    <2>1. PICK k \in SegIdx : \E i \in 1 .. Len(G[k].lines) : q = <<k, i>>
      BY <1>4 DEF Positions
    <2>2. PICK i \in 1 .. Len(G[k].lines) : q = <<k, i>>
      BY <2>1
    <2>3. \/ i \in 1 .. Len(F[k].lines)
          \/ k = c /\ i = Len(F[c].lines) + 1
      BY <1>1, <1>2, <1>3
    <2>4. QED
      BY <2>2, <2>3 DEF Positions
  <1>5. ASSUME NEW q \in Positions(F)
        PROVE  q \in Positions(G) /\ LineAt(G, q) = LineAt(F, q)
    <2>1. PICK k \in SegIdx : \E i \in 1 .. Len(F[k].lines) : q = <<k, i>>
      BY <1>5 DEF Positions
    <2>2. PICK i \in 1 .. Len(F[k].lines) : q = <<k, i>>
      BY <2>1
    <2>3. i \in 1 .. Len(G[k].lines) /\ G[k].lines[i] = F[k].lines[i]
      BY <1>1, <1>2, <1>3
    <2>4. QED
      BY <2>2, <2>3 DEF Positions, LineAt
  <1>6. q0 \in Positions(G) /\ LineAt(G, q0) = l
    <2>1. Len(F[c].lines) + 1 \in 1 .. Len(G[c].lines)
      BY <1>1, <1>2, <1>3
    <2>2. q0 \in Positions(G)
      BY <2>1 DEF Positions
    <2>3. QED
      BY <2>2, <1>1, <1>3 DEF LineAt
  <1>7. q0 \notin Positions(F)
    BY <1>2 DEF Positions
  <1>8. Positions(G) = Positions(F) \cup {q0}
    BY <1>4, <1>5, <1>6
  <1>9. QED
    BY <1>5, <1>6, <1>7, <1>8

\* What the checks of validateSegmentedChain say depends only on the lines.
LEMMA SameLines ==
    ASSUME NEW F, NEW G, NEW m, Positions(G) = Positions(F),
           \A q \in Positions(F) : LineAt(G, q) = LineAt(F, q)
    PROVE  /\ LinksOk(F) => LinksOk(G)
           /\ HashesOk(F) => HashesOk(G)
           /\ PolicyRefs(G) = PolicyRefs(F)
           /\ TotalsOk(F, m) => TotalsOk(G, m)
  <1>1. \A q, r :
            /\ IsFirst(G, q) <=> IsFirst(F, q)
            /\ IsLast(G, q) <=> IsLast(F, q)
            /\ Adjacent(G, q, r) <=> Adjacent(F, q, r)
    BY DEF IsFirst, IsLast, Adjacent
  <1>2. LinksOk(F) => LinksOk(G)
    BY <1>1 DEF LinksOk
  <1>3. HashesOk(F) => HashesOk(G)
    BY DEF HashesOk
  <1>4. PolicyRefs(G) = PolicyRefs(F)
    BY DEF PolicyRefs
  <1>5. TotalsOk(F, m) => TotalsOk(G, m)
    BY <1>1 DEF TotalsOk
  <1>6. QED
    BY <1>2, <1>3, <1>4, <1>5

\* A record linked to the manifest's last hash, written behind all others.
LEMMA AppendLinks ==
    ASSUME NEW F, NEW G, NEW m \in Manifest, NEW r \in Record, NEW q0,
           r.prev = m.lastHash, r.hash = ComputeHash(r.body, r.prev),
           IsFiniteSet(Positions(F)),
           LinksOk(F), HashesOk(F), PolicyFollows(F, m), TotalsOk(F, m),
           Positions(G) = Positions(F) \cup {q0}, q0 \notin Positions(F),
           \A q \in Positions(F) :
               LineAt(G, q) = LineAt(F, q) /\ Before(q, q0) /\ ~Before(q0, q),
           ~Before(q0, q0),
           LineAt(G, q0) = r
    PROVE  /\ LinksOk(G) /\ HashesOk(G)
           /\ PolicyFollows(G, Counted(m, r)) /\ TotalsOk(G, Counted(m, r))
  <1> DEFINE n == Counted(m, r)
  <1>1. r.prev = m.lastHash
    OBVIOUS
  <1>2. /\ n.total = m.total + 1 /\ n.lastHash = r.hash
        /\ n.policyRef = MergePolicyRef(m.policyRef, r.body.policyRef)
    BY DEF Counted, Manifest
  <1> HIDE DEF n
  <1>3. LineAt(G, q0) = r
    OBVIOUS
  <1>4. LinksOk(G)
    <2>1. ASSUME NEW q \in Positions(G), IsFirst(G, q)
          PROVE  LineAt(G, q).prev = NoHash
      <3>1. CASE q = q0
        <4>1. Positions(F) = {}
          BY <2>1, <3>1 DEF IsFirst
        <4>2. m.lastHash = NoHash
          BY <4>1 DEF TotalsOk
        <4>3. QED
          BY <4>2, <3>1, <1>1, <1>3
      <3>2. CASE q # q0
        <4>1. q \in Positions(F) /\ IsFirst(F, q)
          BY <2>1, <3>2 DEF IsFirst
        <4>2. QED
          BY <4>1 DEF LinksOk
      <3>3. QED
        BY <3>1, <3>2
    <2>2. ASSUME NEW q \in Positions(G), NEW s \in Positions(G),
                 Adjacent(G, q, s)
          PROVE  LineAt(G, s).prev = LineAt(G, q).hash
      <3>1. q \in Positions(F)
        BY <2>2 DEF Adjacent
      <3>2. CASE s = q0
        <4>1. IsLast(F, q)
          BY <2>2, <3>1, <3>2 DEF Adjacent, IsLast
        <4>2. m.lastHash = LineAt(F, q).hash
          BY <3>1, <4>1 DEF TotalsOk
        <4>3. QED
          BY <3>1, <3>2, <4>2, <1>1, <1>3
      <3>3. CASE s # q0
        <4>1. s \in Positions(F) /\ Adjacent(F, q, s)
          BY <2>2, <3>3 DEF Adjacent
        <4>2. QED
          BY <3>1, <4>1 DEF LinksOk
      <3>4. QED
        BY <3>2, <3>3
    <2>3. QED
      BY <2>1, <2>2 DEF LinksOk
  <1>5. HashesOk(G)
    BY <1>1, <1>3 DEF HashesOk
  <1>6. PolicyFollows(G, n)
    <2>1. PolicyRefs(G) = PolicyRefs(F) \cup ({r.body.policyRef} \ {NoPolicy})
      BY <1>1, <1>3 DEF PolicyRefs
    <2>2. QED
      BY <2>1, <1>2 DEF PolicyFollows, MergePolicyRef
  <1>7. TotalsOk(G, n)
    <2>1. Cardinality(Positions(G)) = Cardinality(Positions(F)) + 1
      BY FS_AddElement
    <2>2. \A q \in Positions(G) : IsLast(G, q) => q = q0
      BY DEF IsLast
    <2>3. QED
      BY <2>1, <2>2, <1>2, <1>3 DEF TotalsOk
  <1>8. QED
    BY <1>4, <1>5, <1>6, <1>7 DEF n

\* appendSegmented's line and its count keep files and manifest in step.
LEMMA AppendMatches ==
    ASSUME NEW F \in [SegIdx -> File], NEW m \in Manifest,
           NEW c \in SegIdx, c = m.current,
           NEW r \in Record,
           r.prev = m.lastHash, r.hash = ComputeHash(r.body, r.prev),
           NEW G, \A k \in SegIdx : k # c => G[k] = F[k],
           G[c] = AppendLine(F[c], r),
           IsFiniteSet(Positions(F)), Matches(F, m)
    PROVE  Matches(G, Counted(m, r))
  <1> DEFINE g == AppendLine(F[c], r)
             n == Counted(m, r)
             q0 == <<c, Len(F[c].lines) + 1>>
  <1>1. c \in Nat /\ r \in Line
    BY SegIdxFacts DEF Line
  <1>2. g.exists /\ ~g.open /\ g.lines = LinesWith(F[c], r)
    BY DEF AppendLine
  <1>3. n.current = c /\ n.sealed = m.sealed
    BY DEF Counted, Manifest
  <1> HIDE DEF g, n
  <1>4. ~F[c].open
    BY DEF Matches, Whole
  <1>5. F[c].lines \in Seq(Record)
    BY DEF Matches, Whole
  <1>6. \A k \in SegIdx : k # c => G[k] = F[k]
    OBVIOUS
  <1>7. G[c] = g
    BY DEF g
  <1>8. /\ Positions(G) = Positions(F) \cup {q0}
        /\ q0 \notin Positions(F)
        /\ \A q \in Positions(F) : LineAt(G, q) = LineAt(F, q)
        /\ LineAt(G, q0) = r
    <2>1. G[c].lines = LinesWith(F[c], r)
      BY <1>2, <1>7
    <2>2. QED
      BY <1>1, <1>4, <1>6, <2>1, NewPosition
  <1>9. \A q \in Positions(F) : Before(q, q0) /\ ~Before(q0, q)
    <2>1. TAKE q \in Positions(F)
    <2>2. PICK k \in SegIdx : \E i \in 1 .. Len(F[k].lines) : q = <<k, i>>
      BY DEF Positions
    <2>3. PICK i \in 1 .. Len(F[k].lines) : q = <<k, i>>
      BY <2>2
    <2>4. k <= c /\ k \in Nat /\ i \in Nat /\ Len(F[c].lines) \in Nat
      <3>1. F[k].lines # <<>>
        BY <2>3
      <3>2. F[k].exists
        BY <3>1 DEF Matches, Whole
      <3>3. QED
        BY <3>2, <1>5, SegIdxFacts DEF Matches, Whole
    <2>5. k = c => i < Len(F[c].lines) + 1
      BY <2>4
    <2>6. QED
      BY <2>3, <2>4, <2>5, <1>1 DEF Before
  <1>10. ~Before(q0, q0)
    BY <1>1, <1>5 DEF Before
  <1>11. LinksOk(G) /\ HashesOk(G) /\ PolicyFollows(G, n) /\ TotalsOk(G, n)
    <2> HIDE DEF q0
    <2>1. LinksOk(F) /\ HashesOk(F) /\ PolicyFollows(F, m) /\ TotalsOk(F, m)
      BY DEF Matches
    <2>2. QED
      BY <1>8, <1>9, <1>10, <2>1, AppendLinks DEF n
  <1>12. Whole(G, n)
    <2>1. g.lines \in Seq(Record)
      BY <1>2, <1>4, <1>5 DEF LinesWith
    <2>2. QED
      BY <2>1, <1>1, <1>2, <1>3, <1>6, <1>7 DEF Whole, Matches
  <1>13. Points(G, n)
    BY <1>1, <1>2, <1>3, <1>6, <1>7 DEF Points, Matches, Manifest
  <1>14. QED
    BY <1>11, <1>12, <1>13 DEF Matches, n

\* The switch to a new, empty segment behind the last one.
LEMMA RotateMatches ==
    ASSUME NEW F \in [SegIdx -> File], NEW m \in Manifest, NEW k \in SegIdx,
           IsLastName(F, k), k + 1 \in SegIdx, Matches(F, m)
    PROVE  Matches([F EXCEPT ![k + 1] = EmptyFile], Rotated(m, k + 1))
  <1> DEFINE G == [F EXCEPT ![k + 1] = EmptyFile]
             n == Rotated(m, k + 1)
  <1>1. m.current \in SegIdx /\ m.sealed \subseteq SegIdx
    BY DEF Manifest
  <1>2. k = m.current
    <2>1. F[k].exists /\ \A j \in SegIdx : F[j].exists => j <= k
      BY DEF IsLastName
    <2>2. F[m.current].exists /\ (F[k].exists => k <= m.current)
      BY DEF Matches, Points, Whole
    <2>3. k <= m.current /\ m.current <= k /\ k \in Nat /\ m.current \in Nat
      BY <1>1, <2>1, <2>2, SegIdxFacts
    <2>4. QED
      BY <2>3
  <1>3. /\ n.current = k + 1 /\ n.lastHash = m.lastHash /\ n.total = m.total
        /\ n.policyRef = m.policyRef
        /\ n.sealed = (m.sealed \cup {k}) \ {k + 1}
    BY <1>2 DEF Rotated, Manifest
  <1> HIDE DEF n
  <1>4. /\ \A j \in SegIdx : j # k + 1 => G[j] = F[j]
        /\ G[k + 1] = EmptyFile
    OBVIOUS
  <1>5. F[k + 1].lines = <<>> /\ ~F[k + 1].exists
    BY <1>2, SegIdxFacts DEF Matches, Whole
  <1>6. \A j \in SegIdx : G[j].lines = F[j].lines
    BY <1>4, <1>5 DEF EmptyFile
  <1>7. Positions(G) = Positions(F)
    BY <1>6 DEF Positions
  <1>8. \A q \in Positions(F) : LineAt(G, q) = LineAt(F, q)
    <2>1. TAKE q \in Positions(F)
    <2>2. PICK j \in SegIdx : \E i \in 1 .. Len(F[j].lines) : q = <<j, i>>
      BY DEF Positions
    <2>3. QED
      BY <2>2, <1>6 DEF LineAt
  <1>9. LinksOk(G) /\ HashesOk(G) /\ PolicyFollows(G, n) /\ TotalsOk(G, n)
    <2> HIDE DEF G
    <2>1. /\ LinksOk(G) /\ HashesOk(G) /\ PolicyRefs(G) = PolicyRefs(F)
          /\ TotalsOk(G, m)
      BY <1>7, <1>8, SameLines DEF Matches
    <2>2. QED
      BY <2>1, <1>3 DEF Matches, PolicyFollows, TotalsOk
  <1>10. Whole(G, n)
    <2>1. ASSUME NEW j \in SegIdx
          PROVE  /\ G[j].exists <=> j <= k + 1
                 /\ ~G[j].exists => G[j].lines = <<>>
                 /\ ~G[j].open
                 /\ G[j].lines \in Seq(Record)
      <3>1. CASE j = k + 1
        BY <3>1, <1>4, SegIdxFacts DEF EmptyFile
      <3>2. CASE j # k + 1
        BY <3>2, <1>2, <1>4, SegIdxFacts DEF Matches, Whole
      <3>3. QED
        BY <3>1, <3>2
    <2>2. QED
      BY <2>1, <1>3 DEF Whole
  <1>11. Points(G, n)
    BY <1>1, <1>2, <1>3, <1>4, SegIdxFacts DEF Points, Matches, EmptyFile
  <1>12. QED
    BY <1>9, <1>10, <1>11 DEF Matches, G, n

\* A new store: the first segment and the empty manifest.
LEMMA BlankMatches ==
    ASSUME NEW F \in [SegIdx -> File], Blank(F), F[1] = EmptyFile
    PROVE  Matches(F, EmptyManifest)
  <1>1. \A k \in SegIdx : F[k].lines = <<>> /\ ~F[k].open
    BY DEF Blank, NoFile, EmptyFile
  <1>2. Positions(F) = {}
    BY <1>1 DEF Positions
  <1>3. /\ EmptyManifest.current = 1 /\ EmptyManifest.sealed = {}
        /\ EmptyManifest.total = 0 /\ EmptyManifest.lastHash = NoHash
        /\ EmptyManifest.policyRef = NoPolicy
    BY DEF EmptyManifest
  <1>4. Points(F, EmptyManifest)
    BY <1>3, SegIdxFacts DEF Points, EmptyFile
  <1>5. Whole(F, EmptyManifest)
    <2>1. \A k \in SegIdx : F[k].exists <=> k = 1
      BY SegIdxFacts DEF Blank, NoFile, EmptyFile
    <2>2. \A k \in SegIdx : k <= 1 <=> k = 1
      BY ConstantsAssumption DEF SegIdx
    <2>3. <<>> \in Seq(Record)
      OBVIOUS
    <2>4. QED
      BY <1>1, <1>3, <2>1, <2>2, <2>3 DEF Whole
  <1>6. LinksOk(F) /\ HashesOk(F)
    BY <1>2 DEF LinksOk, HashesOk
  <1>7. PolicyFollows(F, EmptyManifest)
    BY <1>3 DEF PolicyFollows
  <1>8. TotalsOk(F, EmptyManifest)
    BY <1>2, <1>3, FS_EmptySet DEF TotalsOk
  <1>9. QED
    BY <1>4, <1>5, <1>6, <1>7, <1>8 DEF Matches

\* Files that match the manifest pass validateSegmentedChain.
LEMMA MatchesValid ==
    ASSUME NEW F \in [SegIdx -> File], NEW m \in Manifest, Matches(F, m),
           NamesOrdered(F), LinesFit(F), \A x, y \in PolicyRefs(F) : x = y
    PROVE  ChainValid(F, m)
  <1>1. m # NoManifest
    BY ManifestAssumption
  <1>2. SealedOk(F, m)
    <2>1. \A k \in m.sealed : k < m.current /\ F[k].exists
      BY DEF Matches, Points
    <2>2. m.current \in Nat
      BY SegIdxFacts DEF Manifest
    <2>3. QED
      BY <2>1, <2>2 DEF SealedOk
  <1>3. LinesParse(F)
    <2>1. SUFFICES ASSUME NEW q \in Positions(F)
                   PROVE  LineAt(F, q) # Torn
      BY DEF LinesParse
    <2>2. PICK k \in SegIdx : \E i \in 1 .. Len(F[k].lines) : q = <<k, i>>
      BY DEF Positions
    <2>3. PICK i \in 1 .. Len(F[k].lines) : q = <<k, i>>
      BY <2>2
    <2>4. F[k].lines \in Seq(Record)
      BY DEF Matches, Whole
    <2>5. F[k].lines[i] \in Record
      BY <2>4
    <2>6. QED
      BY <2>3, <2>5, TornAssumption DEF LineAt
  <1>4. PolicyOk(F, m)
    BY DEF PolicyOk, Matches, PolicyFollows
  <1>5. IsLastName(F, m.current)
    BY SegIdxFacts DEF IsLastName, Matches, Whole, Points, Manifest
  <1>6. QED
    BY <1>1, <1>2, <1>3, <1>4, <1>5 DEF ChainValid, Matches

-----------------------------------------------------------------------------
(* Type correctness.                                                       *)

LEMMA TypeInit == Init => TypeInv
  <1> SUFFICES ASSUME Init PROVE TypeInv
    OBVIOUS
  <1> USE DEF Init
  <1>1. files \in [SegIdx -> File]
    BY FileType
  <1>2. TypeOK
    <2>1. /\ acked \subseteq Record /\ damaged \in BOOLEAN
          /\ manifest \in Manifest \cup {NoManifest}
          /\ lock \in Procs \cup {NoProc}
      OBVIOUS
    <2>2. appends \in 0 .. MaxAppends /\ faults \in 0 .. MaxFaults
      BY ConstantsAssumption
    <2>3. /\ pc \in [Procs -> Steps] /\ op \in [Procs -> Ops]
          /\ res \in [Procs -> Answers]
      BY DEF Steps, Ops, Answers
    <2>4. /\ body \in [Procs -> Bodies \cup {NoBody}]
          /\ man \in [Procs -> Manifest \cup {NoManifest}]
          /\ rec \in [Procs -> Record \cup {NoRecord}]
      OBVIOUS
    <2>5. QED
      BY <1>1, <2>1, <2>2, <2>3, <2>4 DEF TypeOK
  <1>3. LocalsInv
    BY DEF LocalsInv, Loaded
  <1>4. QED
    BY <1>2, <1>3 DEF TypeInv

LEMMA TypeStep == TypeInv /\ [Next]_vars => TypeInv'
  <1> SUFFICES ASSUME TypeInv, [Next]_vars PROVE TypeInv'
    OBVIOUS
  <1> USE DEF TypeInv, TypeOK, LocalsInv, Loaded
  <1>1. ASSUME NEW p \in Procs, NEW o \in Ops, NEW b \in Bodies \cup {NoBody},
               Call(p, o, b)
        PROVE  TypeInv'
    BY <1>1, ConstantsAssumption DEF Call, Steps, Ops, Answers, disk, ghost
  <1>2. ASSUME NEW p \in Procs, Acquire(p)
        PROVE  TypeInv'
    BY <1>2 DEF Acquire, Steps, Writing, Ops, disk, ghost
  <1>3. ASSUME NEW p \in Procs, Busy(p) \/ LockError(p)
        PROVE  TypeInv'
    BY <1>3, ConstantsAssumption DEF Busy, LockError, Steps, Answers, disk, ghost
  <1>4. ASSUME NEW p \in Procs, Load(p)
        PROVE  TypeInv'
    <2>1. CASE manifest # NoManifest
      <3>1. man' = [man EXCEPT ![p] = manifest] /\ manifest \in Manifest
        BY <1>4, <2>1 DEF Load
      <3>2. \/ op[p] = "init" /\ Leave(p, "ok")
            \/ op[p] # "init" /\ pc' = [pc EXCEPT ![p] = "write"] /\ res' = res
        BY <1>4, <2>1 DEF Load
      <3>3. op[p] # "init" => op[p] = "append"
        BY <1>4, op[p] # "validate" DEF Load, Ops
      <3>4. UNCHANGED <<lock, files, manifest, op, body, rec, acked, damaged,
                        appends, faults>>
        BY <1>4, <2>1 DEF Load, ghost
      <3>5. QED
        BY <3>1, <3>2, <3>3, <3>4, <1>4
           DEF Load, Leave, Steps, Writing, Answers
    <2>2. CASE manifest = NoManifest
      <3>1. /\ files' = [files EXCEPT ![1] = EmptyFile]
            /\ man' = [man EXCEPT ![p] = EmptyManifest]
            /\ pc' = [pc EXCEPT ![p] = "create"]
            /\ UNCHANGED <<lock, manifest, op, body, rec, res, acked, damaged,
                           appends, faults>>
        BY <1>4, <2>2 DEF Load, ghost
      <3>2. files' \in [SegIdx -> File]
        BY <3>1, FileType
      <3>3. QED
        BY <3>1, <3>2, <1>4, ManifestType DEF Load, Steps, Writing
    <2>3. QED
      BY <2>1, <2>2
  <1>5. ASSUME NEW p \in Procs, Create(p)
        PROVE  TypeInv'
    <2>1. \/ op[p] = "init" /\ Leave(p, "ok")
          \/ op[p] = "append" /\ pc' = [pc EXCEPT ![p] = "write"] /\ res' = res
      BY <1>5, op[p] # "validate" DEF Create, Ops
    <2>2. QED
      BY <2>1, <1>5 DEF Create, Leave, Steps, Writing, Answers, ghost
  <1>6. ASSUME NEW p \in Procs, Write(p)
        PROVE  TypeInv'
    <2> DEFINE m == man[p]
               r == NewRecord(body[p], m.lastHash)
               f == AppendLine(files[m.current], r)
    <2>1. m \in Manifest /\ body[p] \in Bodies
      BY <1>6 DEF Write
    <2>2. m.lastHash \in HashVal /\ m.current \in SegIdx
      BY <2>1 DEF Manifest
    <2>3. r \in Record
      BY <2>1, <2>2, NewRecordType
    <2>4. f \in File
      BY <2>2, <2>3, AppendLineType
    <2>5. Counted(m, r) \in Manifest
      BY <2>1, <2>3, ManifestType
    <2> HIDE DEF m, r, f
    <2>6. /\ files' = [files EXCEPT ![m.current] = f]
          /\ rec' = [rec EXCEPT ![p] = r]
          /\ man' = [man EXCEPT ![p] = Counted(m, r)]
          /\ \/ pc' = [pc EXCEPT ![p] = "rotate"]
             \/ pc' = [pc EXCEPT ![p] = "save"]
          /\ UNCHANGED <<lock, manifest, op, body, res, acked, damaged,
                         appends, faults>>
      BY <1>6 DEF Write, m, r, f, ghost
    <2>7. pc[p] = "write"
      BY <1>6 DEF Write
    <2>8. QED
      BY <2>1, <2>2, <2>3, <2>4, <2>5, <2>6, <2>7 DEF Steps, Writing
  <1>7. ASSUME NEW p \in Procs, Rotate(p)
        PROVE  TypeInv'
    <2>1. CASE ~NamesOrdered(files)
      <3>1. /\ Leave(p, "error") /\ damaged' = TRUE
            /\ UNCHANGED <<lock, files, manifest, op, body, man, rec, acked,
                           appends, faults>>
        BY <1>7, <2>1 DEF Rotate
      <3>2. QED
        BY <3>1, <1>7 DEF Rotate, Leave, Steps, Answers
    <2>2. CASE NamesOrdered(files)
      <3>1. PICK k \in SegIdx :
                /\ IsLastName(files, k)
                /\ files' = [files EXCEPT ![k + 1] = EmptyFile]
                /\ man' = [man EXCEPT ![p] = Rotated(man[p], k + 1)]
        BY <1>7, <2>2 DEF Rotate
      <3>2. k + 1 \in SegIdx
        BY <3>1, <2>2, SegIdxFacts DEF NamesOrdered, IsLastName
      <3>3. files' \in [SegIdx -> File]
        BY <3>1, FileType
      <3>4. man[p] \in Manifest /\ Rotated(man[p], k + 1) \in Manifest
        BY <1>7, <3>2, ManifestType DEF Rotate
      <3>5. /\ pc' = [pc EXCEPT ![p] = "save"]
            /\ UNCHANGED <<lock, manifest, op, body, rec, res, acked, damaged,
                           appends, faults>>
        BY <1>7, <2>2 DEF Rotate
      <3>6. pc[p] = "rotate"
        BY <1>7 DEF Rotate
      <3>7. QED
        BY <3>1, <3>3, <3>4, <3>5, <3>6 DEF Steps, Writing
    <2>3. QED
      BY <2>1, <2>2
  <1>8. ASSUME NEW p \in Procs, Save(p)
        PROVE  TypeInv'
    BY <1>8 DEF Save, Leave, Steps, Answers, ghost
  <1>9. ASSUME NEW p \in Procs, Validate(p)
        PROVE  TypeInv'
    <2>1. PICK a \in {"ok", "invalid"} : Leave(p, a)
      BY <1>9 DEF Validate
    <2>2. QED
      BY <2>1, <1>9 DEF Validate, Leave, Steps, Answers, disk, ghost
  <1>10. ASSUME NEW p \in Procs, Return(p)
         PROVE  TypeInv'
    BY <1>10 DEF Return, Forget, Steps, disk
  <1>11. ASSUME NEW p \in Procs, Fail(p)
         PROVE  TypeInv'
    <2>1. faults' \in 0 .. MaxFaults /\ damaged' \in BOOLEAN
      BY <1>11, ConstantsAssumption DEF Fail
    <2>2. QED
      BY <2>1, <1>11 DEF Fail, Leave, Steps, Writing, Answers, disk
  <1>12. ASSUME NEW p \in Procs, PartialWrite(p)
         PROVE  TypeInv'
    <2> DEFINE m == man[p]
               r == NewRecord(body[p], m.lastHash)
    <2>1. m \in Manifest /\ body[p] \in Bodies
      BY <1>12 DEF PartialWrite
    <2>2. m.lastHash \in HashVal /\ m.current \in SegIdx
      BY <2>1 DEF Manifest
    <2>3. r \in Record
      BY <2>1, <2>2, NewRecordType
    <2> HIDE DEF r
    <2>4. PICK n \in 1 .. (r.body.bytes - 1) :
              files' = [files EXCEPT ![m.current] =
                           PartialLine(files[m.current], r, n)]
      BY <1>12 DEF PartialWrite, r
    <2>5. files' \in [SegIdx -> File]
      BY <2>2, <2>3, <2>4, PartialLineType
    <2>6. faults' \in 0 .. MaxFaults /\ damaged' \in BOOLEAN
      BY <1>12, ConstantsAssumption DEF PartialWrite
    <2>7. Leave(p, "error") /\ pc[p] = "write"
      BY <1>12 DEF PartialWrite
    <2>8. UNCHANGED <<lock, manifest, op, body, man, rec, acked, appends>>
      BY <1>12 DEF PartialWrite
    <2>9. QED
      BY <2>5, <2>6, <2>7, <2>8 DEF Leave, Steps, Answers
  <1>13. ASSUME NEW p \in Procs, Crash(p)
         PROVE  TypeInv'
    <2>1. faults' \in 0 .. MaxFaults /\ damaged' \in BOOLEAN
      BY <1>13, ConstantsAssumption DEF Crash
    <2>2. QED
      BY <2>1, <1>13 DEF Crash, Forget, Steps, Answers, disk
  <1>14. ASSUME NEW p \in Procs, SkipRotation(p)
         PROVE  TypeInv'
    <2>1. faults' \in 0 .. MaxFaults
      BY <1>14, ConstantsAssumption DEF SkipRotation
    <2>2. QED
      BY <2>1, <1>14 DEF SkipRotation, Steps, Writing, disk, ghost
  <1>15. CASE UNCHANGED vars
    BY <1>15 DEF vars
  <1>16. QED
    BY <1>1, <1>2, <1>3, <1>4, <1>5, <1>6, <1>7, <1>8, <1>9, <1>10, <1>11,
       <1>12, <1>13, <1>14, <1>15 DEF Next, Step, Fault

-----------------------------------------------------------------------------
(* Mutual exclusion.                                                       *)

LEMMA LockStep == TypeInv /\ LockInv /\ [Next]_vars => LockInv'
  <1> SUFFICES ASSUME TypeInv, LockInv, [Next]_vars PROVE LockInv'
    OBVIOUS
  <1> USE ConstantsAssumption DEF TypeInv, TypeOK, LockInv
  <1>1. ASSUME NEW p \in Procs, NEW o \in Ops, NEW b \in Bodies \cup {NoBody},
               Call(p, o, b)
        PROVE  LockInv'
    BY <1>1 DEF Call
  <1>2. ASSUME NEW p \in Procs, Acquire(p)
        PROVE  LockInv'
    BY <1>2 DEF Acquire
  <1>3. ASSUME NEW p \in Procs, Busy(p) \/ LockError(p)
        PROVE  LockInv'
    BY <1>3 DEF Busy, LockError
  <1>4. ASSUME NEW p \in Procs, Return(p) \/ Crash(p)
        PROVE  LockInv'
    <2>1. /\ lock = p /\ lock' = NoProc
          /\ pc' = [pc EXCEPT ![p] = "idle"]
      BY <1>4 DEF Return, Crash, Writing
    <2>2. QED
      BY <2>1
  <1>5. ASSUME NEW p \in Procs,
               \/ Load(p) \/ Create(p) \/ Write(p) \/ Rotate(p) \/ Save(p)
               \/ Validate(p) \/ SkipRotation(p) \/ Fail(p) \/ PartialWrite(p)
        PROVE  LockInv'
    <2>1. /\ pc[p] \notin {"idle", "wait"}
          /\ lock' = lock
          /\ \E s \in Loaded \cup {"release"} : pc' = [pc EXCEPT ![p] = s]
      BY <1>5 DEF Load, Create, Write, Rotate, Save, Validate, SkipRotation,
                  Fail, PartialWrite, Leave, Loaded, Writing
    <2>2. QED
      BY <2>1 DEF Loaded
  <1>6. CASE UNCHANGED vars
    BY <1>6 DEF vars
  <1>7. QED
    BY <1>1, <1>2, <1>3, <1>4, <1>5, <1>6 DEF Next, Step, Fault

-----------------------------------------------------------------------------
(* The shape of the disk and of the calls.                                 *)

LEMMA ShapeInit == Init => ShapeInv
  <1> SUFFICES ASSUME Init PROVE ShapeInv
    OBVIOUS
  <1>1. files = [k \in SegIdx |-> NoFile] /\ ~damaged /\ manifest = NoManifest
    BY DEF Init
  <1>2. \A k \in SegIdx : files[k] = NoFile
    BY <1>1
  <1>3. Positions(files) = {}
    BY <1>2 DEF Positions, NoFile
  <1>4. DiskShape
    BY <1>1, <1>2, <1>3, FS_EmptySet DEF DiskShape, Blank, NoFile
  <1>5. \A p \in Procs : CallShape(p)
    BY DEF Init, CallShape, Uncommitted
  <1>6. QED
    BY <1>4, <1>5 DEF ShapeInv

\* An empty file brings no new lines.
LEMMA EmptyPositions ==
    ASSUME NEW F \in [SegIdx -> File], NEW k \in SegIdx,
           IsFiniteSet(Positions(F))
    PROVE  IsFiniteSet(Positions([F EXCEPT ![k] = EmptyFile]))
  <1> DEFINE G == [F EXCEPT ![k] = EmptyFile]
  <1>1. \A j \in SegIdx : G[j] = F[j] \/ G[j].lines = <<>>
    BY DEF EmptyFile
  <1>2. Positions(G) \subseteq Positions(F)
    <2>1. SUFFICES ASSUME NEW q \in Positions(G) PROVE q \in Positions(F)
      OBVIOUS
    <2>2. PICK j \in SegIdx : \E i \in 1 .. Len(G[j].lines) : q = <<j, i>>
      BY <2>1 DEF Positions
    <2>3. G[j] = F[j]
      BY <1>1, <2>2
    <2>4. QED
      BY <2>2, <2>3 DEF Positions
  <1>3. QED
    BY <1>2, FS_Subset

\* A written line brings at most one.
LEMMA LinePositions ==
    ASSUME NEW F \in [SegIdx -> File], NEW c \in SegIdx, NEW l \in Line,
           NEW g \in File, g.lines = LinesWith(F[c], l),
           IsFiniteSet(Positions(F))
    PROVE  IsFiniteSet(Positions([F EXCEPT ![c] = g]))
  <1>1. CASE F[c].open
    <2>1. Positions([F EXCEPT ![c] = g]) = Positions(F)
      BY <1>1, OpenPositions
    <2>2. QED
      BY <2>1
  <1>2. CASE ~F[c].open
    <2>1. Positions([F EXCEPT ![c] = g])
             = Positions(F) \cup {<<c, Len(F[c].lines) + 1>>}
      BY <1>2, NewPosition
    <2>2. QED
      BY <2>1, FS_AddElement
  <1>3. QED
    BY <1>1, <1>2

\* Only the lock holder is inside a call; the others rely on nothing.
LEMMA OthersShape ==
    ASSUME TypeInv, LockInv, NEW p \in Procs, lock = p,
           \A q \in Procs : q # p => pc'[q] = pc[q]
    PROVE  \A q \in Procs : q # p => CallShape(q)'
  <1>1. \A q \in Procs : q # p => pc'[q] \in {"idle", "wait"}
    BY DEF LockInv
  <1>2. QED
    BY <1>1 DEF CallShape, Uncommitted

LEMMA ShapeStep == TypeInv /\ LockInv /\ ShapeInv /\ [Next]_vars => ShapeInv'
  <1> SUFFICES ASSUME TypeInv, LockInv, ShapeInv, [Next]_vars PROVE ShapeInv'
    OBVIOUS
  <1>0. TypeInv'
    BY TypeStep
  <1>a. /\ files \in [SegIdx -> File]
        /\ manifest \in Manifest \cup {NoManifest}
        /\ pc \in [Procs -> Steps] /\ op \in [Procs -> Ops]
        /\ res \in [Procs -> Answers] /\ damaged \in BOOLEAN
        /\ man \in [Procs -> Manifest \cup {NoManifest}]
        /\ rec \in [Procs -> Record \cup {NoRecord}]
        /\ body \in [Procs -> Bodies \cup {NoBody}]
    BY DEF TypeInv, TypeOK
  <1>1. ASSUME NEW p \in Procs, NEW o \in Ops, NEW b \in Bodies \cup {NoBody},
               Call(p, o, b)
        PROVE  ShapeInv'
    <2>1. DiskShape'
      BY <1>1 DEF Call, disk, ghost, ShapeInv, DiskShape
    <2>2. \A q \in Procs : CallShape(q)'
      BY <1>1, <1>a DEF Call, disk, ghost, ShapeInv, CallShape, Uncommitted
    <2>3. QED
      BY <2>1, <2>2 DEF ShapeInv
  <1>2. ASSUME NEW p \in Procs, Acquire(p) \/ Busy(p) \/ LockError(p)
        PROVE  ShapeInv'
    <2>1. DiskShape'
      BY <1>2 DEF Acquire, Busy, LockError, disk, ghost, ShapeInv, DiskShape
    <2>2. /\ UNCHANGED <<disk, op, man, rec>>
          /\ \A q \in Procs : q # p => pc'[q] = pc[q] /\ body'[q] = body[q]
                                          /\ res'[q] = res[q]
          /\ pc'[p] \in {"validate", "load", "idle"}
      BY <1>2, <1>a DEF Acquire, Busy, LockError
    <2>3. \A q \in Procs : CallShape(q)'
      BY <2>2 DEF disk, ShapeInv, CallShape, Uncommitted
    <2>4. QED
      BY <2>1, <2>3 DEF ShapeInv
  <1>3. ASSUME NEW p \in Procs,
               \/ Load(p) \/ Create(p) \/ Write(p) \/ Rotate(p) \/ Save(p)
               \/ Validate(p) \/ SkipRotation(p) \/ Fail(p) \/ PartialWrite(p)
               \/ Return(p) \/ Crash(p)
        PROVE  lock = p /\ \A q \in Procs : q # p => CallShape(q)'
    <2>1. lock = p
      BY <1>3 DEF LockInv, Load, Create, Write, Rotate, Save, Validate,
           SkipRotation, Fail, PartialWrite, Return, Crash, Writing
    <2>2. \A q \in Procs : q # p => pc'[q] = pc[q]
      BY <1>3, <1>a DEF Load, Create, Write, Rotate, Save, Validate, Leave,
           SkipRotation, Fail, PartialWrite, Return, Crash
    <2>3. QED
      BY <2>1, <2>2, OthersShape
  <1>4. ASSUME NEW p \in Procs, Load(p)
        PROVE  ShapeInv'
    <2>1. CASE manifest # NoManifest
      <3>1. UNCHANGED <<files, manifest, damaged, op, body, rec>>
        BY <1>4, <2>1 DEF Load, ghost
      <3>2. /\ man'[p] = manifest
            /\ pc'[p] = "write" \/ (pc'[p] = "release" /\ op[p] = "init")
        BY <1>4, <2>1, <1>a DEF Load, Leave
      <3>3. DiskShape'
        BY <3>1 DEF ShapeInv, DiskShape
      <3>4. CallShape(p)'
        BY <2>1, <3>1, <3>2 DEF CallShape, Uncommitted
      <3>5. QED
        BY <1>3, <1>4, <3>3, <3>4 DEF ShapeInv
    <2>2. CASE manifest = NoManifest
      <3>1. /\ files' = [files EXCEPT ![1] = EmptyFile]
            /\ man'[p] = EmptyManifest
            /\ pc'[p] = "create"
            /\ UNCHANGED <<manifest, damaged>>
        BY <1>4, <2>2, <1>a DEF Load, ghost
      <3>2. IsFiniteSet(Positions(files'))
        BY <1>a, <3>1, SegIdxFacts, EmptyPositions DEF ShapeInv, DiskShape
      <3>3. /\ files'[1] = EmptyFile
            /\ \A k \in SegIdx : k # 1 => files'[k] = files[k]
        BY <1>a, <3>1, SegIdxFacts
      <3>4. DiskShape'
        BY <3>1, <3>2, <3>3, <2>2
           DEF ShapeInv, DiskShape, Blank, EmptyFile
      <3>5. CallShape(p)'
        BY <3>1, <3>3, <2>2 DEF CallShape, Uncommitted
      <3>6. QED
        BY <1>3, <1>4, <3>4, <3>5 DEF ShapeInv
    <2>3. QED
      BY <2>1, <2>2
  <1>5. ASSUME NEW p \in Procs, Create(p)
        PROVE  ShapeInv'
    <2>1. /\ manifest' = EmptyManifest /\ man'[p] = EmptyManifest
          /\ files[1] = EmptyFile
          /\ UNCHANGED <<files, damaged, op>>
          /\ pc'[p] = "write" \/ (pc'[p] = "release" /\ op[p] = "init")
      BY <1>5, <1>a DEF Create, Leave, ghost, ShapeInv, CallShape
    <2>2. EmptyManifest # NoManifest
      BY ManifestType, ManifestAssumption
    <2>3. Points(files, EmptyManifest)
      BY <2>1 DEF Points, EmptyManifest, EmptyFile
    <2>4. DiskShape'
      BY <2>1, <2>2, <2>3 DEF ShapeInv, DiskShape
    <2>5. CallShape(p)'
      BY <2>1, <2>2 DEF CallShape, Uncommitted
    <2>6. QED
      BY <1>3, <1>5, <2>4, <2>5 DEF ShapeInv
  <1>6. ASSUME NEW p \in Procs, Write(p)
        PROVE  ShapeInv'
    <2> DEFINE m == man[p]
               r == NewRecord(body[p], m.lastHash)
               f == AppendLine(files[m.current], r)
    <2>1. /\ pc[p] = "write" /\ m \in Manifest /\ body[p] \in Bodies
          /\ manifest # NoManifest /\ m = manifest
      BY <1>6 DEF Write, ShapeInv, CallShape, TypeInv, LocalsInv, Loaded
    <2>2. m.lastHash \in HashVal /\ m.current \in SegIdx
      BY <2>1 DEF Manifest
    <2>3. r \in Record /\ r \in Line /\ r.hash # NoHash
      BY <2>1, <2>2, NewRecordType DEF Line
    <2>4. /\ f \in File /\ f.lines = LinesWith(files[m.current], r)
          /\ f.exists /\ ~f.open
      BY <2>2, <2>3, <1>a, AppendLineType DEF AppendLine
    <2>5. Counted(m, r).sealed = m.sealed /\ Counted(m, r).current = m.current
            /\ Counted(m, r).lastHash = r.hash
            /\ Counted(m, r).total = m.total + 1
      BY <2>1 DEF Counted, Manifest
    <2>6. /\ files' = [files EXCEPT ![m.current] = f]
          /\ rec'[p] = r /\ man'[p] = Counted(m, r) /\ body'[p] = body[p]
          /\ pc'[p] \in {"rotate", "save"}
          /\ UNCHANGED <<manifest, damaged>>
      BY <1>6, <1>a DEF Write, ghost
    <2>7. r = NewRecord(body'[p], manifest.lastHash)
      BY <2>1, <2>6
    <2> HIDE DEF r, f
    <2>8. IsFiniteSet(Positions(files'))
      BY <1>a, <2>2, <2>3, <2>4, <2>6, LinePositions DEF ShapeInv, DiskShape
    <2>9. /\ files'[m.current] = f
          /\ \A k \in SegIdx : k # m.current => files'[k] = files[k]
      BY <1>a, <2>2, <2>6
    <2>10. Points(files, m)
      BY <2>1 DEF ShapeInv, DiskShape
    <2>11. Points(files', m)
      BY <2>1, <2>2, <2>4, <2>9, <2>10 DEF Points, Manifest
    <2>12. DiskShape'
      BY <2>1, <2>4, <2>6, <2>8, <2>9, <2>11 DEF ShapeInv, DiskShape
    <2>13. Points(files', man'[p])
      BY <2>5, <2>6, <2>11 DEF Points
    <2>14. CallShape(p)'
      BY <2>1, <2>5, <2>6, <2>7, <2>13 DEF CallShape, Uncommitted
    <2>15. QED
      BY <1>3, <1>6, <2>12, <2>14 DEF ShapeInv
  <1>7. ASSUME NEW p \in Procs, PartialWrite(p)
        PROVE  ShapeInv'
    <2> DEFINE m == man[p]
               r == NewRecord(body[p], m.lastHash)
    <2>1. /\ pc[p] = "write" /\ m \in Manifest /\ body[p] \in Bodies
          /\ manifest # NoManifest /\ m = manifest
      BY <1>7 DEF PartialWrite, ShapeInv, CallShape, TypeInv, LocalsInv, Loaded
    <2>2. m.lastHash \in HashVal /\ m.current \in SegIdx
      BY <2>1 DEF Manifest
    <2>3. r \in Record
      BY <2>1, <2>2, NewRecordType
    <2> HIDE DEF r
    <2>4. PICK n \in 1 .. (r.body.bytes - 1) :
              files' = [files EXCEPT ![m.current] =
                           PartialLine(files[m.current], r, n)]
      BY <1>7 DEF PartialWrite, r
    <2> DEFINE f == PartialLine(files[m.current], r, n)
               l == IF n = r.body.bytes - 1 THEN r ELSE Torn
    <2>5. /\ f \in File /\ f.exists /\ l \in Line
          /\ f.lines = LinesWith(files[m.current], l)
      BY <2>2, <2>3, <1>a, PartialLineType DEF PartialLine, Line
    <2>nonempty. f.lines # <<>>
      <3>1. /\ files[m.current].lines \in Seq(Line)
            /\ files[m.current].open => files[m.current].lines # <<>>
        BY <1>a, <2>2 DEF File, ShapeInv, DiskShape
      <3>2. CASE files[m.current].open
        <4>1. Len(f.lines) = Len(files[m.current].lines)
          BY <2>5, <3>1, <3>2 DEF LinesWith
        <4>2. Len(files[m.current].lines) # 0
          BY <3>1, <3>2
        <4>3. QED
          BY <4>1, <4>2
      <3>3. CASE ~files[m.current].open
        BY <2>5, <3>1, <3>3 DEF LinesWith
      <3>4. QED
        BY <3>2, <3>3
    <2>6. /\ pc'[p] = "release" /\ res'[p] = "error"
          /\ UNCHANGED manifest
      BY <1>7, <1>a DEF PartialWrite, Leave
    <2> HIDE DEF f, l
    <2>7. files' = [files EXCEPT ![m.current] = f]
      BY <2>4 DEF f
    <2>8. IsFiniteSet(Positions(files'))
      BY <1>a, <2>2, <2>5, <2>7, LinePositions DEF ShapeInv, DiskShape
    <2>9. /\ files'[m.current] = f
          /\ \A k \in SegIdx : k # m.current => files'[k] = files[k]
      BY <1>a, <2>2, <2>7
    <2>10. Points(files, m)
      BY <2>1 DEF ShapeInv, DiskShape
    <2>11. Points(files', m)
      BY <2>1, <2>2, <2>5, <2>9, <2>10 DEF Points, Manifest
    <2>12. DiskShape'
      BY <2>1, <2>5, <2>nonempty, <2>6, <2>8, <2>9, <2>11 DEF ShapeInv, DiskShape
    <2>13. CallShape(p)'
      BY <2>6 DEF CallShape, Uncommitted
    <2>14. QED
      BY <1>3, <1>7, <2>12, <2>13 DEF ShapeInv
  <1>8. ASSUME NEW p \in Procs, Rotate(p)
        PROVE  ShapeInv'
    <2>1. CASE ~NamesOrdered(files)
      <3>1. /\ UNCHANGED <<files, manifest>>
            /\ manifest # NoManifest
            /\ pc'[p] = "release" /\ res'[p] = "error"
        BY <1>8, <2>1, <1>a
           DEF Rotate, Leave, ShapeInv, CallShape, Uncommitted
      <3>2. DiskShape'
        BY <3>1 DEF ShapeInv, DiskShape
      <3>3. CallShape(p)'
        BY <3>1 DEF CallShape, Uncommitted
      <3>4. QED
        BY <1>3, <1>8, <3>2, <3>3 DEF ShapeInv
    <2>2. CASE NamesOrdered(files)
      <3> DEFINE m == man[p]
      <3>1. PICK k \in SegIdx :
                /\ IsLastName(files, k)
                /\ files' = [files EXCEPT ![k + 1] = EmptyFile]
                /\ man' = [man EXCEPT ![p] = Rotated(man[p], k + 1)]
        BY <1>8, <2>2 DEF Rotate
      <3>2. k + 1 \in SegIdx /\ k \in Nat
        BY <3>1, <2>2, SegIdxFacts DEF NamesOrdered, IsLastName
      <3>3. /\ pc[p] = "rotate" /\ pc'[p] = "save"
            /\ UNCHANGED <<manifest, damaged, rec, body>>
        BY <1>8, <2>2, <1>a DEF Rotate
      <3>4. m \in Manifest
        BY <3>3 DEF TypeInv, LocalsInv, Loaded
      <3>5. /\ Points(files, m) /\ Points(files, manifest)
            /\ manifest # NoManifest /\ manifest \in Manifest
            /\ manifest.sealed \subseteq m.sealed
            /\ rec[p] = NewRecord(body[p], manifest.lastHash)
            /\ m.lastHash = rec[p].hash /\ m.total = manifest.total + 1
        BY <3>3, <1>a DEF ShapeInv, CallShape, DiskShape, Uncommitted
      <3> HIDE DEF m
      <3>6. /\ man'[p].current = k + 1
            /\ man'[p].sealed = (m.sealed \cup {m.current}) \ {k + 1}
            /\ man'[p].lastHash = m.lastHash /\ man'[p].total = m.total
        BY <3>1, <3>4, <1>a DEF Rotated, Manifest, m
      <3>7. /\ files'[k + 1] = EmptyFile
            /\ \A j \in SegIdx : j # k + 1 => files'[j] = files[j]
        BY <1>a, <3>1, <3>2
      <3>8. \A j \in SegIdx : files[j].exists => files'[j].exists /\ j < k + 1
        BY <3>1, <3>2, <3>7, SegIdxFacts DEF IsLastName, EmptyFile
      <3>9. /\ m.current \in SegIdx /\ m.sealed \subseteq SegIdx
            /\ manifest.current \in SegIdx /\ manifest.sealed \subseteq SegIdx
        BY <3>4, <3>5 DEF Manifest
      <3>10. Points(files', manifest)
        BY <3>5, <3>8, <3>9 DEF Points
      <3>11. Points(files', man'[p])
        BY <3>5, <3>6, <3>7, <3>8, <3>9 DEF Points, EmptyFile
      <3>12. manifest.sealed \subseteq man'[p].sealed
        BY <3>2, <3>5, <3>6, <3>8, <3>9 DEF Points
      <3>13. IsFiniteSet(Positions(files'))
        BY <1>a, <3>1, <3>2, EmptyPositions DEF ShapeInv, DiskShape
      <3>14. DiskShape'
        BY <3>3, <3>5, <3>7, <3>10, <3>13
           DEF ShapeInv, DiskShape, EmptyFile
      <3>15. CallShape(p)'
        BY <3>3, <3>5, <3>6, <3>11, <3>12 DEF CallShape, Uncommitted
      <3>16. QED
        BY <1>3, <1>8, <3>14, <3>15 DEF ShapeInv
    <2>3. QED
      BY <2>1, <2>2
  <1>9. ASSUME NEW p \in Procs, Save(p)
        PROVE  ShapeInv'
    <2>1. /\ pc[p] = "save" /\ pc'[p] = "release"
          /\ manifest' = man[p]
          /\ UNCHANGED <<files, damaged, rec>>
      BY <1>9, <1>a DEF Save, Leave, ghost
    <2>2. /\ man[p] \in Manifest /\ Points(files, man[p])
          /\ body[p] \in Bodies
          /\ rec[p] = NewRecord(body[p], manifest.lastHash)
          /\ manifest \in Manifest
      BY <2>1, <1>a DEF ShapeInv, CallShape, Uncommitted, TypeInv, LocalsInv,
         Loaded
    <2>3. rec[p].hash # NoHash
      BY <2>2, NewRecordType DEF Manifest
    <2>4. man[p] # NoManifest
      BY <2>2, ManifestAssumption
    <2>5. DiskShape'
      BY <2>1, <2>2, <2>4 DEF ShapeInv, DiskShape
    <2>6. CallShape(p)'
      BY <2>1, <2>3 DEF CallShape, Uncommitted
    <2>7. QED
      BY <1>3, <1>9, <2>5, <2>6 DEF ShapeInv
  <1>10. ASSUME NEW p \in Procs, Validate(p)
         PROVE  ShapeInv'
    <2>1. /\ UNCHANGED <<files, manifest, damaged>>
          /\ pc'[p] = "release" /\ op'[p] = "validate"
      BY <1>10, <1>a DEF Validate, Leave, disk, ghost, TypeInv, LocalsInv
    <2>2. DiskShape'
      BY <2>1 DEF ShapeInv, DiskShape
    <2>3. CallShape(p)'
      BY <2>1 DEF CallShape, Uncommitted
    <2>4. QED
      BY <1>3, <1>10, <2>2, <2>3 DEF ShapeInv
  <1>11. ASSUME NEW p \in Procs, SkipRotation(p)
         PROVE  ShapeInv'
    <2>1. /\ UNCHANGED <<files, manifest, damaged, man, rec, body>>
          /\ pc[p] = "rotate" /\ pc'[p] = "save"
      BY <1>11, <1>a DEF SkipRotation, disk, ghost
    <2>2. DiskShape'
      BY <2>1 DEF ShapeInv, DiskShape
    <2>3. CallShape(p)'
      BY <2>1 DEF ShapeInv, CallShape, Uncommitted
    <2>4. QED
      BY <1>3, <1>11, <2>2, <2>3 DEF ShapeInv
  <1>12. ASSUME NEW p \in Procs, Fail(p) \/ Return(p) \/ Crash(p)
         PROVE  ShapeInv'
    <2>1. /\ UNCHANGED <<files, manifest>>
          /\ damaged' => damaged \/ pc[p] \in Uncommitted
          /\ pc'[p] = "idle" \/ (pc'[p] = "release" /\ res'[p] = "error")
      BY <1>12, <1>a DEF Fail, Return, Crash, Leave, disk
    <2>2. pc[p] \in Uncommitted => manifest # NoManifest
      BY DEF ShapeInv, CallShape
    <2>3. DiskShape'
      BY <2>1, <2>2 DEF ShapeInv, DiskShape
    <2>4. CallShape(p)'
      BY <2>1 DEF CallShape, Uncommitted
    <2>5. QED
      BY <1>3, <1>12, <2>3, <2>4 DEF ShapeInv
  <1>13. CASE UNCHANGED vars
    <2>1. DiskShape'
      BY <1>13 DEF vars, ShapeInv, DiskShape
    <2>2. \A q \in Procs : CallShape(q)'
      BY <1>13 DEF vars, ShapeInv, CallShape
    <2>3. QED
      BY <2>1, <2>2 DEF ShapeInv
  <1>14. QED
    BY <1>1, <1>2, <1>4, <1>5, <1>6, <1>7, <1>8, <1>9, <1>10, <1>11, <1>12,
       <1>13 DEF Next, Step, Fault

-----------------------------------------------------------------------------
(* Files and manifest match.                                               *)

LEMMA ContentInit == Init => ContentInv
  BY DEF Init, ContentInv, Uncommitted

\* While a call holds the lock, nobody else has an unsaved record.
LEMMA OneWriter ==
    ASSUME TypeInv, LockInv, NEW p \in Procs, lock = p
    PROVE  \A q \in Procs : q # p => pc[q] \notin Uncommitted
  BY DEF LockInv, Uncommitted

\* Steps that touch neither the disk nor an unsaved record.
LEMMA QuietContent ==
    ASSUME ContentInv, UNCHANGED <<files, manifest>>,
           damaged => damaged',
           \A q \in Procs :
               /\ pc'[q] \in Uncommitted <=> pc[q] \in Uncommitted
               /\ pc[q] \in Uncommitted => man'[q] = man[q]
    PROVE  ContentInv'
  BY DEF ContentInv

LEMMA ContentStep == StoreInv /\ [Next]_vars => ContentInv'
  <1> SUFFICES ASSUME StoreInv, [Next]_vars PROVE ContentInv'
    OBVIOUS
  <1>0. TypeInv /\ LockInv /\ ShapeInv /\ ContentInv
    BY DEF StoreInv
  <1>a. /\ files \in [SegIdx -> File]
        /\ manifest \in Manifest \cup {NoManifest}
        /\ pc \in [Procs -> Steps] /\ damaged \in BOOLEAN
        /\ man \in [Procs -> Manifest \cup {NoManifest}]
        /\ rec \in [Procs -> Record \cup {NoRecord}]
        /\ body \in [Procs -> Bodies \cup {NoBody}]
        /\ IsFiniteSet(Positions(files))
    BY <1>0 DEF TypeInv, TypeOK, ShapeInv, DiskShape
  <1>1. ASSUME NEW p \in Procs, NEW o \in Ops, NEW b \in Bodies \cup {NoBody},
               Call(p, o, b)
        PROVE  ContentInv'
    BY <1>0, <1>1, <1>a, QuietContent DEF Call, disk, ghost, Uncommitted
  <1>2. ASSUME NEW p \in Procs,
               Acquire(p) \/ Busy(p) \/ LockError(p) \/ Validate(p)
               \/ Return(p) \/ SkipRotation(p)
        PROVE  ContentInv'
    <2>1. /\ UNCHANGED <<files, manifest, damaged>>
          /\ \A q \in Procs :
                /\ pc'[q] \in Uncommitted <=> pc[q] \in Uncommitted
                /\ pc[q] \in Uncommitted => man'[q] = man[q]
      BY <1>2, <1>a DEF Acquire, Busy, LockError, Validate, Return,
         SkipRotation, Leave, Forget, disk, ghost, Uncommitted
    <2>2. QED
      BY <1>0, <2>1, QuietContent
  <1>3. ASSUME NEW p \in Procs, Fail(p) \/ Crash(p)
        PROVE  ContentInv'
    <2>1. CASE pc[p] \in Uncommitted
      BY <1>3, <2>1 DEF Fail, Crash, ContentInv
    <2>2. CASE pc[p] \notin Uncommitted
      <3>1. /\ UNCHANGED <<files, manifest>>
            /\ damaged => damaged'
            /\ \A q \in Procs :
                  /\ pc'[q] \in Uncommitted <=> pc[q] \in Uncommitted
                  /\ pc[q] \in Uncommitted => man'[q] = man[q]
        BY <1>3, <2>2, <1>a DEF Fail, Crash, Leave, Forget, disk, Uncommitted
      <3>2. QED
        BY <1>0, <3>1, QuietContent
    <2>3. QED
      BY <2>1, <2>2
  <1>4. ASSUME NEW p \in Procs, PartialWrite(p)
        PROVE  ContentInv'
    BY <1>4 DEF PartialWrite, ContentInv
  <1>5. ASSUME NEW p \in Procs,
               Load(p) \/ Create(p) \/ Write(p) \/ Rotate(p) \/ Save(p)
        PROVE  /\ \A q \in Procs : q # p => pc[q] \notin Uncommitted
               /\ \A q \in Procs : q # p => pc'[q] \notin Uncommitted
    <2>1. lock = p
      BY <1>0, <1>5 DEF LockInv, Load, Create, Write, Rotate, Save
    <2>2. \A q \in Procs : q # p => pc'[q] = pc[q]
      BY <1>5, <1>a DEF Load, Create, Write, Rotate, Save, Leave
    <2>3. QED
      BY <1>0, <2>1, <2>2, OneWriter
  <1>6. ASSUME NEW p \in Procs, Load(p)
        PROVE  ContentInv'
    <2>1. UNCHANGED <<manifest, damaged>> /\ pc[p] = "load"
      BY <1>6 DEF Load, ghost
    <2>2. pc'[p] \notin Uncommitted
      BY <1>6, <1>a DEF Load, Leave, Uncommitted
    <2>3. CASE manifest = NoManifest
      BY <1>5, <1>6, <2>1, <2>2, <2>3 DEF ContentInv
    <2>4. CASE manifest # NoManifest
      <3>1. UNCHANGED files /\ pc[p] \notin Uncommitted
        BY <1>6, <2>4 DEF Load, Uncommitted
      <3>2. QED
        BY <1>0, <1>5, <1>6, <2>1, <2>2, <3>1 DEF ContentInv
    <2>5. QED
      BY <2>3, <2>4
  <1>7. ASSUME NEW p \in Procs, Create(p)
        PROVE  ContentInv'
    <2>1. /\ manifest' = EmptyManifest /\ UNCHANGED files
          /\ files[1] = EmptyFile /\ Blank(files)
      BY <1>0, <1>7 DEF Create, ShapeInv, CallShape, DiskShape
    <2>2. pc'[p] \notin Uncommitted
      BY <1>7, <1>a DEF Create, Leave, Uncommitted
    <2>3. Matches(files', manifest')
      BY <1>a, <2>1, BlankMatches
    <2>4. QED
      BY <1>5, <1>7, <2>2, <2>3 DEF ContentInv
  <1>8. ASSUME NEW p \in Procs, Write(p)
        PROVE  ContentInv'
    <2> DEFINE m == man[p]
               c == m.current
               r == NewRecord(body[p], m.lastHash)
    <2>1. /\ m \in Manifest /\ body[p] \in Bodies
          /\ manifest # NoManifest /\ m = manifest /\ pc[p] \notin Uncommitted
      BY <1>0, <1>8 DEF Write, ShapeInv, CallShape, TypeInv, LocalsInv, Loaded,
           Uncommitted
    <2>2. m.lastHash \in HashVal /\ c \in SegIdx
      BY <2>1 DEF Manifest
    <2>3. /\ r \in Record /\ r.prev = m.lastHash
          /\ r.hash = ComputeHash(r.body, r.prev)
      BY <2>1, <2>2, NewRecordType DEF NewRecord
    <2>4. /\ man'[p] = Counted(m, r)
          /\ pc'[p] \in Uncommitted /\ UNCHANGED <<manifest, damaged>>
          /\ files' = [files EXCEPT ![c] = AppendLine(files[c], r)]
      BY <1>8, <1>a DEF Write, ghost, Uncommitted
    <2> HIDE DEF m, r
    <2>5. /\ \A k \in SegIdx : k # c => files'[k] = files[k]
          /\ files'[c] = AppendLine(files[c], r)
      BY <1>a, <2>2, <2>4
    <2>6. ~damaged => Matches(files, m)
      BY <1>0, <1>5, <1>8, <2>1 DEF ContentInv
    <2> HIDE DEF c
    <2>7. c = m.current
      BY DEF c
    <2>8. ~damaged => Matches(files', Counted(m, r))
      BY <1>a, <2>1, <2>2, <2>3, <2>5, <2>6, <2>7, AppendMatches
    <2>9. QED
      BY <1>5, <1>8, <2>4, <2>8 DEF ContentInv
  <1>9. ASSUME NEW p \in Procs, Rotate(p)
        PROVE  ContentInv'
    <2>1. CASE ~NamesOrdered(files)
      BY <1>9, <2>1 DEF Rotate, ContentInv
    <2>2. CASE NamesOrdered(files)
      <3>1. PICK k \in SegIdx :
                /\ IsLastName(files, k)
                /\ files' = [files EXCEPT ![k + 1] = EmptyFile]
                /\ man' = [man EXCEPT ![p] = Rotated(man[p], k + 1)]
        BY <1>9, <2>2 DEF Rotate
      <3>2. k + 1 \in SegIdx
        BY <3>1, <2>2, SegIdxFacts DEF NamesOrdered, IsLastName
      <3>3. /\ pc[p] \in Uncommitted /\ pc'[p] \in Uncommitted
            /\ UNCHANGED <<manifest, damaged>>
            /\ man'[p] = Rotated(man[p], k + 1)
        BY <1>9, <2>2, <1>a, <3>1 DEF Rotate, Uncommitted
      <3>4. man[p] \in Manifest
        BY <1>0, <3>3 DEF TypeInv, LocalsInv, Loaded, Uncommitted
      <3>5. ~damaged => Matches(files, man[p])
        BY <1>0, <3>3 DEF ContentInv
      <3>6. ~damaged => Matches(files', man'[p])
        BY <1>a, <3>1, <3>2, <3>3, <3>4, <3>5, RotateMatches
      <3>7. QED
        BY <1>5, <1>9, <3>3, <3>6 DEF ContentInv
    <2>3. QED
      BY <2>1, <2>2
  <1>10. ASSUME NEW p \in Procs, Save(p)
         PROVE  ContentInv'
    <2>1. /\ pc[p] \in Uncommitted /\ pc'[p] \notin Uncommitted
          /\ UNCHANGED <<files, damaged>> /\ manifest' = man[p]
      BY <1>10, <1>a DEF Save, Leave, ghost, Uncommitted
    <2>2. QED
      BY <1>0, <1>5, <1>10, <2>1 DEF ContentInv
  <1>11. CASE UNCHANGED vars
    BY <1>0, <1>11, QuietContent DEF vars
  <1>12. QED
    BY <1>1, <1>2, <1>3, <1>4, <1>6, <1>7, <1>8, <1>9, <1>10, <1>11
       DEF Next, Step, Fault

LEMMA StoreInvariant == Spec => []StoreInv
  <1>1. Init => StoreInv
    <2>1. Init => LockInv
      BY ConstantsAssumption DEF Init, LockInv
    <2>2. QED
      BY <2>1, TypeInit, ShapeInit, ContentInit DEF StoreInv
  <1>2. StoreInv /\ [Next]_vars => StoreInv'
    BY TypeStep, LockStep, ShapeStep, ContentStep DEF StoreInv
  <1>3. QED
    BY <1>1, <1>2, PTL DEF Spec

-----------------------------------------------------------------------------
(* The theorems about the parts so far.                                    *)

\* TypeOK holds in every state: every handler of the store keeps the records,
\* the segment files, the manifest and the locals of a call well formed.
THEOREM TypeCorrect == Spec => []TypeOK
  <1>1. TypeInv => TypeOK
    BY DEF TypeInv
  <1>2. QED
    BY <1>1, TypeInit, TypeStep, PTL DEF Spec

\* UndamagedStoreValid holds in every state, for any number of callers, records,
\* crashes and failed file operations and any segment size: the store that
\* appendSegmented and loadOrInitManifest leave behind passes
\* validateSegmentedChain, unless a writer was cut off between its line and
\* the manifest, the policy changed, the segment names ran out, or a record is
\* too long for the scanner that reads it back.
THEOREM UndamagedIsValid == Spec => []UndamagedStoreValid
  <1>1. StoreInv => UndamagedStoreValid
    <2> SUFFICES ASSUME StoreInv, lock = NoProc, manifest # NoManifest, ~damaged,
                        OnePolicy, NamesOrdered(files), LinesFit(files)
                 PROVE  ChainValid(files, manifest)
      BY DEF UndamagedStoreValid
    <2>1. TypeInv /\ LockInv /\ ContentInv
      BY DEF StoreInv
    <2>2. files \in [SegIdx -> File] /\ manifest \in Manifest
      BY <2>1 DEF TypeInv, TypeOK
    <2>3. \A p \in Procs : pc[p] \notin Uncommitted
      BY <2>1, ConstantsAssumption DEF LockInv, Uncommitted
    <2>4. Matches(files, manifest)
      BY <2>1, <2>3 DEF ContentInv
    <2>5. QED
      BY <2>2, <2>4, MatchesValid DEF OnePolicy
  <1>2. QED
    BY <1>1, StoreInvariant, PTL

-----------------------------------------------------------------------------
(* The refinement of the Ledger.                                           *)

\* Steps after which no call has more to acknowledge than before.
LEMMA LedgerStutter ==
    ASSUME UNCHANGED acked, CommittedChain' = CommittedChain,
           \A q \in Procs : OwnChain(q)' = OwnChain(q)
    PROVE  UNCHANGED L!vars
  BY DEF L!vars

LEMMA LedgerStep == StoreInv /\ [Next]_vars => [L!Next]_(L!vars)
  <1> SUFFICES ASSUME StoreInv, [Next]_vars PROVE [L!Next]_(L!vars)
    OBVIOUS
  <1>0. TypeInv /\ LockInv /\ ShapeInv
    BY DEF StoreInv
  <1>a. /\ manifest \in Manifest \cup {NoManifest}
        /\ pc \in [Procs -> Steps] /\ op \in [Procs -> Ops]
        /\ res \in [Procs -> Answers]
        /\ rec \in [Procs -> Record \cup {NoRecord}]
        /\ acked \subseteq Record
    BY <1>0 DEF TypeInv, TypeOK
  <1>1. ASSUME NEW p \in Procs, NEW o \in Ops, NEW b \in Bodies \cup {NoBody},
               Call(p, o, b)
        PROVE  UNCHANGED L!vars
    <2>1. \A q \in Procs : OwnChain(q)' = OwnChain(q)
      BY <1>1, <1>a DEF Call, OwnChain
    <2>2. UNCHANGED <<manifest, acked>>
      BY <1>1 DEF Call, disk, ghost
    <2>3. QED
      BY <2>1, <2>2, LedgerStutter DEF CommittedChain
  <1>2. ASSUME NEW p \in Procs,
               \/ Acquire(p) \/ Busy(p) \/ LockError(p) \/ Load(p)
               \/ Write(p) \/ Rotate(p)
               \/ SkipRotation(p) \/ Fail(p) \/ PartialWrite(p) \/ Validate(p)
        PROVE  UNCHANGED L!vars
    <2>1. /\ UNCHANGED <<manifest, acked, op>>
          /\ pc[p] # "release"
          /\ \A q \in Procs : q # p => /\ pc'[q] = pc[q] /\ res'[q] = res[q]
                                       /\ rec'[q] = rec[q]
      BY <1>2, <1>a DEF Acquire, Busy, LockError, Load, Write, Rotate,
         SkipRotation, Fail, PartialWrite, Validate, Leave, disk, ghost, Writing
    <2>2. ~(pc'[p] = "release" /\ op[p] = "append" /\ res'[p] = "ok")
      <3>1. pc[p] = "validate" => op[p] = "validate"
        BY <1>0 DEF TypeInv, LocalsInv
      <3>2. QED
        BY <1>2, <1>a, <3>1 DEF Acquire, Busy, LockError, Load, Write, Rotate,
           SkipRotation, Fail, PartialWrite, Validate, Leave
    <2>3. \A q \in Procs : OwnChain(q)' = OwnChain(q)
      BY <2>1, <2>2 DEF OwnChain
    <2>4. QED
      BY <2>1, <2>3, LedgerStutter DEF CommittedChain
  <1>3. ASSUME NEW p \in Procs, Create(p)
        PROVE  UNCHANGED L!vars
    <2>1. /\ manifest = NoManifest /\ manifest' = EmptyManifest
          /\ EmptyManifest # NoManifest
      BY <1>0, <1>3, ManifestType, ManifestAssumption
         DEF Create, ShapeInv, CallShape
    <2>2. CommittedChain' = CommittedChain
      BY <2>1 DEF CommittedChain, EmptyManifest
    <2>3. /\ UNCHANGED <<acked, op, rec>> /\ pc[p] = "create"
          /\ \A q \in Procs : q # p => pc'[q] = pc[q] /\ res'[q] = res[q]
          /\ pc'[p] = "release" => op[p] = "init"
      BY <1>3, <1>a DEF Create, Leave, ghost
    <2>4. \A q \in Procs : OwnChain(q)' = OwnChain(q)
      BY <2>3 DEF OwnChain
    <2>5. QED
      BY <2>2, <2>3, <2>4, LedgerStutter
  <1>4. ASSUME NEW p \in Procs, Save(p)
        PROVE  \E e \in {Canonical(b) : b \in Bodies} : L!Commit(p, e)
    <2>1. /\ pc[p] = "save" /\ op[p] = "append" /\ body[p] \in Bodies
          /\ manifest # NoManifest /\ manifest' = man[p]
          /\ man[p] \in Manifest
          /\ rec[p] = NewRecord(body[p], manifest.lastHash)
          /\ man[p].lastHash = rec[p].hash
      BY <1>0, <1>4 DEF Save, ShapeInv, CallShape, Uncommitted, TypeInv,
           LocalsInv, Loaded
    <2>2. /\ UNCHANGED <<acked, op, rec>>
          /\ pc'[p] = "release" /\ res'[p] = "ok"
          /\ \A q \in Procs : q # p => pc'[q] = pc[q] /\ res'[q] = res[q]
      BY <1>4, <1>a DEF Save, Leave, ghost
    <2>3. manifest' # NoManifest
      BY <2>1, ManifestAssumption
    <2>4. CommittedChain' = rec[p].hash
      BY <2>1, <2>3 DEF CommittedChain
    <2>5. rec[p].hash = Append(CommittedChain, Canonical(body[p]))
      BY <2>1 DEF CommittedChain, NewRecord, ComputeHash
    <2>6. OwnChain(p)' = rec[p].hash
      BY <2>1, <2>2 DEF OwnChain
    <2>7. \A q \in Procs : q # p => OwnChain(q)' = OwnChain(q)
      BY <2>2 DEF OwnChain
    <2>8. L!Commit(p, Canonical(body[p]))
      BY <2>2, <2>4, <2>5, <2>6, <2>7 DEF L!Commit
    <2>9. QED
      BY <2>1, <2>8
  <1>5. ASSUME NEW p \in Procs, Return(p) \/ Crash(p)
        PROVE  L!Acknowledge(p) \/ L!Lose(p) \/ UNCHANGED L!vars
    <2>1. /\ UNCHANGED <<manifest, op>> /\ pc'[p] = "idle"
          /\ \A q \in Procs : q # p => /\ pc'[q] = pc[q] /\ res'[q] = res[q]
                                       /\ rec'[q] = rec[q]
      BY <1>5, <1>a DEF Return, Crash, Forget, disk
    <2>2. /\ CommittedChain' = CommittedChain
          /\ OwnChain(p)' = <<>>
          /\ \A q \in Procs : q # p => OwnChain(q)' = OwnChain(q)
      BY <2>1 DEF CommittedChain, OwnChain, NoHash
    <2>3. CASE OwnChain(p) = <<>>
      <3>1. ~(pc[p] = "release" /\ op[p] = "append" /\ res[p] = "ok")
        BY <1>0, <2>3 DEF OwnChain, ShapeInv, CallShape, NoHash
      <3>2. UNCHANGED acked
        BY <1>5, <3>1 DEF Return, Crash
      <3>3. QED
        BY <2>2, <2>3, <3>2, LedgerStutter
    <2>4. CASE OwnChain(p) # <<>>
      <3>1. pc[p] = "release" /\ op[p] = "append" /\ res[p] = "ok"
              /\ OwnChain(p) = rec[p].hash
        BY <2>4 DEF OwnChain, NoHash
      <3>2. CASE Return(p)
        <4>1. acked' = acked \cup {rec[p]}
          BY <3>1, <3>2 DEF Return
        <4>2. L!Acknowledge(p)
          BY <2>2, <2>4, <3>1, <4>1 DEF L!Acknowledge
        <4>3. QED
          BY <4>2
      <3>3. CASE Crash(p)
        <4>1. UNCHANGED acked
          BY <3>3 DEF Crash
        <4>2. L!Lose(p)
          BY <2>2, <2>4, <4>1 DEF L!Lose
        <4>3. QED
          BY <4>2
      <3>4. QED
        BY <1>5, <3>2, <3>3
    <2>5. QED
      BY <2>3, <2>4
  <1>6. CASE UNCHANGED vars
    <2>1. \A q \in Procs : OwnChain(q)' = OwnChain(q)
      BY <1>6 DEF vars, OwnChain
    <2>2. QED
      BY <1>6, <2>1, LedgerStutter DEF vars, CommittedChain
  <1>7. QED
    BY <1>1, <1>2, <1>3, <1>4, <1>5, <1>6 DEF Next, Step, Fault, L!Next

\* LedgerSpec: every behaviour of the store, with all its crashes and failed
\* file operations, is one of the Ledger: records take effect one at a time
\* at the rename of manifest.json, and only such records are acknowledged.
THEOREM StoreImplementsLedger == Spec => LedgerSpec
  <1>1. Init => L!Init
    BY DEF Init, L!Init, CommittedChain, OwnChain, NoHash
  <1>2. QED
    BY <1>1, LedgerStep, StoreInvariant, PTL DEF Spec, LedgerSpec, L!Spec

-----------------------------------------------------------------------------
(* What the Ledger itself promises, in the terms of the store.             *)

Entries == {Canonical(b) : b \in Bodies}
Owns == [p \in Procs |-> OwnChain(p)]
Acks == {r.hash : r \in acked}

\* A prefix of the chain stays one when the chain grows.
LEMMA PrefixOfLonger ==
    ASSUME NEW s \in Seq(Entries), NEW t \in Seq(Entries), NEW e \in Entries,
           L!IsPrefixOf(s, t)
    PROVE  L!IsPrefixOf(s, Append(t, e))
  BY DEF L!IsPrefixOf

LEMMA LedgerInv ==
    L!Inv <=> /\ CommittedChain \in Seq(Entries)
              /\ Owns \in [Procs -> Seq(Entries)]
              /\ Acks \subseteq Seq(Entries)
              /\ \A a \in Acks : a # <<>> /\ L!IsPrefixOf(a, CommittedChain)
              /\ \A p \in Procs : L!IsPrefixOf(Owns[p], CommittedChain)
  BY DEF L!Inv, L!TypeOK, L!AcksArePrefixes, Entries, Owns, Acks

\* The invariant of the Ledger is inductive, whatever its steps stand for.
LEMMA LedgerKeepsInv == L!Inv /\ [L!Next]_(L!vars) => L!Inv'
  <1> SUFFICES ASSUME L!Inv, [L!Next]_(L!vars) PROVE L!Inv'
    OBVIOUS
  <1> DEFINE Good(c, o, a) ==
        /\ c \in Seq(Entries)
        /\ o \in [Procs -> Seq(Entries)]
        /\ a \subseteq Seq(Entries)
        /\ \A x \in a : x # <<>> /\ L!IsPrefixOf(x, c)
        /\ \A p \in Procs : L!IsPrefixOf(o[p], c)
  <1>0. Good(CommittedChain, Owns, Acks)
    BY LedgerInv
  <1>1. ASSUME NEW w \in Procs, NEW e \in Entries, L!Commit(w, e)
        PROVE  Good(CommittedChain', Owns', Acks')
    <2>1. /\ CommittedChain' = Append(CommittedChain, e)
          /\ Owns' = [Owns EXCEPT ![w] = CommittedChain']
          /\ Acks' = Acks
      BY <1>1 DEF L!Commit, Owns, Acks
    <2>2. CommittedChain' \in Seq(Entries)
      BY <1>0, <2>1
    <2>3. L!IsPrefixOf(CommittedChain', CommittedChain')
      BY <2>2 DEF L!IsPrefixOf
    <2>4. \A x \in Acks' : x # <<>> /\ L!IsPrefixOf(x, CommittedChain')
      BY <1>0, <2>1, PrefixOfLonger
    <2>5. \A p \in Procs : L!IsPrefixOf(Owns'[p], CommittedChain')
      BY <1>0, <2>1, <2>3, PrefixOfLonger
    <2>6. QED
      BY <1>0, <2>1, <2>2, <2>4, <2>5
  <1>2. ASSUME NEW w \in Procs, L!Acknowledge(w) \/ L!Lose(w)
        PROVE  Good(CommittedChain', Owns', Acks')
    <2>1. /\ CommittedChain' = CommittedChain
          /\ Owns' = [Owns EXCEPT ![w] = <<>>]
          /\ \/ Acks' = Acks
             \/ Owns[w] # <<>> /\ Acks' = Acks \cup {Owns[w]}
      BY <1>2 DEF L!Acknowledge, L!Lose, Owns, Acks
    <2>2. L!IsPrefixOf(<<>>, CommittedChain)
      BY <1>0 DEF L!IsPrefixOf
    <2>3. QED
      BY <1>0, <2>1, <2>2
  <1>3. CASE UNCHANGED L!vars
    <2>1. CommittedChain' = CommittedChain /\ Owns' = Owns /\ Acks' = Acks
      BY <1>3 DEF L!vars, Owns, Acks
    <2>2. QED
      BY <1>0, <2>1 DEF L!Inv, L!TypeOK, L!AcksArePrefixes, Entries, Owns, Acks
  <1>4. Good(CommittedChain', Owns', Acks') => L!Inv'
    BY DEF L!Inv, L!TypeOK, L!AcksArePrefixes, Entries, Owns, Acks
  <1>5. QED
    BY <1>1, <1>2, <1>3, <1>4 DEF L!Next, Entries

\* The Ledger keeps what it acknowledged: AcksArePrefixes in all its states.
THEOREM LedgerKeepsAcks == L!Spec => []L!AcksArePrefixes
  <1>1. L!Init => L!Inv
    <2> SUFFICES ASSUME L!Init PROVE L!Inv
      OBVIOUS
    <2>1. /\ CommittedChain = <<>> /\ Acks = {}
          /\ Owns = [p \in Procs |-> <<>>]
      BY DEF L!Init, Owns, Acks
    <2>2. L!IsPrefixOf(<<>>, <<>>)
      BY DEF L!IsPrefixOf
    <2>3. QED
      BY <2>1, <2>2, LedgerInv
  <1>2. L!Inv => L!AcksArePrefixes
    BY DEF L!Inv
  <1>3. QED
    BY <1>1, <1>2, LedgerKeepsInv, PTL DEF L!Spec

\* AckedIsCommitted: no crash and no failed file operation, of any caller,
\* takes an acknowledged record out of the chain that manifest.json commits to.
THEOREM AckedStaysCommitted == Spec => []AckedIsCommitted
  BY StoreImplementsLedger, LedgerKeepsAcks, PTL DEF LedgerSpec,
     AckedIsCommitted

-----------------------------------------------------------------------------
(* What the steps do to the files.                                         *)

\* A write leaves all lines of its file alone but an unterminated last one.
LEMMA LineKeepsLines ==
    ASSUME NEW f \in File, NEW l \in Line, NEW i \in 1 .. Len(f.lines)
    PROVE  /\ i <= Len(LinesWith(f, l))
           /\ LinesWith(f, l)[i] = f.lines[i] \/ (f.open /\ i = Len(f.lines))
  <1>1. f.lines \in Seq(Line)
    BY DEF File
  <1>2. CASE f.open
    BY <1>1, <1>2 DEF LinesWith
  <1>3. CASE ~f.open
    BY <1>1, <1>3 DEF LinesWith
  <1>4. QED
    BY <1>2, <1>3

\* The file a step changes, if any: it is empty before, or gets a line in the
\* segment that the caller's manifest points to.
ChangesFile(p) ==
    \/ UNCHANGED files
    \/ \E k \in SegIdx :
          /\ files[k].lines = <<>>
          /\ manifest # NoManifest => ~files[k].exists
          /\ files' = [files EXCEPT ![k] = EmptyFile]
    \/ \E l \in Line, f \in File :
          /\ manifest # NoManifest
          /\ f.exists /\ f.lines = LinesWith(files[manifest.current], l)
          /\ files' = [files EXCEPT ![manifest.current] = f]

LEMMA StepFiles ==
    ASSUME StoreInv, NEW p \in Procs, Step(p) \/ Fault(p)
    PROVE  ChangesFile(p)
  <1>0. TypeInv /\ LockInv /\ ShapeInv
    BY DEF StoreInv
  <1>a. /\ files \in [SegIdx -> File]
        /\ manifest \in Manifest \cup {NoManifest}
    BY <1>0 DEF TypeInv, TypeOK
  <1>1. CASE Load(p)
    <2>1. CASE manifest = NoManifest
      <3>1. files' = [files EXCEPT ![1] = EmptyFile]
        BY <1>1, <2>1 DEF Load
      <3>2. files[1].lines = <<>>
        BY <1>0, <2>1, SegIdxFacts
           DEF ShapeInv, DiskShape, Blank, NoFile, EmptyFile
      <3>3. QED
        BY <2>1, <3>1, <3>2, SegIdxFacts DEF ChangesFile
    <2>2. QED
      BY <1>1, <2>1 DEF Load, ChangesFile
  <1>2. CASE Write(p)
    <2> DEFINE m == man[p]
               r == NewRecord(body[p], m.lastHash)
    <2>1. /\ m \in Manifest /\ body[p] \in Bodies
          /\ manifest # NoManifest /\ m = manifest
      BY <1>0, <1>2 DEF Write, ShapeInv, CallShape, TypeInv, LocalsInv, Loaded
    <2>2. r \in Record /\ r \in Line /\ files[m.current] \in File
      BY <1>a, <2>1, NewRecordType DEF Manifest, Line
    <2>3. /\ AppendLine(files[m.current], r) \in File
          /\ AppendLine(files[m.current], r).exists
          /\ AppendLine(files[m.current], r).lines
                = LinesWith(files[m.current], r)
      BY <2>2, AppendLineType DEF AppendLine
    <2>4. files' = [files EXCEPT ![m.current] = AppendLine(files[m.current], r)]
      BY <1>2 DEF Write
    <2> HIDE DEF r
    <2>5. QED
      BY <2>1, <2>2, <2>3, <2>4 DEF ChangesFile
  <1>3. CASE PartialWrite(p)
    <2> DEFINE m == man[p]
               r == NewRecord(body[p], m.lastHash)
    <2>1. /\ m \in Manifest /\ body[p] \in Bodies
          /\ manifest # NoManifest /\ m = manifest
      BY <1>0, <1>3
         DEF PartialWrite, ShapeInv, CallShape, TypeInv, LocalsInv, Loaded
    <2>2. r \in Record /\ files[m.current] \in File
      BY <1>a, <2>1, NewRecordType DEF Manifest
    <2> HIDE DEF r
    <2>3. PICK n \in 1 .. (r.body.bytes - 1) :
              files' = [files EXCEPT ![m.current] =
                           PartialLine(files[m.current], r, n)]
      BY <1>3 DEF PartialWrite, r
    <2> DEFINE l == IF n = r.body.bytes - 1 THEN r ELSE Torn
               f == PartialLine(files[m.current], r, n)
    <2>4. /\ f \in File /\ f.exists /\ l \in Line
          /\ f.lines = LinesWith(files[m.current], l)
      BY <2>2, PartialLineType DEF PartialLine, Line
    <2>5. files' = [files EXCEPT ![m.current] = f]
      BY <2>3
    <2> HIDE DEF l, f
    <2>6. QED
      BY <2>1, <2>4, <2>5 DEF ChangesFile
  <1>4. CASE Rotate(p)
    <2>1. CASE NamesOrdered(files)
      <3>1. PICK k \in SegIdx :
                /\ IsLastName(files, k)
                /\ files' = [files EXCEPT ![k + 1] = EmptyFile]
        BY <1>4, <2>1 DEF Rotate
      <3>2. k + 1 \in SegIdx /\ k \in Nat
        BY <3>1, <2>1, SegIdxFacts DEF NamesOrdered, IsLastName
      <3>3. ~files[k + 1].exists
        BY <3>1, <3>2 DEF IsLastName
      <3>4. files[k + 1].lines = <<>>
        BY <1>0, <3>2, <3>3 DEF ShapeInv, DiskShape, NoFile
      <3>5. QED
        BY <3>1, <3>2, <3>3, <3>4 DEF ChangesFile
    <2>2. QED
      BY <1>4, <2>1 DEF Rotate, ChangesFile
  <1>5. CASE \/ Acquire(p) \/ Busy(p) \/ LockError(p) \/ Create(p)
             \/ Save(p) \/ Validate(p)
             \/ Return(p) \/ SkipRotation(p) \/ Fail(p) \/ Crash(p)
    BY <1>5 DEF Acquire, Busy, LockError, Create, Save, Validate, Return,
       SkipRotation, Fail, Crash, disk, ChangesFile
  <1>6. QED
    BY <1>1, <1>2, <1>3, <1>4, <1>5 DEF Step, Fault

LEMMA FilesGrowStep == StoreInv /\ [Next]_vars => [FilesGrow]_vars
  <1> SUFFICES ASSUME StoreInv, Next PROVE FilesGrow
    OBVIOUS
  <1>0. files \in [SegIdx -> File] /\ manifest \in Manifest \cup {NoManifest}
    BY DEF StoreInv, TypeInv, TypeOK
  <1>1. CASE UNCHANGED files
    <2>1. \A k \in SegIdx : Len(files[k].lines) \in Nat
      BY <1>0 DEF File
    <2>2. QED
      BY <1>1, <2>1 DEF FilesGrow
  <1>2. ASSUME NEW p \in Procs, ChangesFile(p)
        PROVE  FilesGrow
    <2>1. ASSUME NEW k \in SegIdx, files[k].lines = <<>>,
                 files' = [files EXCEPT ![k] = EmptyFile]
          PROVE  FilesGrow
      <3>1. \A j \in SegIdx : Len(files[j].lines) \in Nat
        BY <1>0 DEF File
      <3>2. QED
        BY <1>0, <2>1, <3>1 DEF FilesGrow, EmptyFile
    <2>2. ASSUME NEW l \in Line, NEW f \in File, manifest # NoManifest,
                 f.exists, f.lines = LinesWith(files[manifest.current], l),
                 files' = [files EXCEPT ![manifest.current] = f]
          PROVE  FilesGrow
      <3>1. manifest.current \in SegIdx
        BY <1>0, <2>2 DEF Manifest
      <3>2. ASSUME NEW k \in SegIdx
            PROVE  /\ files[k].exists => files'[k].exists
                   /\ \A i \in 1 .. Len(files[k].lines) :
                          /\ i <= Len(files'[k].lines)
                          /\ files'[k].lines[i] = files[k].lines[i]
                                 \/ (files[k].open /\ i = Len(files[k].lines))
        <4>1. CASE k = manifest.current
          <5>1. files'[k] = f /\ files[k] \in File
            BY <1>0, <2>2, <4>1
          <5>2. f.lines = LinesWith(files[k], l)
            BY <2>2, <4>1
          <5>3. QED
            BY <2>2, <5>1, <5>2, LineKeepsLines
        <4>2. CASE k # manifest.current
          <5>1. files'[k] = files[k] /\ Len(files[k].lines) \in Nat
            BY <1>0, <2>2, <4>2 DEF File
          <5>2. QED
            BY <5>1
        <4>3. QED
          BY <4>1, <4>2
      <3>3. QED
        BY <3>2 DEF FilesGrow
    <2>3. QED
      BY <1>1, <1>2, <2>1, <2>2 DEF ChangesFile
  <1>3. ASSUME NEW p \in Procs, NEW o \in Ops, NEW b \in Bodies \cup {NoBody},
               Call(p, o, b)
        PROVE  UNCHANGED files
    BY <1>3 DEF Call, disk
  <1>4. QED
    BY <1>1, <1>2, <1>3, StepFiles DEF Next

\* AppendOnly: for any interleaving of callers, crashes and failures.
THEOREM StoreIsAppendOnly == Spec => AppendOnly
  BY StoreInvariant, FilesGrowStep, PTL DEF Spec, AppendOnly

LEMMA SealedStep == StoreInv /\ [Next]_vars => [SealedKept]_vars
  <1> SUFFICES ASSUME StoreInv, Next, manifest # NoManifest,
                      NEW k \in manifest.sealed
               PROVE  files'[k] = files[k] /\ k \in manifest'.sealed
    BY DEF SealedKept
  <1>0. /\ files \in [SegIdx -> File] /\ manifest \in Manifest
        /\ k \in SegIdx /\ k \in Nat /\ manifest.current \in Nat
    BY SegIdxFacts DEF StoreInv, TypeInv, TypeOK, Manifest
  <1>1. k < manifest.current /\ files[k].exists
    BY DEF StoreInv, ShapeInv, DiskShape, Points
  <1>2. ASSUME NEW p \in Procs, NEW o \in Ops, NEW b \in Bodies \cup {NoBody},
               Call(p, o, b)
        PROVE  files'[k] = files[k] /\ k \in manifest'.sealed
    BY <1>2 DEF Call, disk
  <1>3. ASSUME NEW p \in Procs, Step(p) \/ Fault(p)
        PROVE  files'[k] = files[k] /\ k \in manifest'.sealed
    <2>1. files'[k] = files[k]
      <3>1. ChangesFile(p)
        BY <1>3, StepFiles
      <3>2. ASSUME NEW j \in SegIdx, ~files[j].exists,
                   files' = [files EXCEPT ![j] = EmptyFile]
            PROVE  files'[k] = files[k]
        BY <1>0, <1>1, <3>2
      <3>3. ASSUME NEW f \in File,
                   files' = [files EXCEPT ![manifest.current] = f]
            PROVE  files'[k] = files[k]
        BY <1>0, <1>1, <3>3
      <3>4. QED
        BY <3>1, <3>2, <3>3 DEF ChangesFile
    <2>2. CASE Save(p)
      <3>1. manifest' = man[p] /\ pc[p] \in Uncommitted
        BY <2>2 DEF Save, Uncommitted
      <3>2. QED
        BY <2>1, <3>1 DEF StoreInv, ShapeInv, CallShape
    <2>3. CASE ~Save(p)
      <3>1. ~Create(p)
        BY DEF Create, StoreInv, ShapeInv, CallShape
      <3>2. manifest' = manifest
        BY <1>3, <2>3, <3>1 DEF Step, Fault, Acquire, Busy, LockError, Load,
           Write, Rotate,
           Validate, Return, SkipRotation, Fail, PartialWrite, Crash, disk
      <3>3. QED
        BY <2>1, <3>2
    <2>4. QED
      BY <2>2, <2>3
  <1>4. QED
    BY <1>2, <1>3 DEF Next

\* SealedIsFinal: a rotation, also one that is cut off and done again by the
\* next writer, never reopens a sealed segment or takes it off the list.
THEOREM SealedStaysFinal == Spec => SealedIsFinal
  BY StoreInvariant, SealedStep, PTL DEF Spec, SealedIsFinal

-----------------------------------------------------------------------------
(* A store that was damaged is rejected by ValidateChain for ever after:   *)
(* appends neither repair the damage nor hide it.                          *)

\* Files G are files F after a write of line l on file c.
Written(F, G, c, l) ==
    /\ \A k \in SegIdx : k # c => G[k] = F[k]
    /\ G[c].lines = LinesWith(F[c], l)

\* A line behind an unterminated one makes a line that does not parse.
LEMMA OpenWriteTears ==
    ASSUME NEW F \in [SegIdx -> File], NEW G, NEW c \in SegIdx, NEW l \in Line,
           Written(F, G, c, l), F[c].open, F[c].lines # <<>>
    PROVE  \E q \in Positions(G) : LineAt(G, q) = Torn
  <1> DEFINE n == Len(F[c].lines)
             q == <<c, n>>
  <1>1. F[c].lines \in Seq(Line) /\ n \in Nat \ {0}
    BY DEF File
  <1>2. /\ Len(G[c].lines) = n
        /\ G[c].lines[n] = Torn
    BY <1>1 DEF Written, LinesWith
  <1>3. q \in Positions(G)
    BY <1>1, <1>2 DEF Positions
  <1>4. LineAt(G, q) = Torn
    BY <1>2 DEF LineAt
  <1>5. QED
    BY <1>3, <1>4

\* A write, counted or not, does not mend anything.
LEMMA WriteStaysBroken ==
    ASSUME NEW F \in [SegIdx -> File], NEW G, NEW c \in SegIdx, NEW l \in Line,
           Written(F, G, c, l), F[c].open => F[c].lines # <<>>,
           IsFiniteSet(Positions(F)),
           NEW m, m.total \in Nat, NEW n, n.total \in Nat,
           n.total <= m.total + 1, Broken(F, m)
    PROVE  Broken(G, n)
  <1>1. CASE F[c].open
    BY <1>1, OpenWriteTears DEF Broken
  <1>2. CASE ~F[c].open
    <2> DEFINE q0 == <<c, Len(F[c].lines) + 1>>
    <2>1. /\ \A k \in SegIdx : k # c => G[k] = F[k]
          /\ G[c].lines = LinesWith(F[c], l)
      BY DEF Written
    <2>2. /\ Positions(G) = Positions(F) \cup {q0}
          /\ q0 \notin Positions(F)
          /\ \A q \in Positions(F) : LineAt(G, q) = LineAt(F, q)
      BY <1>2, <2>1, NewPosition
    <2> HIDE DEF q0
    <2>3. /\ Cardinality(Positions(G)) = Cardinality(Positions(F)) + 1
          /\ Cardinality(Positions(F)) \in Nat
      BY <2>2, FS_AddElement, FS_CardinalityType
    <2>4. QED
      BY <2>2, <2>3 DEF Broken
  <1>3. QED
    BY <1>1, <1>2

\* A line that is cut off leaves files with a line too many.
LEMMA WriteBreaks ==
    ASSUME NEW F \in [SegIdx -> File], NEW G, NEW c \in SegIdx, NEW l \in Line,
           Written(F, G, c, l), F[c].open => F[c].lines # <<>>,
           IsFiniteSet(Positions(F)),
           NEW m \in Manifest, Matches(F, m)
    PROVE  Broken(G, m)
  <1>1. CASE F[c].open
    BY <1>1, OpenWriteTears DEF Broken
  <1>2. CASE ~F[c].open
    <2> DEFINE q0 == <<c, Len(F[c].lines) + 1>>
    <2>1. /\ \A k \in SegIdx : k # c => G[k] = F[k]
          /\ G[c].lines = LinesWith(F[c], l)
      BY DEF Written
    <2>2. /\ Positions(G) = Positions(F) \cup {q0}
          /\ q0 \notin Positions(F)
      BY <1>2, <2>1, NewPosition
    <2> HIDE DEF q0
    <2>3. /\ Cardinality(Positions(G)) = Cardinality(Positions(F)) + 1
          /\ Cardinality(Positions(F)) \in Nat
      BY <2>2, FS_AddElement, FS_CardinalityType
    <2>4. QED
      BY <2>3 DEF Broken, Matches, TotalsOk
  <1>3. QED
    BY <1>1, <1>2

\* The manifest on disk, one record behind, disagrees with the files.
LEMMA BehindIsBroken ==
    ASSUME NEW F, NEW m, NEW n, m.total \in Nat, n.total = m.total + 1,
           IsFiniteSet(Positions(F)), Matches(F, n) \/ Broken(F, n)
    PROVE  Broken(F, m)
  BY FS_CardinalityType DEF Broken, Matches, TotalsOk

\* Broken files do not pass validateSegmentedChain.
LEMMA BrokenIsInvalid ==
    ASSUME NEW F, NEW m \in Manifest, Broken(F, m)
    PROVE  ~ChainValid(F, m)
  BY DEF Broken, ChainValid, LinesParse, TotalsOk, Manifest

-----------------------------------------------------------------------------
LEMMA QuietDamage ==
    ASSUME DamageInv, UNCHANGED <<files, manifest>>,
           damaged' => damaged,
           \A q \in Procs :
               /\ pc'[q] \in Uncommitted <=> pc[q] \in Uncommitted
               /\ pc[q] \in Uncommitted => man'[q] = man[q]
    PROVE  DamageInv'
  BY DEF DamageInv

LEMMA DamageStep == StoreInv /\ DamageInv /\ [Next]_vars => DamageInv'
  <1> SUFFICES ASSUME StoreInv, DamageInv, [Next]_vars PROVE DamageInv'
    OBVIOUS
  <1>0. TypeInv /\ LockInv /\ ShapeInv /\ ContentInv /\ DamageInv
    BY DEF StoreInv
  <1>a. /\ files \in [SegIdx -> File]
        /\ manifest \in Manifest \cup {NoManifest}
        /\ pc \in [Procs -> Steps] /\ damaged \in BOOLEAN
        /\ man \in [Procs -> Manifest \cup {NoManifest}]
        /\ rec \in [Procs -> Record \cup {NoRecord}]
        /\ body \in [Procs -> Bodies \cup {NoBody}]
        /\ IsFiniteSet(Positions(files))
        /\ \A k \in SegIdx : files[k].open => files[k].lines # <<>>
    BY <1>0 DEF TypeInv, TypeOK, ShapeInv, DiskShape
  <1>1. ASSUME NEW p \in Procs, NEW o \in Ops, NEW b \in Bodies \cup {NoBody},
               Call(p, o, b)
        PROVE  DamageInv'
    BY <1>0, <1>1, <1>a, QuietDamage DEF Call, disk, ghost, Uncommitted
  <1>2. ASSUME NEW p \in Procs,
               Acquire(p) \/ Busy(p) \/ LockError(p) \/ Validate(p)
               \/ Return(p) \/ SkipRotation(p)
        PROVE  DamageInv'
    <2>1. /\ UNCHANGED <<files, manifest, damaged>>
          /\ \A q \in Procs :
                /\ pc'[q] \in Uncommitted <=> pc[q] \in Uncommitted
                /\ pc[q] \in Uncommitted => man'[q] = man[q]
      BY <1>2, <1>a DEF Acquire, Busy, LockError, Validate, Return,
         SkipRotation, Leave, Forget, disk, ghost, Uncommitted
    <2>2. QED
      BY <1>0, <2>1, QuietDamage
  <1>3. ASSUME NEW p \in Procs,
               \/ Load(p) \/ Create(p) \/ Write(p) \/ Rotate(p) \/ Save(p)
               \/ Fail(p) \/ PartialWrite(p) \/ Crash(p)
        PROVE  /\ \A q \in Procs : q # p => pc[q] \notin Uncommitted
               /\ \A q \in Procs : q # p => pc'[q] \notin Uncommitted
    <2>1. /\ pc[p] \notin {"idle", "wait"}
          /\ \A q \in Procs : q # p => pc'[q] = pc[q]
      BY <1>3, <1>a DEF Load, Create, Write, Rotate, Save, Leave, Fail,
           PartialWrite, Crash, Writing
    <2>2. lock = p
      BY <1>0, <2>1 DEF LockInv
    <2>3. QED
      BY <1>0, <2>1, <2>2, OneWriter
  <1>4. ASSUME NEW p \in Procs, pc[p] \in Uncommitted
        PROVE  Broken(files, manifest)
    <2>1. /\ manifest \in Manifest /\ man[p].total = manifest.total + 1
      BY <1>0, <1>4, <1>a DEF ShapeInv, CallShape
    <2>2. manifest.total \in Nat
      BY <2>1 DEF Manifest
    <2>3. Matches(files, man[p]) \/ Broken(files, man[p])
      BY <1>0, <1>4, <1>a DEF ContentInv, DamageInv
    <2>4. QED
      BY <1>a, <2>1, <2>2, <2>3, BehindIsBroken
  <1>5. ASSUME NEW p \in Procs, Fail(p) \/ Crash(p)
        PROVE  DamageInv'
    <2>1. UNCHANGED <<files, manifest>> /\ pc'[p] \notin Uncommitted
      BY <1>5, <1>a DEF Fail, Crash, Leave, disk, Uncommitted
    <2>2. damaged' => damaged \/ pc[p] \in Uncommitted
      BY <1>5 DEF Fail, Crash
    <2>3. damaged' => Broken(files, manifest)
      BY <1>0, <1>3, <1>4, <1>5, <2>2 DEF DamageInv
    <2>4. QED
      BY <1>3, <1>5, <2>1, <2>3 DEF DamageInv
  <1>6. ASSUME NEW p \in Procs, Load(p) \/ Create(p)
        PROVE  DamageInv'
    <2>1. /\ pc[p] \notin Uncommitted /\ pc'[p] \notin Uncommitted
          /\ UNCHANGED damaged
      BY <1>6, <1>a DEF Load, Create, Leave, ghost, Uncommitted
    <2>2. damaged => UNCHANGED <<files, manifest>>
      BY <1>0, <1>6 DEF Load, Create, ShapeInv, DiskShape, CallShape
    <2>3. QED
      BY <1>0, <1>3, <1>6, <2>1, <2>2 DEF DamageInv
  <1>7. ASSUME NEW p \in Procs, Write(p)
        PROVE  DamageInv'
    <2> DEFINE m == man[p]
               c == m.current
               r == NewRecord(body[p], m.lastHash)
               n == Counted(m, r)
    <2>1. /\ m \in Manifest /\ body[p] \in Bodies /\ m = manifest
          /\ pc[p] \notin Uncommitted
      BY <1>0, <1>7 DEF Write, ShapeInv, CallShape, TypeInv, LocalsInv, Loaded,
           Uncommitted
    <2>2. c \in SegIdx /\ m.total \in Nat /\ n.total = m.total + 1
      BY <2>1 DEF Manifest, Counted
    <2>3. r \in Line
      BY <2>1, NewRecordType DEF Manifest, Line
    <2>4. /\ man'[p] = n /\ pc'[p] \in Uncommitted /\ UNCHANGED damaged
          /\ files' = [files EXCEPT ![c] = AppendLine(files[c], r)]
      BY <1>7, <1>a DEF Write, ghost, Uncommitted
    <2>5. Written(files, files', c, r)
      BY <1>a, <2>2, <2>4 DEF Written, AppendLine
    <2>6. damaged => Broken(files, m)
      BY <1>0, <1>3, <1>7, <2>1 DEF DamageInv
    <2> HIDE DEF m, c, r, n
    <2>7. /\ n.total \in Nat /\ n.total <= m.total + 1
          /\ files[c].open => files[c].lines # <<>>
      BY <1>a, <2>2
    <2>8. damaged => Broken(files', n)
      BY <1>a, <2>2, <2>3, <2>5, <2>6, <2>7, WriteStaysBroken
    <2>9. QED
      BY <1>3, <1>7, <2>4, <2>8 DEF DamageInv
  <1>8. ASSUME NEW p \in Procs, PartialWrite(p)
        PROVE  DamageInv'
    <2> DEFINE m == man[p]
               c == m.current
               r == NewRecord(body[p], m.lastHash)
    <2>1. /\ m \in Manifest /\ body[p] \in Bodies /\ m = manifest
          /\ manifest # NoManifest /\ pc[p] \notin Uncommitted
      BY <1>0, <1>8 DEF PartialWrite, ShapeInv, CallShape, TypeInv, LocalsInv,
           Loaded, Uncommitted
    <2>2. c \in SegIdx /\ m.total \in Nat
      BY <2>1 DEF Manifest
    <2>3. r \in Record
      BY <2>1, NewRecordType DEF Manifest
    <2>4. UNCHANGED manifest /\ pc'[p] \notin Uncommitted
      BY <1>8, <1>a DEF PartialWrite, Leave, Uncommitted
    <2>5. PICK i \in 1 .. (r.body.bytes - 1) :
              files' = [files EXCEPT ![c] = PartialLine(files[c], r, i)]
      BY <1>8 DEF PartialWrite
    <2> DEFINE l == IF i = r.body.bytes - 1 THEN r ELSE Torn
    <2>6. l \in Line /\ Written(files, files', c, l)
      BY <1>a, <2>2, <2>3, <2>5 DEF Written, PartialLine, Line
    <2>7. /\ damaged => Broken(files, m)
          /\ ~damaged => Matches(files, m)
      BY <1>0, <1>3, <1>8, <2>1 DEF DamageInv, ContentInv
    <2>8. m = manifest
      BY <2>1
    <2> HIDE DEF m, c, r, l
    <2>9. /\ m.total <= m.total + 1
          /\ files[c].open => files[c].lines # <<>>
      BY <1>a, <2>2
    <2>10. CASE damaged
      <3>1. Broken(files', m)
        BY <1>a, <2>2, <2>6, <2>7, <2>9, <2>10, WriteStaysBroken
      <3>2. QED
        BY <1>3, <1>8, <2>4, <2>8, <3>1 DEF DamageInv
    <2>11. CASE ~damaged
      <3>1. Broken(files', m)
        BY <1>a, <2>1, <2>2, <2>6, <2>7, <2>9, <2>11, WriteBreaks
      <3>2. QED
        BY <1>3, <1>8, <2>4, <2>8, <3>1 DEF DamageInv
    <2>12. QED
      BY <2>10, <2>11
  <1>9. ASSUME NEW p \in Procs, Rotate(p)
        PROVE  DamageInv'
    <2>0. pc[p] \in Uncommitted
      BY <1>9 DEF Rotate, Uncommitted
    <2>1. CASE ~NamesOrdered(files)
      <3>1. UNCHANGED <<files, manifest>> /\ pc'[p] \notin Uncommitted
        BY <1>9, <2>1, <1>a DEF Rotate, Leave, Uncommitted
      <3>2. QED
        BY <1>3, <1>4, <1>9, <2>0, <3>1 DEF DamageInv
    <2>2. CASE NamesOrdered(files)
      <3>1. PICK k \in SegIdx :
                /\ IsLastName(files, k)
                /\ files' = [files EXCEPT ![k + 1] = EmptyFile]
                /\ man' = [man EXCEPT ![p] = Rotated(man[p], k + 1)]
        BY <1>9, <2>2 DEF Rotate
      <3>2. k + 1 \in SegIdx /\ k \in Nat
        BY <3>1, <2>2, SegIdxFacts DEF NamesOrdered, IsLastName
      <3>3. /\ pc'[p] \in Uncommitted /\ UNCHANGED damaged
            /\ man'[p].total = man[p].total
        <4>1. man[p] \in Manifest
          BY <1>0, <2>0 DEF TypeInv, LocalsInv, Loaded, Uncommitted
        <4>2. man'[p] = Rotated(man[p], k + 1)
          BY <1>a, <3>1
        <4>3. QED
          BY <1>9, <2>2, <1>a, <4>1, <4>2 DEF Rotate, Uncommitted, Rotated,
             Manifest
      <3>4. files[k + 1].lines = <<>>
        BY <1>0, <3>1, <3>2 DEF IsLastName, ShapeInv, DiskShape, NoFile
      <3>5. \A j \in SegIdx : files'[j].lines = files[j].lines
        BY <1>a, <3>1, <3>2, <3>4 DEF EmptyFile
      <3>6. Positions(files') = Positions(files)
        BY <3>5 DEF Positions
      <3>7. \A q \in Positions(files) : LineAt(files', q) = LineAt(files, q)
        BY <3>5 DEF Positions, LineAt
      <3>8. damaged => Broken(files, man[p])
        BY <1>0, <2>0 DEF DamageInv
      <3>9. damaged => Broken(files', man'[p])
        BY <3>3, <3>6, <3>7, <3>8 DEF Broken
      <3>10. QED
        BY <1>3, <1>9, <3>3, <3>9 DEF DamageInv
    <2>3. QED
      BY <2>1, <2>2
  <1>10. ASSUME NEW p \in Procs, Save(p)
         PROVE  DamageInv'
    <2>1. /\ pc[p] \in Uncommitted /\ pc'[p] \notin Uncommitted
          /\ UNCHANGED <<files, damaged>> /\ manifest' = man[p]
      BY <1>10, <1>a DEF Save, Leave, ghost, Uncommitted
    <2>2. QED
      BY <1>0, <1>3, <1>10, <2>1 DEF DamageInv
  <1>11. CASE UNCHANGED vars
    BY <1>0, <1>11, QuietDamage DEF vars
  <1>12. QED
    BY <1>1, <1>2, <1>5, <1>6, <1>7, <1>8, <1>9, <1>10, <1>11
       DEF Next, Step, Fault

\* DamageIsPermanent: after a writer was cut off between its line and the
\* manifest, no sequence of appends makes ValidateChain accept the store.
THEOREM DamageStaysVisible == Spec => []DamageIsPermanent
  <1>1. Init => DamageInv
    BY DEF Init, DamageInv
  <1>2. StoreInv /\ StoreInv' /\ DamageInv /\ [Next]_vars => DamageInv'
    BY DamageStep
  <1>3. StoreInv /\ DamageInv => DamageIsPermanent
    <2> SUFFICES ASSUME StoreInv, DamageInv, lock = NoProc, damaged
                 PROVE  ~ChainValid(files, manifest)
      BY DEF DamageIsPermanent
    <2>1. \A p \in Procs : pc[p] \notin Uncommitted
      BY ConstantsAssumption DEF StoreInv, LockInv, Uncommitted
    <2>2. Broken(files, manifest)
      BY <2>1 DEF DamageInv
    <2>3. manifest \in Manifest
      BY DEF StoreInv, TypeInv, TypeOK, ShapeInv, DiskShape
    <2>4. QED
      BY <2>2, <2>3, BrokenIsInvalid
  <1>4. QED
    BY <1>1, <1>2, <1>3, StoreInvariant, PTL DEF Spec

-----------------------------------------------------------------------------
(* Acknowledged records stay on disk.                                      *)

\* A step of a call leaves the closed lines alone.
LEMMA ClosedStays ==
    ASSUME StoreInv, NEW p \in Procs, ChangesFile(p)
    PROVE  \A q \in Closed(files) :
              q \in Closed(files') /\ LineAt(files', q) = LineAt(files, q)
  <1>0. files \in [SegIdx -> File] /\ manifest \in Manifest \cup {NoManifest}
    BY DEF StoreInv, TypeInv, TypeOK
  <1> SUFFICES ASSUME NEW k \in SegIdx, NEW i \in 1 .. Len(files[k].lines),
                      ~(files[k].open /\ i = Len(files[k].lines))
               PROVE  /\ i \in 1 .. Len(files'[k].lines)
                      /\ files'[k].lines[i] = files[k].lines[i]
                      /\ ~(files'[k].open /\ i = Len(files'[k].lines))
    BY DEF Closed, Positions, LineAt
  <1>1. files[k] \in File /\ files[k].lines \in Seq(Line) /\ Len(files[k].lines) \in Nat
    BY <1>0 DEF File
  <1>2. CASE files'[k] = files[k]
    BY <1>1, <1>2
  <1>3. ASSUME NEW l \in Line, NEW f \in File, f.lines = LinesWith(files[k], l),
               files'[k] = f
        PROVE  /\ i \in 1 .. Len(files'[k].lines)
               /\ files'[k].lines[i] = files[k].lines[i]
               /\ ~(files'[k].open /\ i = Len(files'[k].lines))
    <2>1. CASE files[k].open
      BY <1>1, <1>3, <2>1 DEF LinesWith
    <2>2. CASE ~files[k].open
      BY <1>1, <1>3, <2>2 DEF LinesWith
    <2>3. QED
      BY <2>1, <2>2
  <1>4. CASE UNCHANGED files
    BY <1>2, <1>4
  <1>5. ASSUME NEW j \in SegIdx, files[j].lines = <<>>,
               files' = [files EXCEPT ![j] = EmptyFile]
        PROVE  files'[k] = files[k]
    <2>1. j # k
      BY <1>1, <1>5
    <2>2. QED
      BY <1>0, <1>5, <2>1
  <1>6. ASSUME NEW l \in Line, NEW f \in File, manifest # NoManifest,
               f.lines = LinesWith(files[manifest.current], l),
               files' = [files EXCEPT ![manifest.current] = f]
        PROVE  \/ files'[k] = files[k]
               \/ files'[k] = f /\ f.lines = LinesWith(files[k], l)
    BY <1>0, <1>6 DEF Manifest
  <1>7. QED
    BY <1>2, <1>3, <1>4, <1>5, <1>6 DEF ChangesFile

\* Only Write brings a record that its caller may come to rely on.
LEMMA SentStep ==
    ASSUME StoreInv, NEW p \in Procs, Step(p) \/ Fault(p), ~Write(p)
    PROVE  Sent' \subseteq Sent
  <1>0. TypeInv /\ LockInv /\ ShapeInv
    BY DEF StoreInv
  <1>a. /\ pc \in [Procs -> Steps] /\ op \in [Procs -> Ops]
        /\ res \in [Procs -> Answers]
        /\ rec \in [Procs -> Record \cup {NoRecord}]
    BY <1>0 DEF TypeInv, TypeOK
  <1>1. /\ pc[p] = "validate" => op[p] = "validate"
        /\ pc[p] = "save" => op[p] = "append"
    BY <1>0 DEF TypeInv, LocalsInv
  <1>2. \A q \in Procs : q # p => /\ pc'[q] = pc[q] /\ res'[q] = res[q]
                                  /\ rec'[q] = rec[q] /\ op'[q] = op[q]
    <2>1. CASE \/ Acquire(p) \/ Busy(p) \/ LockError(p) \/ Load(p) \/ Create(p)
               \/ Rotate(p) \/ SkipRotation(p) \/ Save(p) \/ Validate(p)
      BY <1>a, <2>1 DEF Acquire, Busy, LockError, Load, Create, Rotate,
         SkipRotation, Save, Validate, Leave
    <2>2. CASE Fail(p) \/ PartialWrite(p) \/ Return(p) \/ Crash(p)
      BY <1>a, <2>2 DEF Fail, PartialWrite, Return, Crash, Forget, Leave
    <2>3. QED
      BY <2>1, <2>2 DEF Step, Fault
  <1>3. HasRecord(p)' => HasRecord(p) /\ rec'[p] = rec[p]
    <2>1. CASE Acquire(p) \/ Busy(p) \/ LockError(p) \/ Load(p) \/ Create(p)
      BY <1>a, <2>1 DEF Acquire, Busy, LockError, Load, Create, Leave,
         HasRecord, Uncommitted
    <2>2. CASE Rotate(p) \/ SkipRotation(p) \/ Save(p)
      BY <1>a, <2>2 DEF Rotate, SkipRotation, Save, Leave,
         HasRecord, Uncommitted
    <2>3. CASE Validate(p) \/ Fail(p) \/ PartialWrite(p)
      BY <1>a, <1>1, <2>3 DEF Validate, Fail, PartialWrite, Leave,
         HasRecord, Uncommitted
    <2>4. CASE Return(p) \/ Crash(p)
      BY <1>a, <2>4 DEF Return, Crash, HasRecord, Uncommitted
    <2>5. QED
      BY <2>1, <2>2, <2>3, <2>4 DEF Step, Fault
  <1>4. acked' = acked \/ (HasRecord(p) /\ acked' = acked \cup {rec[p]})
    <2>1. CASE Return(p)
      BY <2>1 DEF Return, HasRecord
    <2>2. CASE ~Return(p)
      BY <2>2 DEF Step, Fault, Acquire, Busy, LockError, Load, Create, Rotate,
         SkipRotation, Save, Validate, Fail, PartialWrite, Crash, ghost
    <2>3. QED
      BY <2>1, <2>2
  <1>5. ASSUME NEW q \in Procs, HasRecord(q)'
        PROVE  HasRecord(q) /\ rec'[q] = rec[q]
    <2>1. CASE q = p
      BY <1>3, <1>5, <2>1
    <2>2. CASE q # p
      BY <1>2, <1>5, <2>2 DEF HasRecord
    <2>3. QED
      BY <2>1, <2>2
  <1>6. QED
    BY <1>4, <1>5 DEF Sent

\* What keeps AckInv: no closed line changes, and a new record is on a line or
\* has torn one.
LEMMA AckKept ==
    ASSUME AckInv, IsFiniteSet(Positions(files')),
           \A q \in Closed(files) :
              q \in Closed(files') /\ LineAt(files', q) = LineAt(files, q),
           \/ Sent' \subseteq Sent
           \/ \E r : /\ Sent' \subseteq Sent \cup {r}
                     /\ \/ \E q \in Closed(files') : LineAt(files', q) = r
                        \/ \E q \in TornIn(files') : q \notin Closed(files)
    PROVE  AckInv'
  <1>1. IsFiniteSet(Sent) /\ Lost \subseteq Sent /\ IsFiniteSet(Lost)
    <2>1. IsFiniteSet(Sent) /\ Lost \subseteq Sent
      BY DEF AckInv, Lost
    <2>2. QED
      BY <2>1, FS_Subset
  <1>2. TornIn(files) \subseteq TornIn(files') /\ TornIn(files) \subseteq Closed(files)
    BY DEF TornIn
  <1>3. IsFiniteSet(TornIn(files'))
    <2>1. TornIn(files') \subseteq Positions(files')
      BY DEF TornIn, Closed
    <2>2. QED
      BY <2>1, FS_Subset
  <1>4. /\ IsFiniteSet(TornIn(files))
        /\ Cardinality(TornIn(files)) <= Cardinality(TornIn(files'))
    BY <1>2, <1>3, FS_Subset
  <1>5. /\ Cardinality(Lost) \in Nat /\ Cardinality(TornIn(files)) \in Nat
        /\ Cardinality(TornIn(files')) \in Nat
    BY <1>1, <1>3, <1>4, FS_CardinalityType
  <1>6. Cardinality(Lost) <= Cardinality(TornIn(files))
    BY DEF AckInv
  <1>7. ASSUME Lost' \subseteq Lost PROVE Cardinality(Lost') <= Cardinality(TornIn(files'))
    <2>1. Cardinality(Lost') <= Cardinality(Lost) /\ IsFiniteSet(Lost')
      BY <1>1, <1>7, FS_Subset
    <2>2. Cardinality(Lost') \in Nat
      BY <2>1, FS_CardinalityType
    <2>3. QED
      BY <1>4, <1>5, <1>6, <2>1, <2>2
  <1>8. CASE Sent' \subseteq Sent
    <2>1. Lost' \subseteq Lost
      BY <1>8 DEF Lost
    <2>2. IsFiniteSet(Sent')
      BY <1>1, <1>8, FS_Subset
    <2>3. QED
      BY <1>7, <2>1, <2>2 DEF AckInv
  <1>9. ASSUME NEW r, Sent' \subseteq Sent \cup {r} PROVE IsFiniteSet(Sent')
    <2>1. IsFiniteSet(Sent \cup {r})
      BY <1>1, FS_AddElement
    <2>2. QED
      BY <1>9, <2>1, FS_Subset
  <1>10. ASSUME NEW r, Sent' \subseteq Sent \cup {r},
                NEW q \in Closed(files'), LineAt(files', q) = r
         PROVE  AckInv'
    <2>1. Lost' \subseteq Lost
      BY <1>10 DEF Lost
    <2>2. QED
      BY <1>7, <1>9, <1>10, <2>1 DEF AckInv
  <1>11. ASSUME NEW r, Sent' \subseteq Sent \cup {r},
                NEW q \in TornIn(files'), q \notin Closed(files)
         PROVE  AckInv'
    <2>1. Lost' \subseteq Lost \cup {r}
      BY <1>11 DEF Lost
    <2>2. /\ IsFiniteSet(Lost \cup {r})
          /\ Cardinality(Lost \cup {r}) <= Cardinality(Lost) + 1
      <3>1. CASE r \in Lost
        <4>1. Lost \cup {r} = Lost
          BY <3>1
        <4>2. QED
          BY <1>1, <1>5, <4>1
      <3>2. CASE r \notin Lost
        <4>1. /\ IsFiniteSet(Lost \cup {r})
              /\ Cardinality(Lost \cup {r}) = Cardinality(Lost) + 1
          BY <1>1, <3>2, FS_AddElement
        <4>2. QED
          BY <1>5, <4>1
      <3>3. QED
        BY <3>1, <3>2
    <2>3. IsFiniteSet(Lost') /\ Cardinality(Lost') <= Cardinality(Lost \cup {r})
      BY <2>1, <2>2, FS_Subset
    <2>4. q \notin TornIn(files)
      BY <1>2, <1>11
    <2>5. /\ IsFiniteSet(TornIn(files) \cup {q})
          /\ Cardinality(TornIn(files) \cup {q}) = Cardinality(TornIn(files)) + 1
      BY <1>4, <2>4, FS_AddElement
    <2>6. TornIn(files) \cup {q} \subseteq TornIn(files')
      BY <1>2, <1>11
    <2>7. Cardinality(TornIn(files) \cup {q}) <= Cardinality(TornIn(files'))
      BY <1>3, <2>6, FS_Subset
    <2>8. Cardinality(Lost') \in Nat /\ Cardinality(Lost \cup {r}) \in Nat
      BY <2>2, <2>3, FS_CardinalityType
    <2>9. Cardinality(Lost') <= Cardinality(TornIn(files'))
      BY <1>5, <1>6, <2>2, <2>3, <2>5, <2>7, <2>8
    <2>10. QED
      BY <1>9, <1>11, <2>9 DEF AckInv
  <1>12. QED
    BY <1>8, <1>10, <1>11

\* A record that is written whole has a line of its own, or closes a torn one.
LEMMA WriteSends ==
    ASSUME StoreInv, NEW p \in Procs, Write(p)
    PROVE  \E r : /\ Sent' \subseteq Sent \cup {r}
                  /\ \/ \E q \in Closed(files') : LineAt(files', q) = r
                     \/ \E q \in TornIn(files') : q \notin Closed(files)
  <1> DEFINE m == man[p]
             r == NewRecord(body[p], m.lastHash)
             c == m.current
             n == Len(files[c].lines)
             f == AppendLine(files[c], r)
  <1>0. TypeInv /\ ShapeInv
    BY DEF StoreInv
  <1>a. /\ files \in [SegIdx -> File] /\ pc \in [Procs -> Steps]
        /\ rec \in [Procs -> Record \cup {NoRecord}]
    BY <1>0 DEF TypeInv, TypeOK
  <1>1. m \in Manifest /\ body[p] \in Bodies
    BY <1>0 DEF Write, ShapeInv, CallShape, TypeInv, LocalsInv, Loaded
  <1>2. c \in SegIdx /\ files[c] \in File /\ r \in Record /\ r \in Line
    BY <1>a, <1>1, NewRecordType DEF Manifest, Line
  <1>3. /\ files' = [files EXCEPT ![c] = f]
        /\ rec' = [rec EXCEPT ![p] = r]
        /\ UNCHANGED <<acked, op, res>>
        /\ \A q \in Procs : q # p => pc'[q] = pc[q]
    BY <1>a DEF Write, ghost
  <1>4. f.lines = LinesWith(files[c], r) /\ ~f.open
    BY DEF AppendLine
  <1>5. files[c].lines \in Seq(Line) /\ n \in Nat
    BY <1>2 DEF File
  <1>6. files[c].open => n > 0
    <2>1. files[c].open => files[c].lines # <<>>
      BY <1>0, <1>2 DEF ShapeInv, DiskShape
    <2>2. QED
      BY <1>5, <2>1
  <1> HIDE DEF f, r
  <1>7. Sent' \subseteq Sent \cup {r}
    <2>1. ASSUME NEW q \in Procs, HasRecord(q)'
          PROVE  rec'[q] \in Sent \cup {r}
      <3>1. CASE q = p
        BY <1>a, <1>3, <3>1
      <3>2. CASE q # p
        <4>1. HasRecord(q) /\ rec'[q] = rec[q]
          BY <1>a, <1>3, <2>1, <3>2 DEF HasRecord
        <4>2. QED
          BY <4>1 DEF Sent
      <3>3. QED
        BY <3>1, <3>2
    <2>2. QED
      BY <1>3, <2>1 DEF Sent
  <1>8. CASE files[c].open
    <2>1. f.lines[n] = Torn /\ Len(f.lines) = n
      BY <1>4, <1>5, <1>6, <1>8 DEF LinesWith
    <2>2. files'[c] = f
      BY <1>a, <1>2, <1>3
    <2>3. <<c, n>> \in Positions(files')
      BY <1>2, <1>5, <1>6, <1>8, <2>1, <2>2 DEF Positions
    <2>4. <<c, n>> \in TornIn(files')
      BY <1>4, <2>1, <2>2, <2>3 DEF TornIn, Closed, LineAt
    <2>5. <<c, n>> \notin Closed(files)
      BY <1>8 DEF Closed
    <2>6. QED
      BY <1>7, <2>4, <2>5
  <1>9. CASE ~files[c].open
    <2>1. f.lines[n + 1] = r /\ Len(f.lines) = n + 1
      BY <1>4, <1>5, <1>9 DEF LinesWith
    <2>2. files'[c] = f
      BY <1>a, <1>2, <1>3
    <2>3. <<c, n + 1>> \in Positions(files')
      BY <1>2, <1>5, <2>1, <2>2 DEF Positions
    <2>4. <<c, n + 1>> \in Closed(files') /\ LineAt(files', <<c, n + 1>>) = r
      BY <1>4, <2>1, <2>2, <2>3 DEF Closed, LineAt
    <2>5. QED
      BY <1>7, <2>4
  <1>10. QED
    BY <1>8, <1>9

LEMMA AckStep == StoreInv /\ StoreInv' /\ AckInv /\ [Next]_vars => AckInv'
  <1> SUFFICES ASSUME StoreInv, StoreInv', AckInv, [Next]_vars PROVE AckInv'
    OBVIOUS
  <1>1. IsFiniteSet(Positions(files'))
    BY DEF StoreInv, ShapeInv, DiskShape
  <1>2. ASSUME NEW p \in Procs, Step(p) \/ Fault(p) PROVE AckInv'
    <2>1. \A q \in Closed(files) :
             q \in Closed(files') /\ LineAt(files', q) = LineAt(files, q)
      BY <1>2, StepFiles, ClosedStays
    <2>2. CASE Write(p)
      BY <1>1, <2>1, <2>2, WriteSends, AckKept
    <2>3. CASE ~Write(p)
      BY <1>1, <1>2, <2>1, <2>3, SentStep, AckKept
    <2>4. QED
      BY <2>2, <2>3
  <1>3. ASSUME NEW p \in Procs, NEW o \in Ops, NEW b \in Bodies \cup {NoBody},
               Call(p, o, b)
        PROVE  AckInv'
    <2>1. UNCHANGED <<files, acked, rec>>
      BY <1>3 DEF Call, disk, ghost
    <2>2. \A q \in Procs : HasRecord(q)' => HasRecord(q)
      BY <1>3 DEF Call, HasRecord, Uncommitted, StoreInv, TypeInv, TypeOK
    <2>3. Sent' \subseteq Sent
      BY <2>1, <2>2 DEF Sent
    <2>4. QED
      BY <1>1, <2>1, <2>3, AckKept
  <1>4. CASE UNCHANGED vars
    <2>1. files' = files /\ Sent' = Sent
      BY <1>4 DEF vars, Sent, HasRecord
    <2>2. QED
      BY <1>1, <2>1, AckKept
  <1>5. QED
    BY <1>2, <1>3, <1>4 DEF Next

-----------------------------------------------------------------------------
(* The committed chain stays on disk.                                      *)

LEMMA CountsKept ==
    ASSUME NEW F, NEW G, Closed(F) \subseteq Closed(G),
           IsFiniteSet(Positions(G)), NEW m, m.total \in Nat, Counts(F, m),
           NEW n, n.total = m.total, n.lastHash = m.lastHash
    PROVE  Counts(G, n)
  <1>1. IsFiniteSet(Closed(G))
    BY FS_Subset DEF Closed
  <1>2. /\ IsFiniteSet(Closed(F))
        /\ Cardinality(Closed(F)) <= Cardinality(Closed(G))
    BY <1>1, FS_Subset
  <1>3. Cardinality(Closed(F)) \in Nat /\ Cardinality(Closed(G)) \in Nat
    BY <1>1, <1>2, FS_CardinalityType
  <1>4. QED
    BY <1>2, <1>3 DEF Counts

LEMMA HoldsKept ==
    ASSUME NEW F, NEW G, NEW c, HoldsChain(F, c),
           \A q \in Closed(F) : q \in Closed(G) /\ LineAt(G, q) = LineAt(F, q)
    PROVE  HoldsChain(G, c)
  BY DEF HoldsChain

\* Steps that touch neither the disk nor an unsaved record, or give it up.
LEMMA QuietHistory ==
    ASSUME HistoryInv, UNCHANGED <<files, manifest>>,
           \A q \in Procs :
               pc'[q] \in Uncommitted => pc[q] \in Uncommitted /\ man'[q] = man[q],
           ~damaged' =>
               /\ ~damaged
               /\ \A q \in Procs : pc[q] \in Uncommitted => pc'[q] \in Uncommitted
    PROVE  HistoryInv'
  BY DEF HistoryInv, CommittedChain

\* A whole line closes a position that no write can change any more.
LEMMA WriteLine ==
    ASSUME StoreInv, NEW p \in Procs, Write(p)
    PROVE  \E q \in Closed(files') :
              /\ q \notin Closed(files)
              /\ ~files[man[p].current].open =>
                    /\ LineAt(files', q) = rec'[p]
                    /\ Positions(files') = Positions(files) \cup {q}
                    /\ \A s \in Positions(files) :
                           LineAt(files', s) = LineAt(files, s)
  <1> DEFINE m == man[p]
             r == NewRecord(body[p], m.lastHash)
             c == m.current
             n == Len(files[c].lines)
             f == AppendLine(files[c], r)
  <1>0. TypeInv /\ ShapeInv
    BY DEF StoreInv
  <1>a. /\ files \in [SegIdx -> File]
        /\ rec \in [Procs -> Record \cup {NoRecord}]
    BY <1>0 DEF TypeInv, TypeOK
  <1>1. m \in Manifest /\ body[p] \in Bodies
    BY <1>0 DEF Write, ShapeInv, CallShape, TypeInv, LocalsInv, Loaded
  <1>2. c \in SegIdx /\ files[c] \in File /\ r \in Record /\ r \in Line
    BY <1>a, <1>1, NewRecordType DEF Manifest, Line
  <1>3. files' = [files EXCEPT ![c] = f] /\ rec' = [rec EXCEPT ![p] = r]
    BY DEF Write
  <1>4. f.lines = LinesWith(files[c], r) /\ ~f.open
    BY DEF AppendLine
  <1>5. files[c].lines \in Seq(Line) /\ n \in Nat
    BY <1>2 DEF File
  <1>6. files[c].open => n > 0
    <2>1. files[c].open => files[c].lines # <<>>
      BY <1>0, <1>2 DEF ShapeInv, DiskShape
    <2>2. QED
      BY <1>5, <2>1
  <1> HIDE DEF f, r
  <1>7. files'[c] = f /\ rec'[p] = r /\ \A k \in SegIdx : k # c => files'[k] = files[k]
    BY <1>a, <1>2, <1>3
  <1>8. CASE files[c].open
    <2>1. Len(f.lines) = n
      BY <1>4, <1>5, <1>6, <1>8 DEF LinesWith
    <2>2. <<c, n>> \in Positions(files')
      BY <1>2, <1>5, <1>6, <1>7, <1>8, <2>1 DEF Positions
    <2>3. <<c, n>> \in Closed(files')
      BY <1>4, <1>7, <2>2 DEF Closed
    <2>4. <<c, n>> \notin Closed(files)
      BY <1>8 DEF Closed
    <2>5. QED
      BY <1>8, <2>3, <2>4
  <1>9. CASE ~files[c].open
    <2>1. f.lines[n + 1] = r /\ Len(f.lines) = n + 1
      BY <1>4, <1>5, <1>9 DEF LinesWith
    <2>2. /\ Positions(files') = Positions(files) \cup {<<c, n + 1>>}
          /\ <<c, n + 1>> \notin Positions(files)
          /\ \A s \in Positions(files) : LineAt(files', s) = LineAt(files, s)
      BY <1>a, <1>2, <1>4, <1>7, <1>9, NewPosition
    <2>3. <<c, n + 1>> \in Closed(files') /\ LineAt(files', <<c, n + 1>>) = r
      BY <1>4, <1>7, <2>1, <2>2 DEF Closed, LineAt
    <2>4. <<c, n + 1>> \notin Closed(files)
      BY <2>2 DEF Closed
    <2>5. QED
      BY <1>7, <2>2, <2>3, <2>4
  <1>10. QED
    BY <1>8, <1>9

\* Until a writer is cut off no file ends in an unterminated line.
LEMMA UndamagedClosed ==
    ASSUME StoreInv, ~damaged
    PROVE  /\ \A k \in SegIdx : ~files[k].open
           /\ Closed(files) = Positions(files)
           /\ \A q \in Positions(files) : LineAt(files, q) \in Record
  <1>1. CASE manifest = NoManifest
    <2>1. \A k \in SegIdx : files[k].lines = <<>> /\ ~files[k].open
      BY <1>1 DEF StoreInv, ShapeInv, DiskShape, Blank, NoFile, EmptyFile
    <2>2. Positions(files) = {}
      BY <2>1 DEF Positions
    <2>3. QED
      BY <2>1, <2>2 DEF Closed
  <1>2. CASE manifest # NoManifest
    <2>1. \E m : Whole(files, m)
      BY <1>2 DEF StoreInv, ContentInv, Matches
    <2>2. \A k \in SegIdx : ~files[k].open /\ files[k].lines \in Seq(Record)
      BY <2>1 DEF Whole
    <2>3. ASSUME NEW q \in Positions(files)
          PROVE  LineAt(files, q) \in Record /\ ~files[q[1]].open
      <3>1. PICK k \in SegIdx : \E i \in 1 .. Len(files[k].lines) : q = <<k, i>>
        BY <2>3 DEF Positions
      <3>2. QED
        BY <2>2, <3>1 DEF LineAt
    <2>4. QED
      BY <2>2, <2>3 DEF Closed
  <1>3. QED
    BY <1>1, <1>2

LEMMA HistoryWrite ==
    ASSUME StoreInv, StoreInv', HistoryInv, NEW p \in Procs, Write(p)
    PROVE  HistoryInv'
  <1> DEFINE m == man[p]
             r == NewRecord(body[p], m.lastHash)
  <1>0. TypeInv /\ LockInv /\ ShapeInv
    BY DEF StoreInv
  <1>1. /\ pc[p] = "write" /\ manifest # NoManifest /\ m = manifest
        /\ m \in Manifest /\ body[p] \in Bodies /\ lock = p
    BY <1>0 DEF Write, ShapeInv, CallShape, TypeInv, LocalsInv, Loaded, LockInv
  <1>2. /\ rec'[p] = r /\ man'[p] = Counted(m, r) /\ manifest' = manifest
        /\ damaged' = damaged /\ pc'[p] \in Uncommitted
        /\ \A q \in Procs : q # p => pc'[q] = pc[q]
    BY <1>0, <1>1 DEF Write, TypeInv, TypeOK, ghost, Uncommitted
  <1>3. \A q \in Procs : q # p => pc'[q] \notin Uncommitted
    BY <1>0, <1>1, <1>2, OneWriter
  <1>4. \A q \in Closed(files) :
           q \in Closed(files') /\ LineAt(files', q) = LineAt(files, q)
    BY StepFiles, ClosedStays DEF Step
  <1>5. PICK q \in Closed(files') :
              /\ q \notin Closed(files)
              /\ ~files[man[p].current].open =>
                    /\ LineAt(files', q) = rec'[p]
                    /\ Positions(files') = Positions(files) \cup {q}
                    /\ \A s \in Positions(files) :
                           LineAt(files', s) = LineAt(files, s)
    BY WriteLine
  <1>6. IsFiniteSet(Positions(files')) /\ IsFiniteSet(Closed(files'))
    <2>1. IsFiniteSet(Positions(files'))
      BY DEF StoreInv, ShapeInv, DiskShape
    <2>2. QED
      BY <2>1, FS_Subset DEF Closed
  <1>7. Counts(files', manifest')
    BY <1>1, <1>2, <1>4, <1>6, CountsKept DEF HistoryInv, Manifest
  <1>8. /\ r.hash = Append(m.lastHash, Canonical(body[p])) /\ r \in Record
        /\ m.lastHash \in HashVal /\ m.total \in Nat
        /\ Counted(m, r).lastHash = r.hash /\ Counted(m, r).total = m.total + 1
    <2>1. m.lastHash \in HashVal /\ m.total \in Nat
      BY <1>1 DEF Manifest
    <2>2. r \in Record
      BY <1>1, <2>1, NewRecordType
    <2>3. QED
      BY <1>1, <2>1, <2>2 DEF NewRecord, ComputeHash, Counted, Manifest
  <1> HIDE DEF r
  <1>9. Len(r.hash) = Len(m.lastHash) + 1 /\ Len(m.lastHash) \in Nat
    BY <1>8 DEF HashVal
  <1>10. Counts(files', man'[p])
    <2>1. IsFiniteSet(Closed(files))
      BY <1>4, <1>6, FS_Subset
    <2>2. /\ Cardinality(Closed(files) \cup {q}) = Cardinality(Closed(files)) + 1
          /\ IsFiniteSet(Closed(files) \cup {q})
      BY <1>5, <2>1, FS_AddElement
    <2>3. Closed(files) \cup {q} \subseteq Closed(files')
      BY <1>4, <1>5
    <2>4. Cardinality(Closed(files) \cup {q}) <= Cardinality(Closed(files'))
      BY <1>6, <2>3, FS_Subset
    <2>5. Cardinality(Closed(files)) \in Nat /\ Cardinality(Closed(files')) \in Nat
      BY <1>6, <2>1, FS_CardinalityType
    <2>6. Counts(files, m)
      BY <1>1 DEF HistoryInv
    <2>7. /\ man'[p].total = m.total + 1
          /\ Len(man'[p].lastHash) = Len(m.lastHash) + 1
      BY <1>2, <1>8, <1>9
    <2>8. QED
      BY <1>8, <2>2, <2>4, <2>5, <2>6, <2>7 DEF Counts
  <1>11. ASSUME ~damaged'
         PROVE  /\ HoldsChain(files', CommittedChain')
                /\ HoldsChain(files', man'[p].lastHash)
                /\ \A s \in Positions(files') :
                     \/ L!IsPrefixOf(LineAt(files', s).hash, CommittedChain')
                     \/ LineAt(files', s).hash = man'[p].lastHash
    <2>1. ~damaged /\ CommittedChain = m.lastHash /\ CommittedChain' = m.lastHash
      BY <1>1, <1>2, <1>11 DEF CommittedChain
    <2>2. HoldsChain(files, m.lastHash)
      BY <2>1 DEF HistoryInv
    <2>3. HoldsChain(files', m.lastHash)
      BY <1>4, <2>2, HoldsKept
    <2>4. /\ LineAt(files', q) = r
          /\ Positions(files') = Positions(files) \cup {q}
          /\ \A s \in Positions(files) : LineAt(files', s) = LineAt(files, s)
      BY <1>1, <1>2, <1>5, <2>1, UndamagedClosed DEF Manifest
    <2>5. r # Torn
      BY <1>8, TornAssumption
    <2>6. HoldsChain(files', r.hash)
      <3> SUFFICES ASSUME NEW i \in 1 .. Len(r.hash)
                   PROVE  \E s \in Closed(files') :
                             /\ LineAt(files', s) # Torn
                             /\ LineAt(files', s).hash = SubSeq(r.hash, 1, i)
        BY DEF HoldsChain
      <3>1. CASE i \in 1 .. Len(m.lastHash)
        <4>1. SubSeq(r.hash, 1, i) = SubSeq(m.lastHash, 1, i)
          BY <1>8, <1>9, <3>1 DEF HashVal
        <4>2. QED
          BY <2>3, <3>1, <4>1 DEF HoldsChain
      <3>2. CASE i = Len(r.hash)
        <4>1. SubSeq(r.hash, 1, i) = r.hash
          BY <1>8, <3>2 DEF HashVal, Record
        <4>2. QED
          BY <1>5, <2>4, <2>5, <4>1
      <3>3. QED
        BY <1>9, <3>1, <3>2
    <2>7. ASSUME NEW s \in Positions(files)
          PROVE  L!IsPrefixOf(LineAt(files', s).hash, m.lastHash)
      <3>1. \A t \in Procs : pc[t] \notin Uncommitted
        BY <1>0, <1>1, OneWriter DEF Uncommitted
      <3>2. QED
        BY <2>1, <2>4, <3>1 DEF HistoryInv
    <2>8. QED
      BY <1>2, <1>8, <2>1, <2>3, <2>4, <2>6, <2>7
  <1>12. QED
    BY <1>2, <1>3, <1>7, <1>10, <1>11 DEF HistoryInv

\* An empty file in the place of an empty one changes no line.
LEMMA EmptyKeepsLines ==
    ASSUME NEW F \in [SegIdx -> File], NEW k \in SegIdx, F[k].lines = <<>>
    PROVE  LET G == [F EXCEPT ![k] = EmptyFile]
           IN  /\ Positions(G) = Positions(F)
               /\ \A q \in Positions(F) : LineAt(G, q) = LineAt(F, q)
  <1> DEFINE G == [F EXCEPT ![k] = EmptyFile]
  <1>1. \A j \in SegIdx : G[j].lines = F[j].lines
    BY DEF EmptyFile
  <1>2. Positions(G) = Positions(F)
    BY <1>1 DEF Positions
  <1>3. ASSUME NEW q \in Positions(F) PROVE LineAt(G, q) = LineAt(F, q)
    <2>1. q[1] \in SegIdx
      BY <1>3 DEF Positions
    <2>2. QED
      BY <1>1, <2>1 DEF LineAt
  <1>4. QED
    BY <1>2, <1>3

LEMMA HistoryStep == StoreInv /\ StoreInv' /\ HistoryInv /\ [Next]_vars => HistoryInv'
  <1> SUFFICES ASSUME StoreInv, StoreInv', HistoryInv, [Next]_vars
               PROVE  HistoryInv'
    OBVIOUS
  <1>0. TypeInv /\ LockInv /\ ShapeInv
    BY DEF StoreInv
  <1>a. /\ files \in [SegIdx -> File]
        /\ manifest \in Manifest \cup {NoManifest}
        /\ pc \in [Procs -> Steps] /\ damaged \in BOOLEAN
        /\ man \in [Procs -> Manifest \cup {NoManifest}]
    BY <1>0 DEF TypeInv, TypeOK
  <1>b. IsFiniteSet(Positions(files'))
    BY DEF StoreInv, ShapeInv, DiskShape
  <1>1. ASSUME NEW p \in Procs, NEW o \in Ops, NEW b \in Bodies \cup {NoBody},
               Call(p, o, b)
        PROVE  HistoryInv'
    BY <1>1, <1>a, QuietHistory DEF Call, disk, ghost, Uncommitted
  <1>2. ASSUME NEW p \in Procs,
               \/ Acquire(p) \/ Busy(p) \/ LockError(p) \/ SkipRotation(p)
               \/ Validate(p) \/ Return(p)
        PROVE  HistoryInv'
    BY <1>2, <1>a, QuietHistory DEF Acquire, Busy, LockError, SkipRotation,
       Validate, Return, Leave, Forget, disk, ghost, Uncommitted
  <1>3. ASSUME NEW p \in Procs, Fail(p) \/ Crash(p)
        PROVE  HistoryInv'
    <2>1. /\ UNCHANGED <<files, manifest>> /\ pc'[p] \notin Uncommitted
          /\ damaged' = (damaged \/ pc[p] \in Uncommitted)
          /\ \A q \in Procs : q # p => pc'[q] = pc[q] /\ man'[q] = man[q]
      BY <1>3, <1>a DEF Fail, Crash, Leave, Forget, disk, Uncommitted
    <2>2. QED
      BY <2>1, QuietHistory
  <1>4. ASSUME NEW p \in Procs, Load(p)
        PROVE  HistoryInv'
    <2>1. /\ pc[p] \notin Uncommitted /\ pc'[p] \notin Uncommitted
          /\ \A q \in Procs : q # p => pc'[q] = pc[q] /\ man'[q] = man[q]
          /\ UNCHANGED <<manifest, damaged>>
      BY <1>4, <1>a DEF Load, Leave, ghost, Uncommitted
    <2>2. CASE UNCHANGED files
      BY <2>1, <2>2, QuietHistory
    <2>3. CASE manifest = NoManifest /\ files' = [files EXCEPT ![1] = EmptyFile]
      <3>1. \A k \in SegIdx : files[k].lines = <<>>
        BY <1>0, <2>3 DEF ShapeInv, DiskShape, Blank, NoFile, EmptyFile
      <3>2. \A k \in SegIdx : files'[k].lines = <<>>
        BY <1>a, <2>3, <3>1 DEF EmptyFile
      <3>3. Positions(files') = {}
        BY <3>2 DEF Positions
      <3>4. \A q \in Procs : pc'[q] \notin Uncommitted
        BY <1>0, <2>1, <2>3 DEF ShapeInv, CallShape
      <3>5. CommittedChain' = <<>>
        BY <2>1, <2>3 DEF CommittedChain, NoHash
      <3>6. HoldsChain(files', CommittedChain')
        BY <3>5 DEF HoldsChain
      <3>7. QED
        BY <2>1, <2>3, <3>3, <3>4, <3>6 DEF HistoryInv
    <2>4. QED
      BY <1>4, <2>2, <2>3 DEF Load
  <1>5. ASSUME NEW p \in Procs, Create(p)
        PROVE  HistoryInv'
    <2>1. /\ manifest = NoManifest /\ manifest' = EmptyManifest
          /\ UNCHANGED <<files, damaged>> /\ pc'[p] \notin Uncommitted
          /\ \A q \in Procs : q # p => pc'[q] = pc[q]
      BY <1>0, <1>5, <1>a DEF Create, ShapeInv, CallShape, Leave, ghost,
         Uncommitted
    <2>2. \A q \in Procs : pc[q] \notin Uncommitted /\ pc'[q] \notin Uncommitted
      BY <1>0, <2>1 DEF ShapeInv, CallShape
    <2>3. CommittedChain' = <<>> /\ CommittedChain = <<>>
      BY <2>1 DEF CommittedChain, NoHash, EmptyManifest
    <2>4. Counts(files', manifest')
      <3>1. IsFiniteSet(Closed(files'))
        BY <1>b, FS_Subset DEF Closed
      <3>2. Cardinality(Closed(files')) \in Nat
        BY <3>1, FS_CardinalityType
      <3>3. manifest'.total = 0 /\ manifest'.lastHash = <<>>
        BY <2>1 DEF EmptyManifest, NoHash
      <3>4. QED
        BY <3>2, <3>3 DEF Counts
    <2>5. QED
      BY <2>1, <2>2, <2>3, <2>4 DEF HistoryInv
  <1>6. ASSUME NEW p \in Procs, PartialWrite(p)
        PROVE  HistoryInv'
    <2>1. /\ damaged' /\ UNCHANGED manifest /\ pc'[p] \notin Uncommitted
          /\ lock = p
          /\ \A q \in Procs : q # p => pc'[q] = pc[q]
      BY <1>0, <1>6, <1>a DEF PartialWrite, Leave, Uncommitted, LockInv
    <2>2. \A q \in Procs : pc'[q] \notin Uncommitted
      BY <1>0, <2>1, OneWriter
    <2>3. Closed(files) \subseteq Closed(files')
      BY <1>6, StepFiles, ClosedStays DEF Fault
    <2>4. manifest # NoManifest => Counts(files', manifest)
      BY <1>a, <1>b, <2>3, CountsKept DEF HistoryInv, Manifest
    <2>5. QED
      BY <2>1, <2>2, <2>4 DEF HistoryInv
  <1>7. ASSUME NEW p \in Procs, Rotate(p)
        PROVE  HistoryInv'
    <2>0. pc[p] = "rotate" /\ lock = p /\ pc[p] \in Uncommitted
      BY <1>0, <1>7 DEF Rotate, LockInv, Uncommitted
    <2>1. CASE ~NamesOrdered(files)
      <3>1. /\ UNCHANGED <<files, manifest>> /\ damaged'
            /\ pc'[p] \notin Uncommitted
            /\ \A q \in Procs : q # p => pc'[q] = pc[q] /\ man'[q] = man[q]
        BY <1>7, <1>a, <2>1 DEF Rotate, Leave, Uncommitted
      <3>2. QED
        BY <3>1, QuietHistory
    <2>2. CASE NamesOrdered(files)
      <3>1. PICK k \in SegIdx :
                /\ IsLastName(files, k)
                /\ files' = [files EXCEPT ![k + 1] = EmptyFile]
                /\ man' = [man EXCEPT ![p] = Rotated(man[p], k + 1)]
        BY <1>7, <2>2 DEF Rotate
      <3>2. /\ UNCHANGED <<manifest, damaged>> /\ pc'[p] \in Uncommitted
            /\ \A q \in Procs : q # p => pc'[q] = pc[q]
        BY <1>7, <1>a, <2>2 DEF Rotate, Uncommitted
      <3>3. \A q \in Procs : q # p => pc'[q] \notin Uncommitted
        BY <1>0, <2>0, <3>2, OneWriter
      <3>4. \A q \in Closed(files) :
               q \in Closed(files') /\ LineAt(files', q) = LineAt(files, q)
        BY <1>7, StepFiles, ClosedStays DEF Step
      <3>5. man[p] \in Manifest /\ man'[p] = Rotated(man[p], k + 1)
        BY <1>0, <1>a, <2>0, <3>1 DEF TypeInv, LocalsInv, Loaded
      <3>6. /\ man'[p].total = man[p].total /\ man[p].total \in Nat
            /\ man'[p].lastHash = man[p].lastHash
        BY <3>5 DEF Rotated, Manifest
      <3>7. /\ manifest # NoManifest => Counts(files', manifest)
            /\ Counts(files', man'[p])
        BY <1>a, <1>b, <2>0, <3>4, <3>6, CountsKept DEF HistoryInv, Manifest
      <3>8. ASSUME ~damaged
            PROVE  /\ HoldsChain(files', CommittedChain)
                   /\ HoldsChain(files', man'[p].lastHash)
        BY <2>0, <3>4, <3>6, <3>8, HoldsKept DEF HistoryInv
      <3>9. /\ Positions(files') = Positions(files)
            /\ \A q \in Positions(files) : LineAt(files', q) = LineAt(files, q)
        <4>1. k + 1 \in SegIdx /\ k + 1 > k
          BY <2>2, <3>1, SegIdxFacts DEF NamesOrdered, IsLastName
        <4>2. ~files[k + 1].exists
          BY <3>1, <4>1, SegIdxFacts DEF IsLastName
        <4>3. files[k + 1].lines = <<>>
          BY <1>0, <4>1, <4>2 DEF ShapeInv, DiskShape, NoFile
        <4>4. QED
          BY <1>a, <3>1, <4>1, <4>3, EmptyKeepsLines
      <3>10. CommittedChain' = CommittedChain
        BY <3>2 DEF CommittedChain
      <3>11. ASSUME ~damaged, NEW q \in Positions(files')
             PROVE  \/ L!IsPrefixOf(LineAt(files', q).hash, CommittedChain)
                    \/ LineAt(files', q).hash = man'[p].lastHash
        <4>1. \A t \in Procs : t # p => pc[t] \notin Uncommitted
          BY <1>0, <2>0, OneWriter
        <4>2. QED
          BY <3>6, <3>9, <3>11, <4>1 DEF HistoryInv
      <3>12. QED
        BY <3>2, <3>3, <3>7, <3>8, <3>10, <3>11 DEF HistoryInv
    <2>3. QED
      BY <2>1, <2>2
  <1>8. ASSUME NEW p \in Procs, Save(p)
        PROVE  HistoryInv'
    <2>1. /\ pc[p] = "save" /\ pc[p] \in Uncommitted /\ lock = p
          /\ manifest # NoManifest /\ manifest' = man[p]
          /\ man[p] \in Manifest /\ body[p] \in Bodies /\ manifest \in Manifest
          /\ rec[p] = NewRecord(body[p], manifest.lastHash)
          /\ man[p].lastHash = rec[p].hash
      BY <1>0, <1>8, <1>a DEF Save, ShapeInv, CallShape, Uncommitted, TypeInv,
         LocalsInv, Loaded, LockInv
    <2>2. /\ UNCHANGED <<files, damaged>> /\ pc'[p] \notin Uncommitted
          /\ \A q \in Procs : q # p => pc'[q] = pc[q]
      BY <1>8, <1>a DEF Save, Leave, ghost, Uncommitted
    <2>3. \A q \in Procs : pc'[q] \notin Uncommitted
      BY <1>0, <2>1, <2>2, OneWriter
    <2>4. manifest' # NoManifest
      BY <2>1, ManifestAssumption
    <2>5. CommittedChain' = man[p].lastHash /\ CommittedChain = manifest.lastHash
      BY <2>1, <2>4 DEF CommittedChain
    <2>6. /\ man[p].lastHash = Append(manifest.lastHash, Canonical(body[p]))
          /\ manifest.lastHash \in HashVal /\ man[p].lastHash \in HashVal
      <3>1. rec[p].hash = Append(manifest.lastHash, Canonical(body[p]))
        BY <2>1 DEF NewRecord, ComputeHash
      <3>2. manifest.lastHash \in HashVal /\ man[p].lastHash \in HashVal
        BY <2>1 DEF Manifest
      <3>3. QED
        BY <2>1, <3>1, <3>2
    <2>7. ASSUME ~damaged, NEW q \in Positions(files)
          PROVE  L!IsPrefixOf(LineAt(files, q).hash, man[p].lastHash)
      <3>1. LineAt(files, q).hash \in HashVal
        BY <2>7, UndamagedClosed DEF Record
      <3>2. \A t \in Procs : t # p => pc[t] \notin Uncommitted
        BY <1>0, <2>1, OneWriter
      <3>3. CASE L!IsPrefixOf(LineAt(files, q).hash, manifest.lastHash)
        BY <2>1, <2>6, <3>1, <3>3, PrefixOfLonger DEF HashVal, Entries
      <3>4. CASE LineAt(files, q).hash = man[p].lastHash
        BY <2>6, <3>4 DEF L!IsPrefixOf, HashVal
      <3>5. QED
        BY <2>5, <2>7, <3>2, <3>3, <3>4 DEF HistoryInv
    <2>8. Counts(files, man[p]) /\ (~damaged => HoldsChain(files, man[p].lastHash))
      BY <2>1 DEF HistoryInv
    <2>9. Counts(files', manifest')
      BY <2>1, <2>2, <2>8
    <2>10. ~damaged' =>
             /\ HoldsChain(files', CommittedChain')
             /\ \A q \in Positions(files') :
                   L!IsPrefixOf(LineAt(files', q).hash, CommittedChain')
      BY <2>2, <2>5, <2>7, <2>8
    <2>11. QED
      BY <2>3, <2>9, <2>10 DEF HistoryInv
  <1>9. CASE UNCHANGED vars
    BY <1>9, QuietHistory DEF vars, disk, ghost
  <1>10. QED
    BY <1>1, <1>2, <1>3, <1>4, <1>5, <1>6, <1>7, <1>8, <1>9, HistoryWrite
       DEF Next, Step, Fault

LEMMA FullInit == Init => FullInv
  <1> SUFFICES ASSUME Init PROVE FullInv
    OBVIOUS
  <1>1. StoreInv
    <2>1. LockInv
      BY ConstantsAssumption DEF Init, LockInv
    <2>2. QED
      BY <2>1, TypeInit, ShapeInit, ContentInit DEF StoreInv
  <1>2. DamageInv
    BY DEF Init, DamageInv
  <1>3. \A k \in SegIdx : files[k].lines = <<>>
    BY DEF Init, NoFile
  <1>4. Positions(files) = {}
    BY <1>3 DEF Positions
  <1>5. AckInv
    <2>1. Sent = {} /\ Lost = {}
      BY DEF Init, Sent, HasRecord, Uncommitted, Lost
    <2>2. TornIn(files) = {}
      BY <1>4 DEF TornIn, Closed
    <2>3. QED
      BY <2>1, <2>2, FS_EmptySet DEF AckInv
  <1>6. HistoryInv
    <2>1. /\ manifest = NoManifest /\ CommittedChain = <<>>
          /\ \A p \in Procs : pc[p] \notin Uncommitted
      BY DEF Init, CommittedChain, NoHash, Uncommitted
    <2>2. HoldsChain(files, CommittedChain)
      BY <2>1 DEF HoldsChain
    <2>3. QED
      BY <1>4, <2>1, <2>2 DEF HistoryInv
  <1>7. QED
    BY <1>1, <1>2, <1>5, <1>6 DEF FullInv

LEMMA FullStep == FullInv /\ [Next]_vars => FullInv'
  <1> SUFFICES ASSUME FullInv, [Next]_vars PROVE FullInv'
    OBVIOUS
  <1>1. StoreInv /\ DamageInv /\ AckInv /\ HistoryInv
    BY DEF FullInv
  <1>2. TypeInv /\ LockInv /\ ShapeInv
    BY <1>1 DEF StoreInv
  <1>3. TypeInv' /\ LockInv' /\ ShapeInv' /\ ContentInv'
    BY <1>1, <1>2, TypeStep, LockStep, ShapeStep, ContentStep
  <1>4. StoreInv'
    BY <1>3 DEF StoreInv
  <1>5. DamageInv' /\ AckInv' /\ HistoryInv'
    BY <1>1, <1>4, DamageStep, AckStep, HistoryStep
  <1>6. QED
    BY <1>4, <1>5 DEF FullInv

\* The whole inductive invariant of the segmented store, as TLC checks it: the
\* segment files, manifest.json, the callers' manifests and the acknowledged
\* records stay related as its parts say through every step of every call of
\* pkg/evidence, every failed file operation and every crash.
THEOREM StoreInvariantHolds == Spec => []FullInv
  BY FullInit, FullStep, PTL DEF Spec

\* AckedOnDisk: whatever crashes or fails, at most one acknowledged record per
\* torn line is missing from the segment files: the one whose write ran into
\* the unterminated line that a failed write of appendRecordLine had left.
THEOREM AckedStaysOnDisk == Spec => []AckedOnDisk
  <1>1. FullInv => AckedOnDisk
    <2> SUFFICES ASSUME FullInv PROVE AckedOnDisk
      OBVIOUS
    <2> DEFINE T == {q \in Positions(files) : LineAt(files, q) = Torn}
    <2>1. IsFiniteSet(Positions(files)) /\ AckInv
      BY DEF FullInv, StoreInv, ShapeInv, DiskShape
    <2>2. Unwritten \subseteq Lost /\ Lost \subseteq Sent
      BY DEF Unwritten, Lost, Sent, Closed
    <2>3. TornIn(files) \subseteq T /\ T \subseteq Positions(files)
      BY DEF TornIn, Closed
    <2>4. IsFiniteSet(Lost) /\ IsFiniteSet(T)
      BY <2>1, <2>2, <2>3, FS_Subset DEF AckInv
    <2>5. /\ Cardinality(Unwritten) <= Cardinality(Lost)
          /\ Cardinality(TornIn(files)) <= Cardinality(T)
          /\ IsFiniteSet(Unwritten) /\ IsFiniteSet(TornIn(files))
      BY <2>2, <2>3, <2>4, FS_Subset
    <2>6. /\ Cardinality(Unwritten) \in Nat /\ Cardinality(Lost) \in Nat
          /\ Cardinality(TornIn(files)) \in Nat /\ Cardinality(T) \in Nat
      BY <2>4, <2>5, FS_CardinalityType
    <2>7. Cardinality(Lost) <= Cardinality(TornIn(files))
      BY <2>1 DEF AckInv
    <2> HIDE DEF T
    <2>8. Cardinality(Unwritten) <= Cardinality(T)
      BY <2>5, <2>6, <2>7
    <2>9. QED
      BY <2>8 DEF AckedOnDisk, T
  <1>2. QED
    BY <1>1, StoreInvariantHolds, PTL
=============================================================================
