-------------------------- MODULE LegacyStoreProofs --------------------------
(***************************************************************************)
(* The legacy single-file store for any number of callers, appends and     *)
(* faults, any set of records and any scanner limit.                       *)
(*                                                                         *)
(* Every line that parses is linked to the one before it, and only the     *)
(* last line can be torn: whoever is about to write has read the file to   *)
(* its end while it held the lock, so nobody writes behind such a line.    *)
(* Unless there is one, every acknowledged record is in the line that the  *)
(* length of its hash names.                                               *)
(***************************************************************************)
EXTENDS LegacyStore, FiniteSetTheorems, TLAPS

Stages == {"idle", "lock", "read", "write", "return"}

TypeOK ==
    /\ lock \in Procs \cup {NoProc}
    /\ file \in File
    /\ pc \in [Procs -> Stages]
    /\ body \in [Procs -> Bodies \cup {NoBody}]
    /\ rec \in [Procs -> Record \cup {NoRecord}]
    /\ acked \subseteq Record
    /\ cut \in BOOLEAN
    /\ appends \in Nat /\ faults \in Nat

Holds(p) == pc[p] \in {"read", "write", "return"}

LockInv == \A p \in Procs : Holds(p) <=> lock = p

\* A line that parses carries on the chain at its place.
Linked(ls, i) ==
    /\ ls[i].prev = IF i = 1 THEN NoHash ELSE ls[i - 1].hash
    /\ ls[i].hash = ComputeHash(ls[i].body, ls[i].prev)
    /\ Len(ls[i].hash) = i

Chained(f) ==
    /\ \A i \in 1 .. Len(f.lines) :
          \/ f.lines[i] = Torn /\ i = Len(f.lines)
          \/ f.lines[i] \in Record /\ Linked(f.lines, i)
    /\ f.open => f.lines # <<>>

\* The record r is in the line that its hash names, or a line is torn.
InPlace(f, r) ==
    \/ \E i \in 1 .. Len(f.lines) : f.lines[i] = Torn
    \/ /\ Len(r.hash) \in 1 .. Len(f.lines)
       /\ f.lines[Len(r.hash)] = r

CallInv ==
    \A p \in Procs :
        /\ pc[p] # "idle" => body[p] \in Bodies
        /\ pc[p] = "write" => /\ Parses(file)
                              /\ rec[p] = NewRecord(body[p], LastHash(file))
        /\ pc[p] = "return" => rec[p] \in Record /\ InPlace(file, rec[p])

AckInv == \A r \in acked : InPlace(file, r)

\* Half a line is the only way to a file that is open or torn.
CutInv ==
    ~cut => ~file.open /\ \A i \in 1 .. Len(file.lines) : file.lines[i] # Torn

LegacyInv ==
    TypeOK /\ LockInv /\ Chained(file) /\ CallInv /\ AckInv /\ CutInv

-----------------------------------------------------------------------------
(* Files and the records written to them.                                  *)

LEMMA NewRecordType ==
    ASSUME NEW b \in Bodies, NEW h \in HashVal
    PROVE  /\ NewRecord(b, h) \in Record
           /\ NewRecord(b, h).body.bytes \in Nat
  <1>1. b.bytes \in Nat
    BY BodiesAssumption
  <1>2. Append(h, Canonical(b)) \in HashVal
    BY DEF HashVal
  <1>3. QED
    BY <1>1, <1>2 DEF NewRecord, Record, ComputeHash

LEMMA LinesWithType ==
    ASSUME NEW f \in File, NEW l \in Line, f.open => f.lines # <<>>
    PROVE  LinesWith(f, l) \in Seq(Line) /\ LinesWith(f, l) # <<>>
  <1>1. f.lines \in Seq(Line) /\ Torn \in Line
    BY DEF File, Line
  <1>2. CASE f.open
    <2>1. Len(f.lines) \in 1 .. Len(f.lines)
      BY <1>1, <1>2
    <2>2. QED
      BY <1>1, <1>2, <2>1 DEF LinesWith
  <1>3. CASE ~f.open
    BY <1>1, <1>3 DEF LinesWith
  <1>4. QED
    BY <1>2, <1>3

LEMMA AppendLineType ==
    ASSUME NEW f \in File, NEW r \in Record, f.open => f.lines # <<>>
    PROVE  AppendLine(f, r) \in File
  <1>1. r.body.bytes \in Nat /\ r \in Line
    BY BodiesAssumption DEF Record, Line
  <1>2. f.bytes + r.body.bytes \in Nat
    BY <1>1 DEF File
  <1>3. LinesWith(f, r) \in Seq(Line)
    BY <1>1, LinesWithType
  <1>4. QED
    BY <1>2, <1>3 DEF AppendLine, File

LEMMA PartialLineType ==
    ASSUME NEW f \in File, NEW r \in Record, f.open => f.lines # <<>>,
           NEW n \in 1 .. (r.body.bytes - 1)
    PROVE  /\ PartialLine(f, r, n) \in File
           /\ \E l \in {r, Torn} : PartialLine(f, r, n).lines = LinesWith(f, l)
  <1> DEFINE l == IF n = r.body.bytes - 1 THEN r ELSE Torn
  <1>1. r.body.bytes \in Nat /\ l \in Line /\ l \in {r, Torn}
    BY BodiesAssumption DEF Record, Line
  <1>2. f.bytes + n \in Nat
    BY <1>1 DEF File
  <1>3. PartialLine(f, r, n) =
            [exists |-> TRUE, lines |-> LinesWith(f, l),
             bytes |-> f.bytes + n, open |-> TRUE]
    BY DEF PartialLine
  <1> HIDE DEF l
  <1>4. LinesWith(f, l) \in Seq(Line)
    BY <1>1, LinesWithType
  <1>5. QED
    BY <1>1, <1>2, <1>3, <1>4 DEF File

\* What readLastRecord returns is the hash of a record, as long as the chain.
LEMMA LastHashType ==
    ASSUME NEW f \in File, Chained(f), Parses(f)
    PROVE  LastHash(f) \in HashVal /\ Len(LastHash(f)) = Len(f.lines)
  <1>1. f.lines \in Seq(Line)
    BY DEF File
  <1>2. CASE f.lines = <<>>
    BY <1>2 DEF LastHash, NoHash, HashVal
  <1>3. CASE f.lines # <<>>
    <2>1. Len(f.lines) \in 1 .. Len(f.lines) /\ Len(f.lines) \in DOMAIN f.lines
      BY <1>1, <1>3
    <2>2. /\ f.lines[Len(f.lines)] \in Record
          /\ Len(f.lines[Len(f.lines)].hash) = Len(f.lines)
      BY <2>1 DEF Chained, Parses, Linked
    <2>3. QED
      BY <1>3, <2>2 DEF LastHash, Record
  <1>4. QED
    BY <1>2, <1>3

\* A record, or half of one, written after a file that was read to its end.
LEMMA WriteChained ==
    ASSUME NEW f \in File, Chained(f), Parses(f), NEW b \in Bodies,
           NEW l \in {NewRecord(b, LastHash(f)), Torn},
           NEW g \in File, g.lines = LinesWith(f, l)
    PROVE  /\ Chained(g)
           /\ \A r : InPlace(f, r) => InPlace(g, r)
           /\ l # Torn => InPlace(g, l)
  <1> DEFINE n == Len(f.lines)
             new == NewRecord(b, LastHash(f))
  <1>1. f.lines \in Seq(Line) /\ g.lines \in Seq(Line) /\ n \in Nat
    BY DEF File
  <1>2. \A i \in 1 .. n : f.lines[i] \in Record /\ Linked(f.lines, i)
    BY <1>1 DEF Chained, Parses
  <1>3. \A i \in 1 .. n : f.lines[i] # Torn
    BY <1>2, TornAssumption
  <1>4. LastHash(f) \in HashVal /\ Len(LastHash(f)) = n
    BY LastHashType
  <1>5. new \in Record /\ new # Torn
    BY <1>4, NewRecordType, TornAssumption
  <1>6. CASE f.open
    <2>1. n \in 1 .. n
      BY <1>1, <1>6 DEF Chained
    <2>2. g.lines = [f.lines EXCEPT ![n] = Torn]
      BY <1>6 DEF LinesWith
    <2>3. /\ Len(g.lines) = n /\ g.lines[n] = Torn
          /\ \A i \in 1 .. (n - 1) : g.lines[i] = f.lines[i]
      BY <1>1, <2>1, <2>2
    <2>4. \A i \in 1 .. (n - 1) : g.lines[i] \in Record /\ Linked(g.lines, i)
      <3> TAKE i \in 1 .. (n - 1)
      <3>1. i \in 1 .. n /\ (i # 1 => i - 1 \in 1 .. (n - 1))
        BY <1>1
      <3>2. g.lines[i] = f.lines[i] /\ (i # 1 => g.lines[i - 1] = f.lines[i - 1])
        BY <2>3, <3>1
      <3>3. QED
        BY <1>2, <3>1, <3>2 DEF Linked
    <2>5. \A i \in 1 .. n : i = n \/ i \in 1 .. (n - 1)
      BY <1>1
    <2>6. Chained(g)
      BY <1>1, <2>1, <2>3, <2>4, <2>5 DEF Chained
    <2>7. \A r : InPlace(g, r)
      BY <2>1, <2>3 DEF InPlace
    <2>8. QED
      BY <2>6, <2>7
  <1>7. CASE ~f.open
    <2>1. g.lines = Append(f.lines, l) /\ l \in Line
      BY <1>5, <1>7 DEF LinesWith, Line
    <2>2. /\ Len(g.lines) = n + 1 /\ g.lines[n + 1] = l
          /\ \A i \in 1 .. n : g.lines[i] = f.lines[i]
      BY <1>1, <2>1
    <2>3. \A i \in 1 .. n : g.lines[i] \in Record /\ Linked(g.lines, i)
      <3> TAKE i \in 1 .. n
      <3>1. i # 1 => i - 1 \in 1 .. n
        BY <1>1
      <3>2. g.lines[i] = f.lines[i] /\ (i # 1 => g.lines[i - 1] = f.lines[i - 1])
        BY <2>2, <3>1
      <3>3. QED
        BY <1>2, <3>2 DEF Linked
    <2>4. l = new => Linked(g.lines, n + 1)
      <3> SUFFICES ASSUME l = new PROVE Linked(g.lines, n + 1)
        OBVIOUS
      <3>1. /\ g.lines[n + 1].prev = LastHash(f)
            /\ g.lines[n + 1].hash = Append(LastHash(f), Canonical(b))
            /\ g.lines[n + 1].body = b
        <4>1. g.lines[n + 1] = new
          BY <2>2
        <4>2. /\ new.prev = LastHash(f) /\ new.body = b
              /\ new.hash = Append(LastHash(f), Canonical(b))
          BY DEF NewRecord, ComputeHash
        <4>3. QED
          BY <4>1, <4>2
      <3>2. Len(g.lines[n + 1].hash) = n + 1
        BY <1>4, <3>1 DEF HashVal
      <3>3. LastHash(f) = IF n + 1 = 1 THEN NoHash ELSE g.lines[n].hash
        <4>1. CASE n = 0
          BY <1>1, <4>1 DEF LastHash
        <4>2. CASE n # 0
          <5>1. n \in 1 .. n /\ f.lines # <<>>
            BY <1>1, <4>2
          <5>2. LastHash(f) = f.lines[n].hash
            BY <5>1 DEF LastHash
          <5>3. QED
            BY <1>1, <2>2, <4>2, <5>1, <5>2
        <4>3. QED
          BY <4>1, <4>2
      <3>4. g.lines[n + 1 - 1] = g.lines[n]
        BY <1>1
      <3>5. g.lines[n + 1].prev =
                IF n + 1 = 1 THEN NoHash ELSE g.lines[n + 1 - 1].hash
        BY <3>1, <3>3, <3>4
      <3>6. g.lines[n + 1].hash =
                ComputeHash(g.lines[n + 1].body, g.lines[n + 1].prev)
        BY <3>1 DEF ComputeHash
      <3>7. QED
        BY <1>1, <3>2, <3>5, <3>6 DEF Linked
    <2>5. \A i \in 1 .. (n + 1) : i = n + 1 \/ i \in 1 .. n
      BY <1>1
    <2>6. Chained(g)
      <3>1. ASSUME NEW i \in 1 .. Len(g.lines)
            PROVE  \/ g.lines[i] = Torn /\ i = Len(g.lines)
                   \/ g.lines[i] \in Record /\ Linked(g.lines, i)
        BY <1>5, <2>2, <2>3, <2>4, <2>5
      <3>2. g.lines # <<>>
        BY <1>1, <2>1, <2>2
      <3>3. QED
        BY <3>1, <3>2 DEF Chained
    <2>7. ASSUME NEW r, InPlace(f, r)
          PROVE  InPlace(g, r)
      <3>1. Len(r.hash) \in 1 .. n /\ f.lines[Len(r.hash)] = r
        BY <1>3, <2>7 DEF InPlace
      <3>2. Len(r.hash) \in 1 .. (n + 1)
        BY <1>1, <3>1
      <3>3. QED
        BY <2>2, <3>1, <3>2 DEF InPlace
    <2>8. l # Torn => InPlace(g, l)
      <3>1. l # Torn => Len(l.hash) = n + 1 /\ n + 1 \in 1 .. (n + 1)
        BY <1>1, <2>2, <2>4 DEF Linked
      <3>2. QED
        BY <2>2, <3>1 DEF InPlace
    <2>9. QED
      BY <2>6, <2>7, <2>8
  <1>8. QED
    BY <1>6, <1>7

-----------------------------------------------------------------------------
(* The steps.                                                              *)

\* A call that ends has no record any more, and gives back the lock.
LEMMA LeaveStep ==
    ASSUME LegacyInv, NEW p \in Procs, Leave(p), UNCHANGED file,
           UNCHANGED <<appends, cut>>, faults' \in Nat,
           \/ UNCHANGED acked
           \/ pc[p] = "return" /\ acked' = acked \cup {rec[p]}
    PROVE  LegacyInv'
  <1>0. TypeOK /\ LockInv /\ Chained(file) /\ CallInv /\ AckInv /\ CutInv
    BY DEF LegacyInv
  <1>1. /\ pc' \in [Procs -> Stages] /\ pc'[p] = "idle"
        /\ body' \in [Procs -> Bodies \cup {NoBody}]
        /\ rec' \in [Procs -> Record \cup {NoRecord}]
        /\ \A q \in Procs : q # p => /\ pc'[q] = pc[q] /\ body'[q] = body[q]
                                     /\ rec'[q] = rec[q]
    BY <1>0 DEF Leave, TypeOK, Stages
  <1>2. lock' = IF lock = p THEN NoProc ELSE lock
    BY DEF Leave
  <1>3. \A r \in acked' : r \in Record /\ InPlace(file, r)
    BY <1>0 DEF TypeOK, CallInv, AckInv
  <1>4. TypeOK'
    BY <1>0, <1>1, <1>2, <1>3 DEF TypeOK
  <1>5. LockInv'
    BY <1>0, <1>1, <1>2, LegacyAssumption DEF LockInv, Holds
  <1>6. CallInv'
    BY <1>0, <1>1 DEF CallInv
  <1>7. AckInv'
    BY <1>3 DEF AckInv
  <1>8. (Chained(file) /\ CutInv)'
    BY <1>0 DEF CutInv
  <1>9. QED
    BY <1>4, <1>5, <1>6, <1>7, <1>8 DEF LegacyInv

\* Only the holder of the lock is past it.
LEMMA WriterAlone ==
    ASSUME TypeOK, LockInv, NEW p \in Procs, Holds(p)
    PROVE  \A q \in Procs : q # p => ~Holds(q)
  BY DEF LockInv

\* A file that the only writer has written to.
LEMMA FileStep ==
    ASSUME LegacyInv, NEW p \in Procs, pc[p] = "write",
           NEW l \in {rec[p], Torn}, file' \in File,
           file'.lines = LinesWith(file, l)
    PROVE  /\ rec[p] \in Record /\ Chained(file')
           /\ \A r : InPlace(file, r) => InPlace(file', r)
           /\ l = rec[p] => InPlace(file', rec[p])
  <1>1. /\ file \in File /\ Chained(file) /\ Parses(file) /\ body[p] \in Bodies
        /\ rec[p] = NewRecord(body[p], LastHash(file))
    BY DEF LegacyInv, TypeOK, CallInv
  <1>2. rec[p] \in Record /\ rec[p] # Torn
    BY <1>1, LastHashType, NewRecordType, TornAssumption
  <1>3. QED
    BY <1>1, <1>2, WriteChained

LEMMA StepKeepsInv == LegacyInv /\ [Next]_vars => LegacyInv'
  <1> SUFFICES ASSUME LegacyInv, [Next]_vars PROVE LegacyInv'
    OBVIOUS
  <1>0. TypeOK /\ LockInv /\ Chained(file) /\ CallInv /\ AckInv /\ CutInv
    BY DEF LegacyInv
  <1>1. ASSUME NEW p \in Procs, NEW b \in Bodies, Call(p, b)
        PROVE  LegacyInv'
    <2>1. /\ pc' \in [Procs -> Stages] /\ pc'[p] = "lock" /\ pc[p] = "idle"
          /\ body' \in [Procs -> Bodies \cup {NoBody}] /\ body'[p] = b
          /\ \A q \in Procs : q # p => pc'[q] = pc[q] /\ body'[q] = body[q]
      BY <1>0, <1>1 DEF Call, TypeOK, Stages
    <2>2. UNCHANGED <<lock, file, rec, acked, cut, faults>> /\ appends' \in Nat
      BY <1>0, <1>1 DEF Call, TypeOK
    <2>3. TypeOK'
      BY <1>0, <2>1, <2>2 DEF TypeOK
    <2>4. LockInv'
      BY <1>0, <2>1, <2>2 DEF LockInv, Holds
    <2>5. CallInv'
      BY <1>0, <2>1, <2>2 DEF CallInv
    <2>6. (Chained(file) /\ AckInv /\ CutInv)'
      BY <1>0, <2>2 DEF AckInv, CutInv
    <2>7. QED
      BY <2>3, <2>4, <2>5, <2>6 DEF LegacyInv
  <1>2. ASSUME NEW p \in Procs, Acquire(p)
        PROVE  LegacyInv'
    <2>1. /\ pc' \in [Procs -> Stages] /\ pc'[p] = "read" /\ pc[p] = "lock"
          /\ lock = NoProc /\ lock' = p
          /\ \A q \in Procs : q # p => pc'[q] = pc[q]
      BY <1>0, <1>2 DEF Acquire, TypeOK, Stages
    <2>2. UNCHANGED <<file, body, rec, acked, cut, appends, faults>>
      BY <1>2 DEF Acquire
    <2>3. TypeOK'
      BY <1>0, <2>1, <2>2 DEF TypeOK
    <2>4. LockInv'
      BY <1>0, <2>1, LegacyAssumption DEF LockInv, Holds
    <2>5. CallInv'
      BY <1>0, <2>1, <2>2 DEF CallInv
    <2>6. (Chained(file) /\ AckInv /\ CutInv)'
      BY <1>0, <2>2 DEF AckInv, CutInv
    <2>7. QED
      BY <2>3, <2>4, <2>5, <2>6 DEF LegacyInv
  <1>3. ASSUME NEW p \in Procs, Busy(p) \/ Return(p) \/ Crash(p)
        PROVE  LegacyInv'
    <2>1. /\ Leave(p) /\ UNCHANGED <<file, appends, cut>> /\ faults' \in Nat
          /\ \/ UNCHANGED acked
             \/ pc[p] = "return" /\ acked' = acked \cup {rec[p]}
      BY <1>0, <1>3 DEF Busy, Return, Crash, TypeOK
    <2>2. QED
      BY <2>1, LeaveStep
  <1>4. ASSUME NEW p \in Procs, ReadLast(p)
        PROVE  LegacyInv'
    <2>1. CASE ~Parses(file)
      <3>1. /\ Leave(p) /\ UNCHANGED <<file, appends, cut, acked>>
            /\ faults' \in Nat
        BY <1>0, <1>4, <2>1 DEF ReadLast, TypeOK
      <3>2. QED
        BY <3>1, LeaveStep
    <2>2. CASE Parses(file)
      <3>1. pc[p] = "read" /\ body[p] \in Bodies
        BY <1>0, <1>4 DEF ReadLast, CallInv
      <3>2. NewRecord(body[p], LastHash(file)) \in Record
        BY <1>0, <2>2, <3>1, LastHashType, NewRecordType DEF TypeOK
      <3>3. /\ pc' = [pc EXCEPT ![p] = "write"]
            /\ rec' = [rec EXCEPT ![p] = NewRecord(body[p], LastHash(file))]
            /\ UNCHANGED <<lock, body, file, acked, cut, appends, faults>>
        BY <1>4, <2>2 DEF ReadLast
      <3>4. /\ pc' \in [Procs -> Stages] /\ pc'[p] = "write"
            /\ rec' \in [Procs -> Record \cup {NoRecord}]
            /\ rec'[p] = NewRecord(body[p], LastHash(file))
            /\ \A q \in Procs : q # p => pc'[q] = pc[q] /\ rec'[q] = rec[q]
        BY <1>0, <3>2, <3>3 DEF TypeOK, Stages
      <3>5. TypeOK'
        BY <1>0, <3>3, <3>4 DEF TypeOK
      <3>6. LockInv'
        BY <1>0, <3>1, <3>3, <3>4 DEF LockInv, Holds
      <3>7. CallInv'
        BY <1>0, <2>2, <3>1, <3>3, <3>4 DEF CallInv
      <3>8. (Chained(file) /\ AckInv /\ CutInv)'
        BY <1>0, <3>3 DEF AckInv, CutInv
      <3>9. QED
        BY <3>5, <3>6, <3>7, <3>8 DEF LegacyInv
    <2>3. QED
      BY <2>1, <2>2
  <1>5. ASSUME NEW p \in Procs, Write(p)
        PROVE  LegacyInv'
    <2>1. /\ pc[p] = "write" /\ pc'[p] = "return" /\ pc' \in [Procs -> Stages]
          /\ \A q \in Procs : q # p => pc'[q] = pc[q]
          /\ UNCHANGED <<lock, body, rec, acked, cut, appends, faults>>
      BY <1>0, <1>5 DEF Write, TypeOK, Stages
    <2>2. rec[p] \in Record
      <3>1. /\ body[p] \in Bodies /\ Parses(file)
            /\ rec[p] = NewRecord(body[p], LastHash(file))
        BY <1>0, <2>1 DEF CallInv
      <3>2. QED
        BY <1>0, <3>1, LastHashType, NewRecordType DEF TypeOK
    <2>3. file' \in File /\ file'.lines = LinesWith(file, rec[p]) /\ ~file'.open
      <3>1. file' = AppendLine(file, rec[p])
        BY <1>5 DEF Write
      <3>2. AppendLine(file, rec[p]) \in File
        BY <1>0, <2>2, AppendLineType DEF TypeOK, Chained
      <3>3. QED
        BY <3>1, <3>2 DEF AppendLine
    <2>4. /\ Chained(file') /\ InPlace(file', rec[p])
          /\ \A r : InPlace(file, r) => InPlace(file', r)
      BY <2>1, <2>3, FileStep
    <2>5. \A q \in Procs : q # p => ~Holds(q)
      BY <1>0, <2>1, WriterAlone DEF Holds
    <2>6. TypeOK'
      BY <1>0, <2>1, <2>3 DEF TypeOK
    <2>7. LockInv'
      BY <1>0, <2>1 DEF LockInv, Holds
    <2>8. CallInv'
      BY <1>0, <2>1, <2>2, <2>4, <2>5 DEF CallInv, Holds
    <2>9. AckInv'
      BY <1>0, <2>1, <2>4 DEF AckInv
    <2>10. CutInv'
      <3> SUFFICES ASSUME ~cut
                   PROVE  \A i \in 1 .. Len(file'.lines) : file'.lines[i] # Torn
        BY <2>1, <2>3 DEF CutInv
      <3>1. /\ file.lines \in Seq(Line) /\ ~file.open
            /\ \A i \in 1 .. Len(file.lines) : file.lines[i] # Torn
        BY <1>0 DEF CutInv, TypeOK, File
      <3>2. file'.lines = Append(file.lines, rec[p]) /\ rec[p] # Torn
        BY <2>2, <2>3, <3>1, TornAssumption DEF LinesWith
      <3>3. rec[p] \in Line
        BY <2>2 DEF Line
      <3>4. QED
        BY <3>1, <3>2, <3>3
    <2>11. QED
      BY <2>4, <2>6, <2>7, <2>8, <2>9, <2>10 DEF LegacyInv
  <1>6. ASSUME NEW p \in Procs, WriteFails(p)
        PROVE  LegacyInv'
    <2>1. /\ pc[p] = "write" /\ Leave(p) /\ faults' \in Nat
          /\ UNCHANGED <<acked, appends>>
      BY <1>0, <1>6 DEF WriteFails, TypeOK
    <2>2. CASE UNCHANGED <<file, cut>>
      BY <2>1, <2>2, LeaveStep
    <2>3. CASE \E n \in 1 .. (rec[p].body.bytes - 1) :
                  file' = PartialLine(file, rec[p], n) /\ cut' = TRUE
      <3>1. rec[p] \in Record
        <4>1. /\ body[p] \in Bodies /\ Parses(file)
              /\ rec[p] = NewRecord(body[p], LastHash(file))
          BY <1>0, <2>1 DEF CallInv
        <4>2. QED
          BY <1>0, <4>1, LastHashType, NewRecordType DEF TypeOK
      <3>2. PICK n \in 1 .. (rec[p].body.bytes - 1) :
                file' = PartialLine(file, rec[p], n) /\ cut' = TRUE
        BY <2>3
      <3>3. /\ file' \in File
            /\ \E l \in {rec[p], Torn} : file'.lines = LinesWith(file, l)
        BY <1>0, <3>1, <3>2, PartialLineType DEF TypeOK, Chained
      <3>4. Chained(file') /\ \A r : InPlace(file, r) => InPlace(file', r)
        BY <2>1, <3>3, FileStep
      <3>5. /\ pc' \in [Procs -> Stages] /\ pc'[p] = "idle"
            /\ body' \in [Procs -> Bodies \cup {NoBody}]
            /\ rec' \in [Procs -> Record \cup {NoRecord}]
            /\ \A q \in Procs : q # p => /\ pc'[q] = pc[q] /\ body'[q] = body[q]
                                         /\ rec'[q] = rec[q]
        BY <1>0, <2>1 DEF Leave, TypeOK, Stages
      <3>6. lock' = NoProc /\ \A q \in Procs : q # p => ~Holds(q)
        BY <1>0, <2>1, WriterAlone DEF Holds, LockInv, Leave
      <3>7. TypeOK'
        BY <1>0, <2>1, <3>2, <3>3, <3>5, <3>6 DEF TypeOK
      <3>8. LockInv'
        BY <3>5, <3>6, LegacyAssumption DEF LockInv, Holds
      <3>9. CallInv'
        BY <1>0, <3>4, <3>5, <3>6 DEF CallInv, Holds
      <3>10. AckInv'
        BY <1>0, <2>1, <3>4 DEF AckInv
      <3>11. CutInv'
        BY <3>2 DEF CutInv
      <3>12. QED
        BY <3>4, <3>7, <3>8, <3>9, <3>10, <3>11 DEF LegacyInv
    <2>4. QED
      BY <1>6, <2>2, <2>3 DEF WriteFails
  <1>7. CASE UNCHANGED vars
    BY <1>0, <1>7 DEF vars, locals, LegacyInv, TypeOK, LockInv, Holds, CallInv,
       AckInv, CutInv
  <1>8. QED
    BY <1>1, <1>2, <1>3, <1>4, <1>5, <1>6, <1>7 DEF Next

\* Every state of the legacy store satisfies the inductive invariant: only the
\* last line of its file can be torn, all others are linked, and what was
\* acknowledged is in its place unless a line is torn.
THEOREM LegacyInvariant == Spec => []LegacyInv
  <1>1. Init => LegacyInv
    <2> SUFFICES ASSUME Init PROVE LegacyInv
      OBVIOUS
    <2>1. /\ file = NoFile /\ file.lines = <<>> /\ file.open = FALSE
          /\ Len(file.lines) = 0
      BY DEF Init, NoFile
    <2>2. file \in File
      <3>1. <<>> \in Seq(Line)
        OBVIOUS
      <3>2. QED
        BY <2>1, <3>1 DEF NoFile, File
    <2>3. TypeOK
      BY <2>2 DEF Init, TypeOK, Stages
    <2>4. LockInv
      BY LegacyAssumption DEF Init, LockInv, Holds
    <2>5. CallInv /\ AckInv
      BY DEF Init, CallInv, AckInv
    <2>6. Chained(file) /\ CutInv
      BY <2>1 DEF Chained, CutInv
    <2>7. QED
      BY <2>3, <2>4, <2>5, <2>6 DEF LegacyInv
  <1>2. QED
    BY <1>1, StepKeepsInv, PTL DEF Spec

-----------------------------------------------------------------------------
(* What the store promises.                                                *)

\* ValidMeansComplete: a chain that validateLegacyChain accepts has lost no
\* acknowledged record, whatever crashed or was cut off before.
THEOREM ValidLegacyIsComplete == Spec => []ValidMeansComplete
  <1>1. LegacyInv => ValidMeansComplete
    <2> SUFFICES ASSUME LegacyInv, ChainValid(file), NEW r \in acked
                 PROVE  /\ Found(file, r)
                        /\ Len(r.hash) <= Metadata(file).records
                        /\ file.lines[Len(r.hash)] = r
      BY DEF ValidMeansComplete
    <2>1. file.lines \in Seq(Line) /\ InPlace(file, r)
      BY DEF LegacyInv, TypeOK, File, AckInv
    <2>2. \A i \in 1 .. Len(file.lines) : file.lines[i] # Torn
      BY <2>1 DEF ChainValid, Parses
    <2>3. /\ Len(r.hash) \in 1 .. Len(file.lines)
          /\ file.lines[Len(r.hash)] = r
      BY <2>1, <2>2 DEF InPlace
    <2>4. QED
      BY <2>1, <2>3 DEF Found, Metadata
  <1>2. QED
    BY <1>1, LegacyInvariant, PTL

\* The policies of a file that parses: a finite set.
LEMMA FinitePolicyRefs ==
    ASSUME NEW f \in File
    PROVE  IsFiniteSet(PolicyRefs(f))
  <1> DEFINE D == 1 .. Len(f.lines)
             T == {f.lines[i].body.policyRef : i \in D}
             g == [i \in D |-> f.lines[i].body.policyRef]
  <1>1. f.lines \in Seq(Line) /\ DOMAIN f.lines = D
    BY DEF File
  <1>2. IsFiniteSet(D)
    BY <1>1, FS_Interval
  <1>3. g \in Surjection(D, T)
    BY DEF Surjection
  <1>4. IsFiniteSet(T)
    BY <1>2, <1>3, FS_Surjection DEF ExistsSurjection
  <1>5. PolicyRefs(f) \in SUBSET T
    BY <1>1 DEF PolicyRefs
  <1>6. QED
    BY <1>4, <1>5, FS_Subset

LEMMA AtMostOne ==
    ASSUME NEW S, IsFiniteSet(S)
    PROVE  Cardinality(S) <= 1 <=> \A x, y \in S : x = y
  <1>1. Cardinality(S) \in Nat
    BY FS_CardinalityType
  <1>2. Cardinality(S) <= 1 <=> Cardinality(S) = 0 \/ Cardinality(S) = 1
    BY <1>1
  <1>3. Cardinality(S) = 0 <=> S = {}
    BY FS_EmptySet
  <1>4. Cardinality(S) = 1 <=> \E x : S = {x}
    BY FS_Singleton
  <1>5. (\A x, y \in S : x = y) <=> S = {} \/ \E x : S = {x}
    OBVIOUS
  <1>6. QED
    BY <1>2, <1>3, <1>4, <1>5

\* UncutIsValid: as long as no write stopped half way, crashes leave a chain
\* that only a second policy or an overlong record can make invalid.
THEOREM UncutLegacyIsValid == Spec => []UncutIsValid
  <1>1. LegacyInv => UncutIsValid
    <2> SUFFICES ASSUME LegacyInv, ~cut
                 PROVE  /\ Torn \notin Range(file.lines) /\ LinksOk(file)
                        /\ ChainValid(file) <=>
                              /\ Cardinality(PolicyRefs(file)) <= 1
                              /\ \A l \in Range(file.lines) : ~TooLong(l)
      BY DEF UncutIsValid
    <2>1. /\ file \in File /\ file.lines \in Seq(Line)
          /\ DOMAIN file.lines = 1 .. Len(file.lines)
          /\ \A i \in 1 .. Len(file.lines) : file.lines[i] # Torn
      BY DEF LegacyInv, TypeOK, File, CutInv
    <2>2. Torn \notin Range(file.lines)
      BY <2>1 DEF Range
    <2>3. LinksOk(file)
      BY <2>1 DEF LegacyInv, Chained, Linked, LinksOk
    <2>4. Parses(file) <=> \A l \in Range(file.lines) : ~TooLong(l)
      BY <2>1 DEF Parses, Range
    <2>5. Cardinality(PolicyRefs(file)) <= 1
            <=> \A x, y \in PolicyRefs(file) : x = y
      BY <2>1, FinitePolicyRefs, AtMostOne
    <2>6. QED
      BY <2>2, <2>3, <2>4, <2>5 DEF ChainValid
  <1>2. QED
    BY <1>1, LegacyInvariant, PTL

\* BrokenIsFrozen: appendLegacy reads the file to its end before it writes, in
\* the same critical section, so that a file with a line it cannot read is
\* never written again.
THEOREM BrokenStaysFrozen == Spec => BrokenIsFrozen
  <1>1. LegacyInv /\ [Next]_vars => [~Parses(file) => file' = file]_vars
    <2> SUFFICES ASSUME LegacyInv, Next, ~Parses(file) PROVE file' = file
      OBVIOUS
    <2>1. \A p \in Procs : pc[p] # "write"
      BY DEF LegacyInv, CallInv
    <2>2. QED
      BY <2>1 DEF Next, Call, Acquire, Busy, ReadLast, Write, Return,
         WriteFails, Crash
  <1>2. QED
    BY <1>1, LegacyInvariant, PTL DEF Spec, BrokenIsFrozen
=============================================================================
