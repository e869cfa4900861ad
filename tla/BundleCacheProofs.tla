-------------------------- MODULE BundleCacheProofs --------------------------
(***************************************************************************)
(* A server that starts alone, of the newest version so far, serves the    *)
(* whole bundle it was built with: for any number of versions and files,   *)
(* and after any failure or death of any earlier start.                    *)
(***************************************************************************)
EXTENDS BundleCache, TLAPS

\* One server at a time, and no way back to an older binary.
Serial == (\A s, t \in Servers : s = t) /\ GoBack = FALSE

\* The directory holds the whole bundle of version v, and nothing else unless a
\* removal failed.
Holds(v) ==
    /\ \A f \in Bundle[v] : dir[f] = v
    /\ ~leftover => \A f \in Paths \ Bundle[v] : dir[f] = Absent

\* BUNDLE.SHA256 is never of a version that is still to come, and if it is of
\* the version started last, the directory is that version's bundle.
MarkInv ==
    /\ sha \in Versions => sha <= current
    /\ sha \in Versions /\ sha = current => Holds(sha)

\* Steps between a cache miss and the marking of the new bundle.
Missed == {"remove", "extract", "mark", "giveup"}

\* The server at work is of the version started last; after a miss the hash is
\* not its own until all files are there.
ServerInv(s) ==
    /\ pc[s] # "down" => ver[s] = current
    /\ pc[s] \in Missed => sha # ver[s]
    /\ pc[s] = "extract" =>
          /\ todo[s] \subseteq Bundle[ver[s]]
          /\ \A f \in Bundle[ver[s]] \ todo[s] : dir[f] = ver[s]
          /\ ~leftover => \A f \in Paths \ Bundle[ver[s]] : dir[f] = Absent
    /\ pc[s] = "mark" => Holds(ver[s])
    /\ pc[s] \in {"hit", "ready"} => sha = ver[s]

CacheInv == TypeOK /\ MarkInv /\ \A s \in Servers : ServerInv(s)

-----------------------------------------------------------------------------
LEMMA CacheInit == Init => TypeOK
<1>1. Absent \in Content
  BY DEF Content
<1> QED
  BY <1>1 DEF Init, TypeOK

LEMMA RemoveEntryType ==
    ASSUME TypeOK, RemoveEntry
    PROVE  dir' \in [Paths -> Content] /\ sha' \in Content
BY DEF TypeOK, RemoveEntry, Content

LEMMA TypeStep == TypeOK /\ [Next]_vars => TypeOK'
<1> SUFFICES ASSUME TypeOK, [Next]_vars PROVE TypeOK'
  OBVIOUS
<1>0. Absent \in Content /\ Partial \in Content /\ Versions \subseteq Content
  BY DEF Content
<1>1. ASSUME NEW s \in Servers, NEW v \in Versions, Start(s, v) PROVE TypeOK'
  BY <1>1 DEF Start, Goto, TypeOK
<1>2. ASSUME NEW s \in Servers, Check(s) \/ Open(s) PROVE TypeOK'
  BY <1>2 DEF Check, Open, Goto, TypeOK
<1>3. ASSUME NEW s \in Servers, Remove(s) \/ RemoveFails(s) PROVE TypeOK'
  <2>1. Bundle[ver[s]] \subseteq Paths
    BY CacheAssumption DEF TypeOK
  <2> QED
    BY <1>3, <2>1, RemoveEntryType DEF Remove, RemoveFails, Goto, TypeOK
<1>4. ASSUME NEW s \in Servers, Extract(s) PROVE TypeOK'
  BY <1>0, <1>4 DEF Extract, Goto, TypeOK
<1>5. ASSUME NEW s \in Servers, Mark(s) \/ MarkFails(s) PROVE TypeOK'
  BY <1>0, <1>5 DEF Mark, MarkFails, Goto, TypeOK
<1>6. ASSUME NEW s \in Servers, ExtractFails(s) \/ Stop(s) PROVE TypeOK'
  BY <1>0, <1>6 DEF ExtractFails, Stop, Goto, TypeOK
<1>7. ASSUME NEW s \in Servers, GiveUp(s) PROVE TypeOK'
  BY <1>7, RemoveEntryType DEF GiveUp, Goto, TypeOK
<1>8. CASE UNCHANGED vars
  BY <1>8 DEF vars, TypeOK
<1> QED
  BY <1>1, <1>2, <1>3, <1>4, <1>5, <1>6, <1>7, <1>8 DEF Next

\* TypeOK: for any number of servers, of any versions, at the same time.
THEOREM CacheTypeCorrect == Spec => []TypeOK
BY CacheInit, TypeStep, PTL DEF Spec

-----------------------------------------------------------------------------
(* One server at a time.                                                   *)

\* No entry of the directory is removed while its hash is the server's own.
LEMMA RemoveEntryKeeps ==
    ASSUME TypeOK, MarkInv, NEW s \in Servers, ver[s] = current, sha # ver[s],
           RemoveEntry, UNCHANGED <<ver, current, leftover>>
    PROVE  MarkInv' /\ sha' # ver'[s]
<1>1. sha' = sha \/ sha' = Absent
  BY DEF RemoveEntry
<1>2. ver[s] \in Versions /\ Absent \notin Versions
  BY CacheAssumption DEF TypeOK
<1> QED
  BY <1>1, <1>2 DEF MarkInv

LEMMA ServerStep ==
    ASSUME CacheInv, NEW s \in Servers, \A t \in Servers : t = s, GoBack = FALSE,
           \/ \E v \in Versions : Start(s, v)
           \/ Check(s) \/ Remove(s) \/ Extract(s) \/ Mark(s) \/ Open(s)
           \/ RemoveFails(s) \/ ExtractFails(s) \/ GiveUp(s) \/ MarkFails(s)
           \/ Stop(s)
    PROVE  MarkInv' /\ ServerInv(s)'
<1>0. TypeOK /\ MarkInv /\ ServerInv(s)
  BY DEF CacheInv
<1>a. /\ dir \in [Paths -> Content]
      /\ pc \in [Servers -> {"down", "check", "hit", "remove", "extract", "mark",
                             "giveup", "ready"}]
      /\ ver \in [Servers -> Versions] /\ todo \in [Servers -> SUBSET Paths]
      /\ current \in Nat /\ ver[s] \in Versions /\ Bundle[ver[s]] \subseteq Paths
      /\ Absent \notin Versions /\ Partial \notin Versions /\ Versions \subseteq Nat
  <2>1. Versions \subseteq Nat /\ Bundle \in [Versions -> SUBSET Paths]
    BY CacheAssumption
  <2>2. ver \in [Servers -> Versions] /\ ver[s] \in Versions
    BY <1>0 DEF TypeOK
  <2>3. current \in Nat
    BY <1>0, <2>1 DEF TypeOK
  <2>4. Bundle[ver[s]] \subseteq Paths
    BY <2>1, <2>2
  <2> QED
    BY <1>0, <2>1, <2>2, <2>3, <2>4, CacheAssumption DEF TypeOK
<1>1. ASSUME NEW v \in Versions, Start(s, v) PROVE MarkInv' /\ ServerInv(s)'
  <2>1. /\ v >= current /\ current' = v /\ ver'[s] = v /\ pc'[s] = "check"
        /\ UNCHANGED <<dir, sha, leftover>>
    BY <1>a, <1>1 DEF Start, Goto
  <2>2. \A u \in Versions : Holds(u)' = Holds(u)
    BY <2>1 DEF Holds
  <2>3. MarkInv'
    <3>1. sha \in Versions => sha <= v
      BY <1>0, <1>a, <2>1 DEF MarkInv
    <3>2. sha \in Versions /\ sha = v => sha = current
      BY <1>0, <1>a, <2>1 DEF MarkInv
    <3> QED
      BY <1>0, <2>1, <2>2, <3>1, <3>2 DEF MarkInv
  <2> QED
    BY <2>1, <2>3 DEF ServerInv, Missed
<1>2. CASE Check(s)
  BY <1>0, <1>a, <1>2 DEF Check, Goto, MarkInv, ServerInv, Missed, Holds
<1>3. CASE Open(s)
  BY <1>0, <1>a, <1>3 DEF Open, Goto, MarkInv, ServerInv, Missed, Holds
<1>4. CASE Remove(s)
  <2>0. ver[s] = current /\ sha # ver[s] /\ UNCHANGED <<ver, current, leftover>>
    BY <1>0, <1>4 DEF Remove, ServerInv, Missed
  <2>1. CASE RemoveEntry /\ UNCHANGED <<pc, todo>>
    <3>1. MarkInv' /\ sha' # ver'[s]
      BY <1>0, <2>0, <2>1, RemoveEntryKeeps
    <3>2. pc'[s] = "remove" /\ ver'[s] = current'
      BY <1>4, <2>0, <2>1 DEF Remove
    <3> QED
      BY <3>1, <3>2 DEF ServerInv
  <2>2. CASE ~(RemoveEntry /\ UNCHANGED <<pc, todo>>)
    <3>1. /\ \A f \in Paths : dir[f] = Absent
          /\ todo'[s] = Bundle[ver[s]] /\ pc'[s] = "extract"
          /\ UNCHANGED <<dir, sha>>
      BY <1>a, <1>4, <2>2 DEF Remove, Empty, Goto
    <3>2. MarkInv'
      BY <1>0, <2>0, <3>1 DEF MarkInv, Holds
    <3>3. ServerInv(s)'
      BY <2>0, <3>1 DEF ServerInv, Missed
    <3> QED
      BY <3>2, <3>3
  <2> QED
    BY <2>1, <2>2
<1>5. CASE RemoveFails(s)
  <2>1. /\ ver[s] = current /\ sha # ver[s] /\ leftover' = TRUE
        /\ todo'[s] = Bundle[ver[s]] /\ pc'[s] = "extract"
        /\ UNCHANGED <<dir, sha, ver, current>>
    BY <1>0, <1>a, <1>5 DEF RemoveFails, Goto, ServerInv, Missed
  <2> QED
    BY <1>0, <2>1 DEF MarkInv, ServerInv, Missed
<1>6. CASE Extract(s)
  <2>0. /\ ver[s] = current /\ sha # ver[s]
        /\ UNCHANGED <<sha, ver, current, leftover>>
        /\ todo[s] \subseteq Bundle[ver[s]]
        /\ \A f \in Bundle[ver[s]] \ todo[s] : dir[f] = ver[s]
        /\ ~leftover => \A f \in Paths \ Bundle[ver[s]] : dir[f] = Absent
    BY <1>0, <1>6 DEF Extract, ServerInv, Missed
  <2>1. MarkInv'
    BY <1>0, <2>0 DEF MarkInv
  <2>2. CASE \E f \in todo[s] : /\ dir' = [dir EXCEPT ![f] = ver[s]]
                                /\ todo' = [todo EXCEPT ![s] = @ \ {f}]
                                /\ UNCHANGED pc
    <3>1. PICK f \in todo[s] : /\ dir' = [dir EXCEPT ![f] = ver[s]]
                               /\ todo'[s] = todo[s] \ {f}
                               /\ UNCHANGED pc
      BY <1>a, <2>2
    <3>2. f \in Paths /\ f \in Bundle[ver[s]]
      BY <1>a, <2>0
    <3>3. \A g \in Bundle[ver[s]] \ todo'[s] : dir'[g] = ver[s]
      BY <1>a, <2>0, <3>1, <3>2
    <3>4. ~leftover => \A g \in Paths \ Bundle[ver[s]] : dir'[g] = Absent
      BY <1>a, <2>0, <3>1, <3>2
    <3>5. pc'[s] = "extract" /\ todo'[s] \subseteq Bundle[ver[s]]
      BY <1>6, <2>0, <3>1 DEF Extract
    <3> QED
      BY <2>0, <2>1, <3>3, <3>4, <3>5 DEF ServerInv
  <2>3. CASE todo[s] = {} /\ Goto(s, "mark") /\ UNCHANGED <<dir, todo>>
    <3>1. pc'[s] = "mark"
      BY <1>a, <2>3 DEF Goto
    <3>2. Holds(ver[s])'
      BY <2>0, <2>3 DEF Holds
    <3> QED
      BY <2>0, <2>1, <3>1, <3>2 DEF ServerInv
  <2> QED
    BY <1>6, <2>2, <2>3 DEF Extract
<1>7. CASE Mark(s)
  <2>1. /\ ver[s] = current /\ sha' = ver[s] /\ pc'[s] = "ready" /\ Holds(ver[s])
        /\ UNCHANGED <<dir, ver, current, leftover>>
    BY <1>0, <1>a, <1>7 DEF Mark, Goto, ServerInv, Missed
  <2>2. Holds(ver[s])'
    BY <2>1 DEF Holds
  <2>3. current <= current
    BY <1>a
  <2> QED
    BY <2>1, <2>2, <2>3 DEF MarkInv, ServerInv, Missed
<1>8. CASE ExtractFails(s)
  <2>1. /\ ver[s] = current /\ sha # ver[s] /\ pc'[s] = "giveup"
        /\ UNCHANGED <<sha, ver, current>>
    BY <1>0, <1>a, <1>8 DEF ExtractFails, Goto, ServerInv, Missed
  <2> QED
    BY <1>0, <2>1 DEF MarkInv, ServerInv
<1>9. CASE GiveUp(s)
  <2>0. ver[s] = current /\ sha # ver[s] /\ UNCHANGED <<ver, current, leftover>>
    BY <1>0, <1>9 DEF GiveUp, ServerInv, Missed
  <2>1. CASE RemoveEntry /\ UNCHANGED pc
    <3>1. MarkInv' /\ sha' # ver'[s]
      BY <1>0, <2>0, <2>1, RemoveEntryKeeps
    <3>2. pc'[s] = "giveup" /\ ver'[s] = current'
      BY <1>9, <2>0, <2>1 DEF GiveUp
    <3> QED
      BY <3>1, <3>2 DEF ServerInv
  <2>2. CASE Goto(s, "down") /\ UNCHANGED <<dir, sha>>
    <3>1. pc'[s] = "down"
      BY <1>a, <2>2 DEF Goto
    <3> QED
      BY <1>0, <2>0, <2>2, <3>1 DEF MarkInv, ServerInv, Missed
  <2> QED
    BY <1>9, <2>1, <2>2 DEF GiveUp
<1>10. CASE MarkFails(s)
  <2>1. /\ ver[s] = current /\ sha # ver[s] /\ pc'[s] = "down"
        /\ sha' = sha \/ sha' = Partial
        /\ UNCHANGED <<dir, ver, current>>
    BY <1>0, <1>a, <1>10 DEF MarkFails, Goto, ServerInv, Missed
  <2> QED
    BY <1>0, <1>a, <2>1 DEF MarkInv, ServerInv, Missed
<1>11. CASE Stop(s)
  <2>1. pc'[s] = "down" /\ UNCHANGED <<sha, current, leftover>>
    BY <1>a, <1>11 DEF Stop, Goto
  <2>2. CASE UNCHANGED dir
    <3>1. MarkInv'
      BY <1>0, <2>1, <2>2 DEF MarkInv, Holds
    <3> QED
      BY <2>1, <3>1 DEF ServerInv, Missed
  <2>3. CASE pc[s] = "extract"
    <3>1. MarkInv'
      BY <1>0, <2>1, <2>3 DEF MarkInv, ServerInv, Missed
    <3> QED
      BY <2>1, <3>1 DEF ServerInv, Missed
  <2> QED
    BY <1>11, <2>2, <2>3 DEF Stop
<1> QED
  BY <1>1, <1>2, <1>3, <1>4, <1>5, <1>6, <1>7, <1>8, <1>9, <1>10, <1>11

LEMMA CacheStep == Serial /\ CacheInv /\ [Next]_vars => CacheInv'
<1> SUFFICES ASSUME Serial, CacheInv, [Next]_vars PROVE CacheInv'
  OBVIOUS
<1>1. TypeOK'
  BY TypeStep DEF CacheInv
<1>2. CASE Next
  <2>1. PICK s \in Servers :
           \/ \E v \in Versions : Start(s, v)
           \/ Check(s) \/ Remove(s) \/ Extract(s) \/ Mark(s) \/ Open(s)
           \/ RemoveFails(s) \/ ExtractFails(s) \/ GiveUp(s) \/ MarkFails(s)
           \/ Stop(s)
    BY <1>2 DEF Next
  <2>2. (\A t \in Servers : t = s) /\ GoBack = FALSE
    BY DEF Serial
  <2>3. MarkInv' /\ ServerInv(s)'
    BY <2>1, <2>2, ServerStep
  <2>4. \A t \in Servers : ServerInv(t)'
    BY <2>2, <2>3
  <2> QED
    BY <1>1, <2>3, <2>4 DEF CacheInv
<1>3. CASE UNCHANGED vars
  <2>1. MarkInv' /\ \A s \in Servers : ServerInv(s)'
    BY <1>3 DEF vars, CacheInv, MarkInv, ServerInv, Holds
  <2> QED
    BY <1>1, <2>1 DEF CacheInv
<1> QED
  BY <1>2, <1>3

\* ServedIsComplete: as long as servers run one at a time and the user does not
\* go back to an older binary, a server that extractEmbeddedBundleCached lets
\* start has all files of its bundle, whatever earlier starts left behind when
\* they failed or died between two file operations, and no other file unless
\* an os.RemoveAll failed.
THEOREM SerialServesWholeBundle == Serial => (Spec => []ServedIsComplete)
<1> SUFFICES ASSUME Serial PROVE Spec => []ServedIsComplete
  OBVIOUS
<1>1. Init => CacheInv
  <2> SUFFICES ASSUME Init PROVE CacheInv
    OBVIOUS
  <2>1. TypeOK /\ sha \notin Versions /\ \A s \in Servers : pc[s] = "down"
    BY CacheInit, CacheAssumption DEF Init
  <2> QED
    BY <2>1 DEF CacheInv, MarkInv, ServerInv, Missed
<1>2. CacheInv /\ [Next]_vars => CacheInv'
  BY CacheStep
<1>3. CacheInv => ServedIsComplete
  <2> SUFFICES ASSUME CacheInv, NEW s \in Servers, pc[s] \in {"hit", "ready"}
               PROVE  /\ \A f \in Bundle[ver[s]] : dir[f] = ver[s]
                      /\ ~leftover => Complete(ver[s])
    BY DEF ServedIsComplete
  <2>1. sha = ver[s] /\ ver[s] = current /\ ver[s] \in Versions
    BY DEF CacheInv, ServerInv, TypeOK
  <2>2. Holds(ver[s])
    BY <2>1 DEF CacheInv, MarkInv
  <2> QED
    BY <2>2 DEF Holds, Complete
<1> QED
  BY <1>1, <1>2, <1>3, PTL DEF Spec
=============================================================================
