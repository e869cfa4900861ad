--------------------------- MODULE EvidenceTamper ---------------------------
(***************************************************************************)
(* The evidence store with somebody else editing its segment files once,   *)
(* between two calls.  What ValidateChain says afterwards, also when the   *)
(* store's own callers go on appending, fail or crash, is the store's      *)
(* tamper evidence.                                                        *)
(***************************************************************************)
EXTENDS EvidenceStore, SequencesExt

VARIABLE edit  \* the edit that was made, or "none"

tvars == <<vars, edit>>

\* Segment k gets lines ls; the file grows by d bytes.
SetLines(k, ls, d) ==
    files' = [files EXCEPT ![k].lines = ls, ![k].bytes = @ + d]

SetLine(q, l) ==
    SetLines(q[1], [files[q[1]].lines EXCEPT ![q[2]] = l],
             l.body.bytes - LineAt(files, q).body.bytes)

\* Another value in a field that ComputeHash covers; hash and prev stay.
EditHashed(q) ==
    /\ edit' = "hashed"
    /\ \E b \in Bodies :
          /\ Canonical(b) # Canonical(LineAt(files, q).body)
          /\ SetLine(q, [LineAt(files, q) EXCEPT !.body = b])

\* The same, with the record's own hash brought up to date.
EditRehashed(q) ==
    /\ edit' = "rehashed"
    /\ \E b \in Bodies :
          /\ Canonical(b) # Canonical(LineAt(files, q).body)
          /\ SetLine(q, NewRecord(b, LineAt(files, q).prev))

\* Another value in a field that ComputeHash does not cover.
EditUnhashed(q) ==
    /\ edit' = "unhashed"
    /\ \E b \in Bodies :
          /\ b.unhashed # LineAt(files, q).body.unhashed
          /\ Canonical(b) = Canonical(LineAt(files, q).body)
          /\ SetLine(q, [LineAt(files, q) EXCEPT !.body = b])

DeleteLine(q) ==
    /\ edit' = "delete"
    /\ SetLines(q[1], RemoveAt(files[q[1]].lines, q[2]),
                -LineAt(files, q).body.bytes)

DuplicateLine(q) ==
    /\ edit' = "duplicate"
    /\ SetLines(q[1], InsertAt(files[q[1]].lines, q[2], LineAt(files, q)),
                LineAt(files, q).body.bytes)

SwapLines(q) ==
    /\ edit' = "swap"
    /\ q[2] < Len(files[q[1]].lines)
    /\ SetLines(q[1], [files[q[1]].lines EXCEPT
                          ![q[2]] = files[q[1]].lines[q[2] + 1],
                          ![q[2] + 1] = files[q[1]].lines[q[2]]], 0)

\* The segment file that holds the record is removed.
DeleteSegment(q) ==
    /\ edit' = "segment"
    /\ files' = [files EXCEPT ![q[1]] = NoFile]

\* The store is whole when it is edited: taking out the line that a writer
\* cut off left behind mends a store and is no tampering.
Tamper ==
    /\ lock = NoProc
    /\ edit = "none"
    /\ ~damaged
    /\ \E q \in Positions(files) :
           \/ EditHashed(q) \/ EditRehashed(q) \/ EditUnhashed(q)
           \/ DeleteLine(q) \/ DuplicateLine(q) \/ SwapLines(q)
           \/ DeleteSegment(q)
    /\ UNCHANGED <<lock, manifest, pc, op, body, man, rec, res, ghost,
                   appends, faults>>

TamperInit == Init /\ edit = "none"

TamperNext == (Next /\ UNCHANGED edit) \/ Tamper

TamperSpec == TamperInit /\ [][TamperNext]_tvars

\* Changing a hashed field of any record (also with its own hash recomputed),
\* deleting, repeating or moving a record, or deleting its segment, makes
\* ValidateChain reject the store: at once, and whatever its callers append
\* afterwards and wherever they crash.
TamperDetected ==
    lock = NoProc /\ edit \notin {"none", "unhashed"}
        => ~ChainValid(files, manifest)
=============================================================================
