---------------------------- MODULE StoreReaders ----------------------------
(***************************************************************************)
(* A reader of the evidence store while its writers go on: evidra evidence *)
(* verify, violations, export and cursor ack, and get_event of the MCP     *)
(* server.  The commands validate the chain first and then read on in      *)
(* further critical sections, get_event reads on in the same; export       *)
(* copies the files without the lock.                                      *)
(*                                                                         *)
(* A critical section of the reader is one step: nobody writes in it, and  *)
(* all a writer can see of it is that it gets the lock later, or busy.     *)
(***************************************************************************)
EXTENDS EvidenceStore

CONSTANT Jobs  \* commands the reader runs

ASSUME JobsAssumption ==
    Jobs \subseteq {"verify", "violations", "violations_since", "export", "ack",
                    "get_event"}

VARIABLES
    rpc, job,  \* the reader's control and command
    event,     \* event_id of get_event
    known,     \* a record of it was acknowledged before (history variable)
    at,        \* --segment and --line of cursor ack, as a position
    seen,      \* the chain that the command validated (history variable)
    meta,      \* Metadata: records and last hash
    hash,      \* the resolved record's hash
    scanned,   \* records_scanned of violations
    pack,      \* manifest.json and segment files in the audit pack
    todo,      \* segments still to be copied
    cursor     \* forwarder_state.json: cursor and last_ack_hash

query == <<job, event, known, at>>
local == <<rpc, query, seen, meta, hash, scanned, pack, todo>>
rvars == <<local, cursor>>
allvars == <<vars, rvars>>

NoCursor == [at |-> <<0, 0>>, hash |-> NoHash]

\* The locals of a command before it reads anything.
Unread ==
    /\ seen' = NoHash
    /\ meta' = [records |-> 0, lastHash |-> NoHash]
    /\ hash' = NoHash
    /\ scanned' = 0
    /\ pack' = [manifest |-> NoManifest, files |-> [k \in SegIdx |-> NoFile]]
    /\ todo' = {}

\* A command that starts.
Cleared(r, j, q) ==
    /\ rpc' = r /\ job' = j /\ at' = q
    /\ event' = NoBody /\ known' = FALSE
    /\ Unread

ReadersInit ==
    /\ Init
    /\ rpc = "idle" /\ job = "verify" /\ at = <<0, 0>>
    /\ event = NoBody /\ known = FALSE
    /\ seen = NoHash
    /\ meta = [records |-> 0, lastHash |-> NoHash]
    /\ hash = NoHash
    /\ scanned = 0
    /\ pack = [manifest |-> NoManifest, files |-> [k \in SegIdx |-> NoFile]]
    /\ todo = {}
    /\ cursor = NoCursor

\* Lines that cursor ack may be asked for: any, also one that is not there.
Asked == SegIdx \X (1 .. MaxAppends)

Start(j, q) ==
    /\ rpc \in {"idle", "done"}
    /\ j # "get_event"
    /\ j = "ack" <=> q \in Asked
    /\ Cleared("validate", j, q)
    /\ UNCHANGED <<vars, cursor>>

\* GetEvent, or the resource evidra://event/<id>.
StartGetEvent(e) ==
    /\ rpc \in {"idle", "done"} /\ "get_event" \in Jobs
    /\ rpc' = "find" /\ job' = "get_event" /\ at' = <<0, 0>>
    /\ event' = e
    /\ known' = \E r \in acked : r.body.event = e
    /\ Unread
    /\ UNCHANGED <<vars, cursor>>

\* The command ends with an error; its locals are gone.
Abort ==
    /\ Cleared("idle", job, <<0, 0>>)
    /\ UNCHANGED <<vars, cursor>>

\* The next critical section of the command finds the lock held for too long.
Locked ==
    {"validate", "find", "meta", "scan", "load", "list", "resolve", "save"}

ReaderBusy == rpc \in Locked /\ lock # NoProc /\ Abort

\* ValidateChainAtPath
CheckChain ==
    /\ rpc = "validate" /\ lock = NoProc
    /\ \/ /\ ChainValid(files, manifest)
          /\ seen' = CommittedChain
          /\ rpc' = IF job = "ack" THEN "resolve" ELSE "meta"
          /\ UNCHANGED <<vars, query, meta, hash, scanned, pack, todo, cursor>>
       \/ ~ChainValid(files, manifest) /\ Abort

\* evidra evidence violations, without and with --since.
Violations == {"violations", "violations_since"}

\* streamSegmentedRecords gets to the last record.
Streams(fs) == NamesOrdered(fs) /\ LinesParse(fs) /\ LinesFit(fs)

\* MetadataAtPath: the manifest's own numbers.
ReadMeta ==
    /\ rpc = "meta" /\ lock = NoProc
    /\ meta' = [records |-> manifest.total, lastHash |-> manifest.lastHash]
    /\ rpc' = CASE job = "verify" -> "done"
                [] job \in Violations -> "scan"
                [] job = "export" -> "load"
    /\ UNCHANGED <<vars, query, seen, hash, scanned, pack, todo, cursor>>

\* ForEachRecordAtPath of violations.  With --since, records before the cutoff
\* are passed over; the callers set the time stamps before they get the lock,
\* so those may be any records.
ScanRecords ==
    /\ rpc = "scan" /\ lock = NoProc
    /\ \/ /\ Streams(files)
          /\ scanned' \in IF job = "violations_since"
                          THEN 0 .. Cardinality(Positions(files))
                          ELSE {Cardinality(Positions(files))}
          /\ rpc' = "done"
          /\ UNCHANGED <<vars, query, seen, meta, hash, pack, todo, cursor>>
       \/ ~Streams(files) /\ Abort

\* LoadManifest of export, for the pack's evidence_store_manifest_last_hash.
LoadStoreManifest ==
    /\ rpc = "load" /\ lock = NoProc
    /\ hash' = manifest.lastHash
    /\ rpc' = "copy_manifest"
    /\ UNCHANGED <<vars, query, seen, meta, scanned, pack, todo, cursor>>

\* addFileToTar(manifest.json), without the lock; the rename keeps it whole.
CopyManifest ==
    /\ rpc = "copy_manifest"
    /\ pack' = [pack EXCEPT !.manifest = manifest]
    /\ rpc' = "list"
    /\ UNCHANGED <<vars, query, seen, meta, hash, scanned, todo, cursor>>

\* Mutant of ListSegments: only the sealed segments are exported.
ListSealed ==
    /\ rpc = "list" /\ lock = NoProc
    /\ todo' = manifest.sealed
    /\ rpc' = IF todo' = {} THEN "done" ELSE "copy"
    /\ UNCHANGED <<vars, query, seen, meta, hash, scanned, pack, cursor>>

\* SegmentFiles
ListSegments ==
    /\ rpc = "list" /\ lock = NoProc
    /\ \/ /\ NamesOrdered(files)
          /\ todo' = {k \in SegIdx : files[k].exists}
          /\ rpc' = "copy"
          /\ UNCHANGED <<vars, query, seen, meta, hash, scanned, pack, cursor>>
       \/ ~NamesOrdered(files) /\ Abort

\* addFileToTar of the next segment, without the lock.  When a writer appends
\* between its Stat and its Copy, the tar writer refuses the longer file.
CopySegment ==
    /\ rpc = "copy"
    /\ \/ \E k \in todo :
             /\ \A j \in todo : k <= j
             /\ pack' = [pack EXCEPT !.files[k] = files[k]]
             /\ todo' = todo \ {k}
             /\ rpc' = IF todo = {k} THEN "done" ELSE "copy"
             /\ UNCHANGED <<vars, query, seen, meta, hash, scanned, cursor>>
       \/ lock # NoProc /\ Abort

\* streamFileRecords reaches line q[2] of an existing segment.
Resolvable(fs, q) ==
    /\ fs[q[1]].exists
    /\ q[2] <= Len(fs[q[1]].lines)
    /\ \A i \in 1 .. q[2] :
          fs[q[1]].lines[i] # Torn /\ ~TooLong(fs[q[1]].lines[i])

\* Mutant of ResolveCursorRecord: the line is counted from 1.
ResolvePrevious ==
    /\ rpc = "resolve" /\ lock = NoProc
    /\ Resolvable(files, at)
    /\ hash' = files[at[1]].lines[IF at[2] = 1 THEN 1 ELSE at[2] - 1].hash
    /\ rpc' = "save"
    /\ UNCHANGED <<vars, query, seen, meta, scanned, pack, todo, cursor>>

\* ResolveCursorRecord (the code counts lines from 0).
ResolveCursorRecord ==
    /\ rpc = "resolve" /\ lock = NoProc
    /\ \/ /\ Resolvable(files, at)
          /\ hash' = LineAt(files, at).hash
          /\ rpc' = "save"
          /\ UNCHANGED <<vars, query, seen, meta, scanned, pack, todo, cursor>>
       \/ ~Resolvable(files, at) /\ Abort

\* SaveForwarderState: temporary file and rename.
SaveForwarderState ==
    /\ rpc = "save" /\ lock = NoProc
    /\ cursor' = [at |-> at, hash |-> hash]
    /\ rpc' = "done"
    /\ UNCHANGED <<vars, query, seen, meta, hash, scanned, pack, todo>>

\* The records of the event e, in the segments K.
EventLines(K, e) ==
    {q \in Positions(files) :
        /\ q[1] \in K
        /\ LineAt(files, q) # Torn
        /\ LineAt(files, q).body.event = e}

\* The first of them ends the search; NoHash when there is none.
FirstMatch(Q) ==
    IF Q = {} THEN NoHash
    ELSE LineAt(files, CHOOSE q \in Q : \A r \in Q : q = r \/ Before(q, r)).hash

\* Mutant of FindByEventID: only the current segment is searched.
FindInCurrent ==
    /\ rpc = "find" /\ lock = NoProc
    /\ ChainValid(files, manifest)
    /\ hash' = FirstMatch(EventLines({manifest.current}, event))
    /\ rpc' = "done"
    /\ UNCHANGED <<vars, query, seen, meta, scanned, pack, todo, cursor>>

\* FindByEventID: validation and search in one critical section.
FindByEventID ==
    /\ rpc = "find" /\ lock = NoProc
    /\ \/ /\ ChainValid(files, manifest)
          /\ hash' = FirstMatch(EventLines(SegIdx, event))
          /\ rpc' = "done"
          /\ UNCHANGED <<vars, query, seen, meta, scanned, pack, todo,
                         cursor>>
       \/ ~ChainValid(files, manifest) /\ Abort

Reader ==
    \/ \E j \in Jobs, q \in Asked \cup {<<0, 0>>} : Start(j, q)
    \/ \E b \in Bodies : StartGetEvent(b.event)
    \/ FindByEventID \/ ReaderBusy \/ CheckChain \/ ReadMeta \/ ScanRecords
    \/ LoadStoreManifest \/ CopyManifest \/ ListSegments \/ CopySegment
    \/ ResolveCursorRecord \/ SaveForwarderState

ReadersNext == (Next /\ UNCHANGED rvars) \/ Reader

ReadersSpec == ReadersInit /\ [][ReadersNext]_allvars

-----------------------------------------------------------------------------
(* Properties                                                              *)

Exported == rpc = "done" /\ job = "export"

\* The audit pack holds every record of the chain that export validated, in
\* segment files that writers changed while they were copied.
PackHoldsVerified ==
    Exported =>
        \A i \in 1 .. Len(seen) :
            \E q \in Positions(pack.files) :
                /\ LineAt(pack.files, q) # Torn
                /\ LineAt(pack.files, q).hash = SubSeq(seen, 1, i)

\* The numbers that a command reports never promise more than what it reads
\* afterwards holds: the metadata covers the validated chain, the manifest in
\* the pack covers the metadata, the pack's lines and a scan without --since
\* cover the manifest.
NeverShort ==
    /\ rpc = "done" /\ job \notin {"ack", "get_event"} =>
          L!IsPrefixOf(seen, meta.lastHash) /\ meta.records = Len(meta.lastHash)
    /\ rpc = "done" /\ job = "violations" => meta.records <= scanned
    /\ Exported =>
          /\ L!IsPrefixOf(meta.lastHash, hash)
          /\ L!IsPrefixOf(hash, pack.manifest.lastHash)
          /\ pack.manifest.total <= Cardinality(Positions(pack.files))

\* The forwarder's cursor names the record whose hash it acknowledges, although
\* it was validated, resolved and saved in three critical sections: for ever,
\* unless a write ran into that record's unterminated line; and as long as no
\* writer was cut off, the record is part of the committed chain.
CursorOnChain ==
    cursor # NoCursor =>
        /\ LineAt(files, cursor.at) # Torn =>
              LineAt(files, cursor.at).hash = cursor.hash
        /\ ~damaged => /\ LineAt(files, cursor.at) # Torn
                       /\ L!IsPrefixOf(cursor.hash, CommittedChain)

\* get_event answers not_found for no event whose Append had returned before:
\* the search, with writers and faults around it, finds the record or the chain
\* is reported invalid.  What it finds is that event, and part of the chain.
GetEventFindsAcked ==
    rpc = "done" /\ job = "get_event" =>
        /\ known => hash # NoHash
        /\ hash # NoHash =>
              /\ hash[Len(hash)][1] = event
              /\ L!IsPrefixOf(hash, CommittedChain)
=============================================================================
