--------------------------- MODULE EvidenceRecords ---------------------------
(***************************************************************************)
(* Evidence records, their hashes and the files of lines that hold them    *)
(* (types.go, hash.go and io.go of pkg/evidence), for the segmented and    *)
(* for the legacy store.                                                   *)
(*                                                                         *)
(* A SHA-256 value is represented by its pre-image, the sequence of hashed *)
(* payloads from the chain head on, so equal hashes mean equal histories.  *)
(***************************************************************************)
EXTENDS Integers, Sequences, FiniteSets

CONSTANTS
    Bodies,                  \* what a caller asks to record
    NoBody, NoPolicy, Torn,  \* "absent" values
    MaxLine                  \* longest line that a bufio.Scanner reads: 64 KB

ASSUME BodiesAssumption ==
    /\ NoBody \notin Bodies
    /\ MaxLine \in Nat
    /\ \A b \in Bodies : b.bytes \in Nat \ {0}

-----------------------------------------------------------------------------
(* Records and hashes: types.go, hash.go                                   *)

NoHash == <<>>

\* The fields ComputeHash copies into the canonical record; b.unhashed
\* stands for the five it leaves out (bundle_revision, input_hash, ...).
Canonical(b) == <<b.event, b.policyRef>>

HashVal == Seq({Canonical(b) : b \in Bodies})

ComputeHash(b, prev) == Append(prev, Canonical(b))

Record == [body : Bodies, prev : HashVal, hash : HashVal]

NewRecord(b, prev) ==
    [body |-> b, prev |-> prev, hash |-> ComputeHash(b, prev)]

\* The record local of a caller that has not built one.
NoRecord == [body |-> NoBody, prev |-> NoHash, hash |-> NoHash]

PolicyVal == {b.policyRef : b \in Bodies} \cup {NoPolicy}

-----------------------------------------------------------------------------
(* Log files: io.go                                                        *)

Line == Record \cup {Torn}

ASSUME TornAssumption == Torn \notin Record

\* A record that no reader gets past: scanner.Scan stops at it with an error.
\* Nothing limits what Append writes.
TooLong(l) == l # Torn /\ l.body.bytes > MaxLine

\* open: the last line lacks its newline.
File == [exists : BOOLEAN, lines : Seq(Line), bytes : Nat, open : BOOLEAN]

NoFile == [exists |-> FALSE, lines |-> <<>>, bytes |-> 0, open |-> FALSE]
EmptyFile == [exists |-> TRUE, lines |-> <<>>, bytes |-> 0, open |-> FALSE]

\* Mutant of LinesWith: the file is opened with O_TRUNC.
LinesTruncated(f, l) == <<l>>

\* A write appends after the last byte: onto an unterminated line it makes
\* one line of both, which is not JSON.
LinesWith(f, l) ==
    IF f.open THEN [f.lines EXCEPT ![Len(f.lines)] = Torn]
              ELSE Append(f.lines, l)

\* appendRecordLine (O_CREATE|O_APPEND) with a complete write.
AppendLine(f, r) ==
    [exists |-> TRUE, lines |-> LinesWith(f, r),
     bytes |-> f.bytes + r.body.bytes, open |-> FALSE]

\* The same with a write cut off after n bytes: all but the newline still
\* parses, anything shorter does not.
PartialLine(f, r, n) ==
    [exists |-> TRUE,
     lines |-> LinesWith(f, IF n = r.body.bytes - 1 THEN r ELSE Torn),
     bytes |-> f.bytes + n, open |-> TRUE]
=============================================================================
