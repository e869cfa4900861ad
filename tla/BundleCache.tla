----------------------------- MODULE BundleCache -----------------------------
(***************************************************************************)
(* The policy bundle that evidra-mcp carries in its binary and extracts to *)
(* ~/.evidra/bundles/ops-v0.1 when it starts: extractEmbeddedBundleCached  *)
(* of cmd/evidra-mcp.  The directory is shared by all servers of a user,   *)
(* of whatever version, without a lock; a running server reads the policy  *)
(* from it at every evaluation.                                            *)
(***************************************************************************)
EXTENDS Integers, FiniteSets

CONSTANTS
    Servers,   \* evidra-mcp processes that may run at the same time
    Versions,  \* versions of the binary, as numbers
    Paths,     \* bundle files
    Bundle,    \* per version: the files of its bundle
    GoBack,    \* whether a server older than an earlier one may be started
    Absent, Partial

ASSUME CacheAssumption ==
    /\ Versions \subseteq Nat
    /\ Bundle \in [Versions -> SUBSET Paths]
    /\ GoBack \in BOOLEAN
    /\ Absent \notin Versions /\ Partial \notin Versions

VARIABLES
    dir,   \* per path: Absent, or the version its content is from, or Partial
    sha,   \* BUNDLE.SHA256, in the same way
    pc, ver,  \* per server: control, version
    todo,     \* per server: files still to be written
    current,  \* the version that was started last
    leftover  \* a removal ever failed (history variable)

vars == <<dir, sha, pc, ver, todo, current, leftover>>

Content == Versions \cup {Absent, Partial}

\* The directory is the bundle of version v, without any other file.
Complete(v) ==
    \A f \in Paths : dir[f] = IF f \in Bundle[v] THEN v ELSE Absent

Init ==
    /\ dir = [f \in Paths |-> Absent]
    /\ sha = Absent
    /\ pc = [s \in Servers |-> "down"]
    /\ ver \in [Servers -> Versions]
    /\ todo = [s \in Servers |-> {}]
    /\ current = 0
    /\ leftover = FALSE

Goto(s, l) == pc' = [pc EXCEPT ![s] = l]

\* A server is started: of the newest version so far or of a newer one, unless
\* the user also goes back to an older binary.
Start(s, v) ==
    /\ pc[s] = "down"
    /\ GoBack \/ v >= current
    /\ current' = v
    /\ ver' = [ver EXCEPT ![s] = v]
    /\ Goto(s, "check")
    /\ UNCHANGED <<dir, sha, todo, leftover>>

\* Mutant of Check: the hash in the cache is taken for the server's own.
CheckAdopts(s) ==
    /\ pc[s] = "check"
    /\ ver' = [ver EXCEPT ![s] = sha]
    /\ Goto(s, "hit")
    /\ UNCHANGED <<dir, sha, todo, current, leftover>>

\* BUNDLE.SHA256 holds the hash of the embedded bundle: a cache hit.
Check(s) ==
    /\ pc[s] = "check"
    /\ Goto(s, IF sha = ver[s] THEN "hit" ELSE "remove")
    /\ UNCHANGED <<dir, sha, ver, todo, current, leftover>>

Empty == sha = Absent /\ \A f \in Paths : dir[f] = Absent

\* One unlink of os.RemoveAll, in no particular order.
RemoveEntry ==
    \/ /\ sha # Absent /\ sha' = Absent
       /\ UNCHANGED dir
    \/ /\ \E f \in Paths : dir[f] # Absent /\ dir' = [dir EXCEPT ![f] = Absent]
       /\ UNCHANGED sha

\* Mutant of Remove: BUNDLE.SHA256 is written before the bundle's files.
RemoveThenMark(s) ==
    /\ pc[s] = "remove"
    /\ \/ RemoveEntry /\ UNCHANGED <<pc, todo>>
       \/ /\ Empty
          /\ sha' = ver[s]
          /\ todo' = [todo EXCEPT ![s] = Bundle[ver[s]]]
          /\ Goto(s, "extract")
          /\ UNCHANGED dir
    /\ UNCHANGED <<ver, current, leftover>>

\* A miss: os.RemoveAll of the directory, then extractEmbeddedBundle begins.
Remove(s) ==
    /\ pc[s] = "remove"
    /\ \/ RemoveEntry /\ UNCHANGED <<pc, todo>>
       \/ /\ Empty
          /\ todo' = [todo EXCEPT ![s] = Bundle[ver[s]]]
          /\ Goto(s, "extract")
          /\ UNCHANGED <<dir, sha>>
    /\ UNCHANGED <<ver, current, leftover>>

\* ... or stops with an error, which is ignored.
RemoveFails(s) ==
    /\ pc[s] = "remove" /\ ~Empty
    /\ leftover' = TRUE
    /\ todo' = [todo EXCEPT ![s] = Bundle[ver[s]]]
    /\ Goto(s, "extract")
    /\ UNCHANGED <<dir, sha, ver, current>>

\* os.WriteFile of one file of the bundle.
Extract(s) ==
    /\ pc[s] = "extract"
    /\ \/ \E f \in todo[s] :
             /\ dir' = [dir EXCEPT ![f] = ver[s]]
             /\ todo' = [todo EXCEPT ![s] = @ \ {f}]
             /\ UNCHANGED pc
       \/ todo[s] = {} /\ Goto(s, "mark") /\ UNCHANGED <<dir, todo>>
    /\ UNCHANGED <<sha, ver, current, leftover>>

\* BUNDLE.SHA256 is written last.
Mark(s) ==
    /\ pc[s] = "mark"
    /\ sha' = ver[s]
    /\ Goto(s, "ready")
    /\ UNCHANGED <<dir, ver, todo, current, leftover>>

\* NewBundleSource at the end of a hit.
Open(s) ==
    /\ pc[s] = "hit"
    /\ Goto(s, "ready")
    /\ UNCHANGED <<dir, sha, ver, todo, current, leftover>>

\* A file's write fails (disk full; or somebody else removed its directory,
\* and nothing is left): the extraction gives up.
ExtractFails(s) ==
    /\ pc[s] = "extract"
    /\ \E f \in todo[s] : \/ dir' = [dir EXCEPT ![f] = Partial]
                          \/ UNCHANGED dir
    /\ Goto(s, "giveup")
    /\ UNCHANGED <<sha, ver, todo, current, leftover>>

\* ... with another os.RemoveAll, whose errors are ignored, and the exit.
GiveUp(s) ==
    /\ pc[s] = "giveup"
    /\ \/ RemoveEntry /\ UNCHANGED pc
       \/ Goto(s, "down") /\ UNCHANGED <<dir, sha>>
    /\ UNCHANGED <<ver, todo, current, leftover>>

\* The write of BUNDLE.SHA256 fails and leaves part of it; the server exits.
MarkFails(s) ==
    /\ pc[s] = "mark"
    /\ sha' \in {sha, Partial}
    /\ Goto(s, "down")
    /\ UNCHANGED <<dir, ver, todo, current, leftover>>

\* A server stops, or dies at any point of its start.
Stop(s) ==
    /\ pc[s] # "down"
    /\ Goto(s, "down")
    /\ \/ UNCHANGED dir
       \/ /\ pc[s] = "extract"
          /\ \E f \in todo[s] : dir' = [dir EXCEPT ![f] = Partial]
    /\ UNCHANGED <<sha, ver, todo, current, leftover>>

Next ==
    \E s \in Servers :
        \/ \E v \in Versions : Start(s, v)
        \/ Check(s) \/ Remove(s) \/ Extract(s) \/ Mark(s) \/ Open(s)
        \/ RemoveFails(s) \/ ExtractFails(s) \/ GiveUp(s) \/ MarkFails(s)
        \/ Stop(s)

Spec == Init /\ [][Next]_vars

\* The types of the variables.
TypeOK ==
    /\ dir \in [Paths -> Content]
    /\ sha \in Content
    /\ pc \in [Servers -> {"down", "check", "hit", "remove", "extract", "mark",
                           "giveup", "ready"}]
    /\ ver \in [Servers -> Versions]
    /\ todo \in [Servers -> SUBSET Paths]
    /\ current \in Versions \cup {0}
    /\ leftover \in BOOLEAN

\* A server that found the hash of its bundle in the cache, or that extracted
\* its bundle, evaluates all the files it was built with, whatever earlier
\* starts left behind when they failed or died;
\* and no other files, unless a removal failed.
ServedIsComplete ==
    \A s \in Servers : pc[s] \in {"hit", "ready"} =>
        /\ \A f \in Bundle[ver[s]] : dir[f] = ver[s]
        /\ ~leftover => Complete(ver[s])
=============================================================================
