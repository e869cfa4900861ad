------------------------------- MODULE Ledger -------------------------------
(***************************************************************************)
(* What the evidence store promises its callers, whatever fails: one chain *)
(* of entries that only grows at its end, and acknowledgements that each   *)
(* stand for one entry of that chain, together with all entries before it. *)
(***************************************************************************)
EXTENDS Sequences, Integers

CONSTANTS Writers, Entries

VARIABLES
    chain,  \* the committed entries
    own,    \* per writer: the chain up to its unacknowledged entry, or <<>>
    acks    \* the chains that were acknowledged to their writers

vars == <<chain, own, acks>>

Init ==
    /\ chain = <<>>
    /\ own = [w \in Writers |-> <<>>]
    /\ acks = {}

\* One entry takes effect, as one step.
Commit(w, e) ==
    /\ chain' = Append(chain, e)
    /\ own' = [own EXCEPT ![w] = chain']
    /\ UNCHANGED acks

\* The writer learns that its entry is in the chain.
Acknowledge(w) ==
    /\ own[w] # <<>>
    /\ acks' = acks \cup {own[w]}
    /\ own' = [own EXCEPT ![w] = <<>>]
    /\ UNCHANGED chain

\* The writer dies before it learns.
Lose(w) ==
    /\ own[w] # <<>>
    /\ own' = [own EXCEPT ![w] = <<>>]
    /\ UNCHANGED <<chain, acks>>

Next ==
    \E w \in Writers :
        (\E e \in Entries : Commit(w, e)) \/ Acknowledge(w) \/ Lose(w)

Spec == Init /\ [][Next]_vars

IsPrefixOf(s, t) == Len(s) <= Len(t) /\ \A i \in 1 .. Len(s) : s[i] = t[i]

\* No acknowledged entry is lost, moved or replaced: every acknowledged chain
\* is a prefix of the committed one, so any two of them agree.
AcksArePrefixes == \A a \in acks : a # <<>> /\ IsPrefixOf(a, chain)

-----------------------------------------------------------------------------
TypeOK ==
    /\ chain \in Seq(Entries)
    /\ own \in [Writers -> Seq(Entries)]
    /\ acks \subseteq Seq(Entries)

\* AcksArePrefixes made inductive: also an entry that is not acknowledged yet
\* is in the chain.
Inv ==
    /\ TypeOK
    /\ AcksArePrefixes
    /\ \A w \in Writers : IsPrefixOf(own[w], chain)
=============================================================================
