--------------------------- MODULE JournalStorage ---------------------------
(***************************************************************************)
(* The storage of the Durable Object behind the journals of one user's     *)
(* consents (credential-store-core.js): a ciphertext is cut into chunks    *)
(* under keys of their own, beside a manifest that counts them; older      *)
(* records are one value.  The object handles one request at a time, and   *)
(* each change is one transaction, so that a failure changes nothing; what *)
(* must hold is that the keys a sequence of requests leaves are those the  *)
(* next one looks for.                                                     *)
(***************************************************************************)
EXTENDS Integers

CONSTANTS
    Binding,      \* consents of the user
    MaxChunks,    \* MAX_JOURNAL_CHUNKS
    MaxRevision   \* bound

VARIABLES
    tokens,      \* consents with a token record
    manifest,    \* the value under the journal's key: "none", "whole" or a count
    chunk,       \* under each chunk key: the revision it is a piece of, or 0
    journal      \* history: the revision and length in chunks last persisted

vars == <<tokens, manifest, chunk, journal>>

Index == 1..MaxChunks
Absent == 0
Whole == -1

Init ==
    /\ tokens \in SUBSET Binding
    /\ manifest \in [Binding -> {Absent, Whole}] /\ chunk = [b \in Binding |-> [i \in Index |-> Absent]]
    /\ \A b \in Binding : manifest[b] = Whole => b \in tokens
    /\ journal = [b \in Binding |-> [revision |-> IF manifest[b] = Whole THEN 1 ELSE 0, length |-> 0]]

\* journalChunkCount: an older record has none.
Count(b) == IF manifest[b] > 0 THEN manifest[b] ELSE 0

\* readStoredJournal: the revisions of the pieces that are put together.
Read(b) == {chunk[b][i] : i \in 1..Count(b)}

\* Mutant: chunks the shorter record no longer needs are left.
PiecesLeft(b, n) ==
    [i \in Index |-> IF i <= n THEN journal[b].revision + 1 ELSE chunk[b][i]]

\* The chunks of a record of length n, and none of a longer one before it.
Pieces(b, n) ==
    [i \in Index |-> IF i <= n THEN journal[b].revision + 1
                     ELSE IF i <= Count(b) THEN Absent ELSE chunk[b][i]]

\* /journal/persist; a record that needs more chunks is refused.
Persist(b, n) ==
    /\ b \in tokens /\ n <= MaxChunks /\ journal[b].revision < MaxRevision
    /\ chunk' = [chunk EXCEPT ![b] = Pieces(b, n)]
    /\ manifest' = [manifest EXCEPT ![b] = n]
    /\ journal' = [journal EXCEPT ![b] = [revision |-> @.revision + 1, length |-> n]]
    /\ UNCHANGED tokens

Without(b) == [i \in Index |-> IF i <= Count(b) THEN Absent ELSE chunk[b][i]]

RemoveRecord(b) ==
    /\ b \in tokens /\ tokens' = tokens \ {b}
    /\ chunk' = [chunk EXCEPT ![b] = Without(b)]
    /\ manifest' = [manifest EXCEPT ![b] = Absent]
    /\ journal' = [journal EXCEPT ![b] = [revision |-> 0, length |-> 0]]

DeleteEverything ==
    /\ tokens # {} /\ tokens' = {}
    /\ manifest' = [b \in Binding |-> Absent]
    /\ chunk' = [b \in Binding |-> [i \in Index |-> Absent]]
    /\ journal' = [b \in Binding |-> [revision |-> 0, length |-> 0]]

CreateRecord(b) ==
    /\ b \notin tokens /\ tokens' = tokens \cup {b}
    /\ UNCHANGED <<manifest, chunk, journal>>

Next ==
    \/ \E b \in Binding : CreateRecord(b) \/ RemoveRecord(b) \/ \E n \in 1..(MaxChunks + 1) : Persist(b, n)
    \/ DeleteEverything

Spec == Init /\ [][Next]_vars

-----------------------------------------------------------------------------
(* Properties.                                                             *)

\* What is read back is what was persisted last, whole and unmixed, however
\* the journal grew and shrank before; and of a consent that is removed no
\* key remains (docs/privacy.md:51).
StorageHolds ==
    \A b \in Binding :
        /\ manifest[b] # Whole =>
               /\ Count(b) = journal[b].length
               /\ Read(b) \subseteq {journal[b].revision}
        /\ \A i \in Index : chunk[b][i] # Absent => b \in tokens /\ i <= Count(b)
=============================================================================
