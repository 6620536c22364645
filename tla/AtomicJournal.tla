--------------------------- MODULE AtomicJournal ---------------------------
(***************************************************************************)
(* What the server relies on when it calls journal.mutate: the journal is  *)
(* a history of updates, each made at most once and on top of all earlier  *)
(* ones, and an update is durable before its caller is told so.  The lock  *)
(* file of the local journal (JournalLock) and the compare-and-swap of the *)
(* hosted one (KvJournal) implement it in different ways.                  *)
(***************************************************************************)
EXTENDS Sequences, Functions

CONSTANT Update

VARIABLES
    content,    \* the updates the durable journal holds, oldest first
    acked       \* the updates whose mutate has returned to its caller

vars == <<content, acked>>

Init == content = <<>> /\ acked = {}

Apply(u) ==
    /\ u \notin Range(content)
    /\ content' = Append(content, u)
    /\ UNCHANGED acked

Acknowledge(u) ==
    /\ u \in Range(content) \ acked
    /\ acked' = acked \cup {u}
    /\ UNCHANGED content

Next == \E u \in Update : Apply(u) \/ Acknowledge(u)

Spec == Init /\ [][Next]_vars
=============================================================================
