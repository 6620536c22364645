----------------------------- MODULE KvJournal -----------------------------
(***************************************************************************)
(* The hosted operation journal: createKvJournal (worker/src/ynab-oauth.js)*)
(* talks to the credential Durable Object (credential-store-core.js),      *)
(* which handles one request at a time and replaces the stored entries     *)
(* only if the caller has read the revision it holds.  A client is an MCP  *)
(* session; its own calls of mutate are serialised, those of different     *)
(* sessions are not.  Any request may fail, or be lost, or reach the       *)
(* object after its sender has given it up.                                *)
(***************************************************************************)
EXTENDS Integers, Sequences, Functions

CONSTANTS
    Client,         \* MCP sessions of one consent
    MaxAttempts,    \* attempts of one mutate (5 in the code)
    MaxUpdates,     \* bound on the updates of one client
    MaxFaults       \* bound on failed or lost requests

ASSUME KvBoundAssumption ==
    /\ {MaxAttempts, MaxUpdates, MaxFaults} \subseteq Nat
    /\ MaxAttempts > 0

VARIABLES
    store,      \* what the object holds: a revision and the entries
    late,       \* persist requests given up by their senders
    pc,         \* where each client is
    attempt,    \* the attempts its mutate has used up
    copy,       \* what it has read
    started,    \* the updates each client has begun
    acked,      \* updates whose mutate has returned to its caller
    faults,
    base        \* history: the revision when the client's mutate began

vars == <<store, late, pc, attempt, copy, started, acked, faults, base>>

Update == Client \X (1..MaxUpdates)
Current(c) == <<c, started[c]>>

Version == [revision : Nat, entries : Seq(Update)]
Request == [expected : Nat, entries : Seq(Update), update : Update]

TypeOK ==
    /\ store \in Version
    /\ late \subseteq Request
    /\ pc \in [Client -> {"idle", "read", "persist", "reply"}]
    /\ attempt \in [Client -> 0..MaxAttempts]
    /\ copy \in [Client -> Version]
    /\ started \in [Client -> 0..MaxUpdates]
    /\ acked \subseteq Update
    /\ faults \in 0..MaxFaults
    /\ base \in [Client -> Nat]

Empty == [revision |-> 0, entries |-> <<>>]

Init ==
    /\ store = Empty
    /\ late = {}
    /\ pc = [c \in Client |-> "idle"]
    /\ attempt = [c \in Client |-> 0]
    /\ copy = [c \in Client |-> Empty]
    /\ started = [c \in Client |-> 0]
    /\ acked = {}
    /\ faults = 0
    /\ base = [c \in Client |-> 0]

Step(c, from, to) == pc[c] = from /\ pc' = [pc EXCEPT ![c] = to]
Fault == faults < MaxFaults /\ faults' = faults + 1

\* mutate(transform) is called.
Call(c) ==
    /\ started[c] < MaxUpdates
    /\ Step(c, "idle", "read")
    /\ started' = [started EXCEPT ![c] = @ + 1]
    /\ attempt' = [attempt EXCEPT ![c] = 0]
    /\ base' = [base EXCEPT ![c] = store.revision]
    /\ UNCHANGED <<store, late, copy, acked, faults>>

\* readVersioned(), then transform edits the copy.
ReadVersioned(c) ==
    /\ Step(c, "read", "persist")
    /\ copy' = [copy EXCEPT ![c] = store]
    /\ UNCHANGED <<store, late, attempt, started, acked, faults, base>>

RequestOf(c) ==
    [expected |-> copy[c].revision, update |-> Current(c),
     entries |-> Append(copy[c].entries, Current(c))]

\* Mutant: the object does not compare the revision.
AnyRevision(q) == TRUE

\* POST /journal/persist: the object compares, then replaces in a transaction.
Accepts(q) == q.expected = store.revision
Replace(q) == store' = [revision |-> store.revision + 1, entries |-> q.entries]

PersistVersioned(c) ==
    /\ Accepts(RequestOf(c)) /\ Replace(RequestOf(c))
    /\ Step(c, "persist", "reply")
    /\ UNCHANGED <<late, attempt, copy, started, acked, faults, base>>

\* The object answers 409: read again, or "changed concurrently".
PersistConflict(c) ==
    /\ ~Accepts(RequestOf(c))
    /\ attempt' = [attempt EXCEPT ![c] = @ + 1]
    /\ Step(c, "persist", IF attempt'[c] < MaxAttempts THEN "read" ELSE "idle")
    /\ UNCHANGED <<store, late, copy, started, acked, faults, base>>

\* No answer: mutate throws; the request may still reach the object.
PersistLost(c) ==
    /\ Fault
    /\ Step(c, "persist", "idle")
    /\ late' = late \cup {RequestOf(c)}
    /\ UNCHANGED <<store, attempt, copy, started, acked, base>>

\* A failed read, an object that cannot be reached, a client that is gone:
\* the caller of mutate does not learn of a result.
Fail(c) ==
    /\ Fault
    /\ pc[c] # "idle" /\ Step(c, pc[c], "idle")
    /\ UNCHANGED <<store, late, attempt, copy, started, acked, base>>

Reply(c) ==
    /\ Step(c, "reply", "idle")
    /\ acked' = acked \cup {Current(c)}
    /\ UNCHANGED <<store, late, attempt, copy, started, faults, base>>

\* A request its sender has given up reaches the object.
LatePersist(q) ==
    /\ late' = late \ {q}
    /\ IF Accepts(q) THEN Replace(q) ELSE UNCHANGED store
    /\ UNCHANGED <<pc, attempt, copy, started, acked, faults, base>>

Next ==
    \/ \E c \in Client :
        \/ Call(c) \/ ReadVersioned(c) \/ PersistVersioned(c)
        \/ PersistConflict(c) \/ PersistLost(c) \/ Fail(c) \/ Reply(c)
    \/ \E q \in late : LatePersist(q)

Spec == Init /\ [][Next]_vars

-----------------------------------------------------------------------------
(* Properties.                                                             *)

\* "retry the journal state update" is asked of a caller only if so many other
\* updates were made meanwhile: each 409 is the work of somebody else.
OvertakenOnly ==
    \A c \in Client : attempt[c] <= store.revision - base[c]

Atomic == INSTANCE AtomicJournal WITH content <- store.entries

\* Whatever interleaves, fails, is lost or comes late: no update is lost, made
\* twice or acknowledged before it is durable.
IsAtomic == Atomic!Spec

=============================================================================
