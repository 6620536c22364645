---------------------------- MODULE UndoJournal ----------------------------
(***************************************************************************)
(* What the server keeps in the journal and for how long: audit and undo   *)
(* entries of finished writes (appendUndoEntry of index.js), durable       *)
(* operations (lib/write-recovery.mjs), and the undo of an entry by one of *)
(* several sessions (undo_operation).  Each update of the journal is one   *)
(* step here (AtomicJournal) and ends with retainJournalEntries.           *)
(*                                                                         *)
(* New entries go to the front and stay in place, so the position of an    *)
(* entry is its age: the journal is a function on the serial numbers of    *)
(* the entries it still holds, the newest being the greatest.              *)
(***************************************************************************)
EXTENDS Integers, FiniteSets, Functions

CONSTANTS
    Session,        \* server sessions that share the journal
    OpId,           \* operation ids that clients choose
    Limit,          \* entries kept besides unfinished operations (100)
    MaxEntries,     \* bound on the entries ever made
    MaxFaults       \* bound on crashes, lost replies and failed updates

ASSUME UndoBoundAssumption == {Limit, MaxEntries, MaxFaults} \subseteq Nat /\ Limit > 0

VARIABLES
    journal,    \* the entries the journal holds, by serial number
    made,       \* the entries made so far
    pc,         \* where the undo_operation call of each session is
    target,     \* the entry it undoes (0: none yet)
    faults,
    sent,       \* history: undo requests sent for each entry
    applied     \* the undo requests YNAB has applied for each entry

vars == <<journal, made, pc, target, faults, sent, applied>>

No == "none"
Serial == 1..MaxEntries

\* An entry to undo by recreating a transaction or by changing it back, an
\* entry for the record only, or a durable operation.
Reversible == {"recreate", "restore"}
Entry == [kind : Reversible, op : {No}, status : {"open", "submitted", "completed"}]
    \cup [kind : {"audit"}, op : {No}, status : {"open"}]
    \cup [kind : {"operation"}, op : OpId, status : {"unfinished", "completed"}]

Location == {"idle", "claim", "handler", "send", "complete", "audit"}

Holds(i) == i \in DOMAIN journal
HoldsOp(o) == \E i \in DOMAIN journal : journal[i].op = o

TypeOK ==
    /\ made \in 0..MaxEntries
    /\ DOMAIN journal \subseteq Serial
    /\ journal \in [DOMAIN journal -> Entry]
    /\ pc \in [Session -> Location]
    /\ target \in [Session -> 0..MaxEntries]
    /\ faults \in 0..MaxFaults
    /\ sent \in [Serial -> Nat]
    /\ applied \in [Serial -> Nat]

Init ==
    /\ journal = [i \in {} |-> No]
    /\ made = 0
    /\ pc = [s \in Session |-> "idle"]
    /\ target = [s \in Session |-> 0]
    /\ faults = 0
    /\ sent = [i \in Serial |-> 0]
    /\ applied = [i \in Serial |-> 0]

-----------------------------------------------------------------------------
(* The journal.                                                            *)

Unfinished(e) == e.kind = "operation" /\ e.status # "completed"

\* retainJournalEntries: unfinished operations, and the newest of the rest.
Newer(j, i) == {k \in DOMAIN j : k > i /\ ~Unfinished(j[k])}
\* Mutant: history is trimmed whatever it holds.
RetainedAnyhow(j) == {i \in DOMAIN j : Cardinality({k \in DOMAIN j : k > i}) < Limit}
Retained(j) == {i \in DOMAIN j : Unfinished(j[i]) \/ Cardinality(Newer(j, i)) < Limit}

\* journal.mutate: edit, trim, persist.
Save(j) == journal' = Restrict(j, Retained(j))

With(i, e) == [k \in DOMAIN journal \cup {i} |-> IF k = i THEN e ELSE journal[k]]
NewSerial == made + 1

Unshift(e) ==
    /\ made < MaxEntries /\ made' = NewSerial
    /\ Save(With(NewSerial, e))

Amend(i, status) ==
    /\ Save(With(i, [journal[i] EXCEPT !.status = status]))
    /\ UNCHANGED made

Fault == faults < MaxFaults /\ faults' = faults + 1

\* An update fails before it is durable, or its caller does not learn of it.
Fails(update) == Fault /\ (update \/ UNCHANGED <<journal, made>>)

-----------------------------------------------------------------------------
(* Writes and operations.                                                  *)

\* A transaction write has been made and is recorded.
Record(kind) ==
    /\ Unshift([kind |-> kind, op |-> No, status |-> "open"])
    /\ UNCHANGED <<pc, target, faults, sent, applied>>

\* operationRunner.run: an id the journal does not hold starts an operation.
StartOperation(o) ==
    /\ ~HoldsOp(o)
    /\ Unshift([kind |-> "operation", op |-> o, status |-> "unfinished"])
    /\ UNCHANGED <<pc, target, faults, sent, applied>>

FinishOperation(o) ==
    /\ \E i \in DOMAIN journal :
        journal[i].op = o /\ journal[i].status = "unfinished" /\ Amend(i, "completed")
    /\ UNCHANGED <<pc, target, faults, sent, applied>>

-----------------------------------------------------------------------------
(* undo_operation.                                                         *)

Step(s, from, to) == pc[s] = from /\ pc' = [pc EXCEPT ![s] = to]

Undoable(i) == Holds(i) /\ journal[i].kind \in Reversible
Untouched(i) == journal[i].status = "open"

\* A fresh read shows whether a transaction is as the write left it; what was
\* deleted stays deleted when it is recreated under another id.
MatchesAfter(i) == journal[i].kind = "recreate" \/ applied[i] = 0

\* prepareWrite: the entry can be undone and nothing has changed since.
Prepare(s, i) ==
    /\ Undoable(i) /\ Untouched(i) /\ MatchesAfter(i)
    /\ Step(s, "idle", "claim")
    /\ target' = [target EXCEPT ![s] = i]
    /\ UNCHANGED <<journal, made, faults, sent, applied>>

\* Mutant: the claim relies on what prepareWrite has read.
ClaimUnchecked(s) ==
    LET i == target[s] IN
    /\ IF Holds(i)
       THEN \/ Step(s, "claim", "handler") /\ Amend(i, "submitted") /\ UNCHANGED faults
            \/ Step(s, "claim", "idle") /\ Fails(Amend(i, "submitted"))
       ELSE Step(s, "claim", "idle") /\ UNCHANGED <<journal, made, faults>>
    /\ UNCHANGED <<target, sent, applied>>

\* The entry is claimed in the journal, unless it has changed since.
Claim(s) ==
    LET i == target[s] IN
    /\ IF Holds(i) /\ Untouched(i)
       THEN \/ Step(s, "claim", "handler") /\ Amend(i, "submitted") /\ UNCHANGED faults
            \/ Step(s, "claim", "idle") /\ Fails(Amend(i, "submitted"))
       ELSE Step(s, "claim", "idle") /\ UNCHANGED <<journal, made, faults>>
    /\ UNCHANGED <<target, sent, applied>>

\* The handler reads the journal again; the entry may have left it.
Handler(s) ==
    /\ Step(s, "handler", IF Undoable(target[s]) /\ journal[target[s]].status # "completed"
                          THEN "send" ELSE "idle")
    /\ UNCHANGED <<journal, made, target, faults, sent, applied>>

\* The request is applied and answered; or the call throws, and the request
\* has been applied or not.
Send(s) ==
    LET i == target[s] IN
    /\ pc[s] = "send" /\ sent' = [sent EXCEPT ![i] = @ + 1]
    /\ \/ Step(s, "send", "complete") /\ applied' = [applied EXCEPT ![i] = @ + 1]
          /\ UNCHANGED faults
       \/ Step(s, "send", "idle") /\ Fault /\ applied' = [applied EXCEPT ![i] = @ + 1]
       \/ Step(s, "send", "idle") /\ Fault /\ UNCHANGED applied
    /\ UNCHANGED <<journal, made, target>>

\* The entry is marked undone, unless it is gone or is marked already.
Complete(s) ==
    LET i == target[s] IN
    /\ IF Holds(i) /\ journal[i].status # "completed"
       THEN \/ Step(s, "complete", "audit") /\ Amend(i, "completed") /\ UNCHANGED faults
            \/ Step(s, "complete", "idle") /\ Fails(Amend(i, "completed"))
       ELSE Step(s, "complete", "idle") /\ UNCHANGED <<journal, made, faults>>
    /\ UNCHANGED <<target, sent, applied>>

\* The undo itself is recorded; appendUndoEntry reports no failure.
Audit(s) ==
    LET record == Unshift([kind |-> "audit", op |-> No, status |-> "open"]) IN
    /\ Step(s, "audit", "idle")
    /\ \/ record /\ UNCHANGED faults
       \/ Fails(record)
    /\ UNCHANGED <<target, sent, applied>>

Crash(s) ==
    /\ pc[s] # "idle" /\ Step(s, pc[s], "idle") /\ Fault
    /\ UNCHANGED <<journal, made, target, sent, applied>>

Next ==
    \/ \E kind \in Reversible \cup {"audit"} : Record(kind)
    \/ \E o \in OpId : StartOperation(o) \/ FinishOperation(o)
    \/ \E s \in Session :
        \/ \E i \in Serial : Prepare(s, i)
        \/ Claim(s) \/ Handler(s) \/ Send(s) \/ Complete(s) \/ Audit(s) \/ Crash(s)

Spec == Init /\ [][Next]_vars

-----------------------------------------------------------------------------
(* Properties.                                                             *)

\* An undo request is sent at most once for an entry, whatever sessions race,
\* crash or lose replies: a transaction is never recreated twice ("preventing
\* duplicate recreation", docs/write-recovery.md).
UndoneAtMostOnce == \A i \in Serial : sent[i] <= 1

\* An entry that is marked undone has been: a lost reply is no success.
UndoneIsTrue ==
    \A i \in DOMAIN journal :
        journal[i].kind \in Reversible /\ journal[i].status = "completed" => applied[i] = 1

\* An undo that may have been applied stays blocked: an entry goes from open
\* to submitted to completed, or leaves the journal for good.
UncertainIsBlocked ==
    [][\A i \in Serial :
            sent[i] > 0 /\ Holds(i)' => journal'[i].status # "open"]_vars

\* An operation that has started and not completed is in the journal, however
\* much other history is written meanwhile.
UnfinishedIsKept ==
    [][\A i \in DOMAIN journal :
        Unfinished(journal[i]) /\ ~Holds(i)' => FinishOperation(journal[i].op)]_vars

=============================================================================
