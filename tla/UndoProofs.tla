----------------------------- MODULE UndoProofs -----------------------------
(***************************************************************************)
(* Proofs about undo.                                                      *)
(*                                                                         *)
(* UndoJournal: an undo request is sent at most once for an entry, for     *)
(* every number of sessions, entries and faults and every retention limit. *)
(* What is being sent has been claimed, a claim is made once because the   *)
(* entry is no longer open after it, and an entry that has left the        *)
(* journal never returns.                                                  *)
(*                                                                         *)
(* TransactionWrites: an undo brings back what its write replaced, reports *)
(* are true and the user's edits survive, for every set of calls, rows,    *)
(* fields and values.  A call holds what it has read (Replaced, ReadBack,  *)
(* Compared) until somebody else's change is noticed, by the history the   *)
(* properties excuse; so a step disturbs no call but its own (NoticedKeeps) *)
(* and each action is left with its own call.                              *)
(***************************************************************************)
EXTENDS Undo, TLAPS

-----------------------------------------------------------------------------
(* UndoJournal: what an update does to the journal.                        *)

\* Trimming removes entries and changes none.
LEMMA SaveTrims ==
    ASSUME NEW j, Save(j)
    PROVE  /\ DOMAIN journal' \subseteq DOMAIN j
           /\ \A i \in DOMAIN journal' : journal'[i] = j[i]
           /\ journal' = [i \in DOMAIN journal' |-> j[i]]
BY DEF Save, Restrict, Retained

\* Nothing that is not in the journal gets into it but the newest entry.
LEMMA UnshiftEdits ==
    ASSUME TypeOK, NEW e \in Entry, Unshift(e)
    PROVE  /\ made' = made + 1 /\ made' \in Serial
           /\ DOMAIN journal' \subseteq DOMAIN journal \cup {made + 1}
           /\ \A i \in DOMAIN journal' : journal'[i] = IF i = made + 1 THEN e ELSE journal[i]
           /\ DOMAIN journal' \subseteq Serial /\ journal' \in [DOMAIN journal' -> Entry]
<1> DEFINE j == With(NewSerial, e)
<1>1. /\ made < MaxEntries /\ made' = made + 1 /\ Save(j) /\ NewSerial = made + 1
      /\ made \in 0..MaxEntries
    BY DEF Unshift, NewSerial, TypeOK
<1>2. made + 1 \in Serial
    BY <1>1, UndoBoundAssumption DEF Serial
<1>3. /\ DOMAIN j = DOMAIN journal \cup {made + 1}
      /\ \A i \in DOMAIN j : j[i] = IF i = made + 1 THEN e ELSE journal[i]
    BY <1>1 DEF With
<1>4. \A i \in DOMAIN j : j[i] \in Entry
    BY <1>3 DEF TypeOK
<1> HIDE DEF j
<1>5. /\ DOMAIN journal' \subseteq DOMAIN j
      /\ \A i \in DOMAIN journal' : journal'[i] = j[i]
      /\ journal' = [i \in DOMAIN journal' |-> j[i]]
    BY <1>1, SaveTrims
<1>6. journal' \in [DOMAIN journal' -> Entry]
    BY <1>4, <1>5
<1> QED
    BY <1>1, <1>2, <1>3, <1>5, <1>6 DEF TypeOK

\* Amending an entry changes the status of that entry alone.
LEMMA AmendEdits ==
    ASSUME TypeOK, NEW i \in DOMAIN journal, NEW status, Amend(i, status),
           [journal[i] EXCEPT !.status = status] \in Entry
    PROVE  /\ made' = made
           /\ DOMAIN journal' \subseteq DOMAIN journal
           /\ \A k \in DOMAIN journal' \ {i} : journal'[k] = journal[k]
           /\ i \in DOMAIN journal' =>
                 journal'[i].status = status /\ journal'[i].kind = journal[i].kind
           /\ DOMAIN journal' \subseteq Serial /\ journal' \in [DOMAIN journal' -> Entry]
<1> DEFINE e == [journal[i] EXCEPT !.status = status]
           j == With(i, e)
<1>1. made' = made /\ Save(j)
    BY DEF Amend
<1>2. DOMAIN j = DOMAIN journal /\ \A k \in DOMAIN j : j[k] = IF k = i THEN e ELSE journal[k]
    BY DEF With
<1>3. \A k \in DOMAIN j : j[k] \in Entry
    BY <1>2 DEF TypeOK
<1>4. e.status = status /\ e.kind = journal[i].kind
    BY DEF TypeOK, Entry
<1> HIDE DEF j, e
<1>5. /\ DOMAIN journal' \subseteq DOMAIN j
      /\ \A k \in DOMAIN journal' : journal'[k] = j[k]
      /\ journal' = [k \in DOMAIN journal' |-> j[k]]
    BY <1>1, SaveTrims
<1>6. journal' \in [DOMAIN journal' -> Entry]
    BY <1>3, <1>5
<1> QED
    BY <1>1, <1>2, <1>4, <1>5, <1>6 DEF TypeOK

\* The status of a reversible entry can be set to what the undo sets.
LEMMA AmendedIsEntry ==
    ASSUME TypeOK, NEW i \in DOMAIN journal, journal[i].kind \in Reversible,
           NEW status \in {"open", "submitted", "completed"}
    PROVE  [journal[i] EXCEPT !.status = status] \in Entry
<1>1. journal[i] \in Entry
    BY DEF TypeOK
<1>2. journal[i] \in [kind : Reversible, op : {No}, status : {"open", "submitted", "completed"}]
    BY <1>1 DEF Entry, Reversible
<1> QED
    BY <1>2 DEF Entry

\* An unfinished entry is an operation, and can be completed.
LEMMA FinishedIsEntry ==
    ASSUME TypeOK, NEW i \in DOMAIN journal, journal[i].status = "unfinished"
    PROVE  /\ [journal[i] EXCEPT !.status = "completed"] \in Entry
           /\ journal[i].kind = "operation"
<1>1. journal[i] \in Entry
    BY DEF TypeOK
<1>2. journal[i] \in [kind : {"operation"}, op : OpId, status : {"unfinished", "completed"}]
    BY <1>1 DEF Entry, Reversible
<1> QED
    BY <1>2 DEF Entry

-----------------------------------------------------------------------------
(* The inductive invariant.                                                *)

\* Serial numbers that have not been given out are not in the journal, and
\* nothing has been sent for them.
Numbered ==
    /\ \A i \in DOMAIN journal : i <= made
    /\ \A i \in Serial : sent[i] > 0 => i <= made

\* A call of undo_operation is about an entry that can be undone.
Targeted ==
    \A s \in Session : pc[s] # "idle" =>
        /\ target[s] \in Serial /\ target[s] <= made
        /\ Holds(target[s]) => journal[target[s]].kind \in Reversible

\* What is about to be sent has been claimed, by one session, and not sent.
Sending(s) == pc[s] \in {"handler", "send"}
Claimed ==
    /\ \A s \in Session : Sending(s) =>
        /\ sent[target[s]] = 0
        /\ Holds(target[s]) => journal[target[s]].status # "open"
    /\ \A s, t \in Session : Sending(s) /\ Sending(t) /\ target[s] = target[t] => s = t

Blocked == \A i \in DOMAIN journal : sent[i] > 0 => journal[i].status # "open"

Honest ==
    /\ \A i \in Serial : applied[i] <= sent[i]
    /\ \A s \in Session : pc[s] = "complete" => applied[target[s]] = 1

UInv ==
    TypeOK /\ Numbered /\ Targeted /\ Claimed /\ UndoneAtMostOnce /\ Blocked
    /\ Honest /\ UndoneIsTrue

\* The invariant holds of the empty journal.
LEMMA UndoBegins == Init => UInv
<1> SUFFICES ASSUME Init PROVE UInv
    OBVIOUS
<1>1. DOMAIN journal = {} /\ journal \in [DOMAIN journal -> Entry]
    BY DEF Init
<1>2. TypeOK
    BY <1>1, UndoBoundAssumption DEF Init, TypeOK, Location
<1> QED
    BY <1>1, <1>2 DEF Init, UInv, Numbered, Targeted, Claimed, Sending, UndoneAtMostOnce,
        Blocked, Honest, UndoneIsTrue, Serial

\* A step that sends nothing and moves no session towards sending keeps the
\* invariant if it opens no entry and completes only what has been applied.
LEMMA Edited ==
    ASSUME UInv, TypeOK', UNCHANGED <<sent, applied, target>>,
           made' \in {made, made + 1},
           \A i \in DOMAIN journal' :
              \/ /\ i \in DOMAIN journal
                 /\ journal'[i].kind = journal[i].kind
                 /\ journal'[i].status = "open" => journal[i].status = "open"
                 /\ journal'[i].kind \in Reversible /\ journal'[i].status = "completed" =>
                        journal[i].status = "completed" \/ applied[i] = 1
              \/ i = made + 1 /\ made' = made + 1 /\ journal'[i].status # "completed",
           \A s \in Session : Sending(s)' => Sending(s),
           \A s \in Session : pc'[s] = "complete" => pc[s] = "complete",
           \A s \in Session : pc'[s] # "idle" => pc[s] # "idle"
    PROVE  UInv'
<1>1. /\ made \in Nat /\ made <= made'
      /\ sent \in [Serial -> Nat] /\ applied \in [Serial -> Nat]
      /\ DOMAIN journal \subseteq Serial /\ DOMAIN journal' \subseteq Serial
      /\ \A i \in Serial : i \in Nat
    BY UndoBoundAssumption DEF UInv, TypeOK, Serial
<1>2. Numbered'
    BY <1>1 DEF UInv, Numbered
<1>3. Targeted'
    <2>1. ASSUME NEW s \in Session, pc'[s] # "idle"
          PROVE  /\ target[s] \in Serial /\ target[s] <= made'
                 /\ Holds(target[s])' => journal'[target[s]].kind \in Reversible
        <3>1. target[s] \in Serial /\ target[s] <= made /\ target[s] # made + 1
            BY <1>1, <2>1 DEF UInv, Targeted
        <3> QED
            BY <1>1, <2>1, <3>1 DEF UInv, Targeted, Holds
    <2> QED
        BY <2>1 DEF Targeted
<1>4. Claimed'
    <2>1. ASSUME NEW s \in Session, Sending(s)'
          PROVE  /\ sent[target[s]] = 0
                 /\ Holds(target[s])' => journal'[target[s]].status # "open"
        <3>1. target[s] \in Serial /\ target[s] <= made /\ target[s] # made + 1
            BY <1>1, <2>1 DEF UInv, Targeted, Sending
        <3> QED
            BY <2>1, <3>1 DEF UInv, Claimed, Holds
    <2> QED
        BY <2>1 DEF UInv, Claimed
<1>5. Blocked'
    <2>1. ASSUME NEW i \in DOMAIN journal', sent[i] > 0 PROVE journal'[i].status # "open"
        <3>1. i # made + 1
            BY <1>1, <2>1 DEF UInv, Numbered
        <3> QED
            BY <2>1, <3>1 DEF UInv, Blocked
    <2> QED
        BY <2>1 DEF Blocked
<1>6. Honest' /\ UndoneAtMostOnce'
    BY DEF UInv, Honest, UndoneAtMostOnce
<1>7. UndoneIsTrue'
    BY DEF UInv, UndoneIsTrue
<1> QED
    BY <1>2, <1>3, <1>4, <1>5, <1>6, <1>7 DEF UInv

-----------------------------------------------------------------------------
(* The steps.                                                              *)

\* What the updates do, in the terms of Edited; an update may have failed.
EditsOnly ==
    \A i \in DOMAIN journal' :
       \/ /\ i \in DOMAIN journal
          /\ journal'[i].kind = journal[i].kind
          /\ journal'[i].status = "open" => journal[i].status = "open"
          /\ journal'[i].kind \in Reversible /\ journal'[i].status = "completed" =>
                 journal[i].status = "completed" \/ applied[i] = 1
       \/ i = made + 1 /\ made' = made + 1 /\ journal'[i].status # "completed"
JournalTyped ==
    /\ made' \in 0..MaxEntries /\ made' \in {made, made + 1}
    /\ DOMAIN journal' \subseteq Serial
    /\ journal' \in [DOMAIN journal' -> Entry]

\* Recording an entry opens nothing that is there and completes nothing.
LEMMA UnshiftOnly ==
    ASSUME UInv, NEW e \in Entry, e.status # "completed", Unshift(e)
    PROVE  EditsOnly /\ JournalTyped
<1>1. TypeOK
    BY DEF UInv
<1> QED
    BY <1>1, UnshiftEdits DEF EditsOnly, JournalTyped, Serial

\* Claiming an entry or marking it undone opens nothing.
LEMMA AmendOnly ==
    ASSUME UInv, NEW i \in DOMAIN journal, journal[i].kind \in Reversible,
           NEW status \in {"submitted", "completed"}, Amend(i, status),
           status = "completed" => applied[i] = 1
    PROVE  /\ EditsOnly /\ JournalTyped
           /\ i \in DOMAIN journal' => journal'[i].status # "open"
<1>1. TypeOK /\ [journal[i] EXCEPT !.status = status] \in Entry
    BY AmendedIsEntry DEF UInv
<1> QED
    BY <1>1, AmendEdits DEF EditsOnly, JournalTyped, TypeOK

\* Leaving the journal alone opens and completes nothing.
LEMMA NothingEdited ==
    ASSUME UInv, UNCHANGED <<journal, made>>
    PROVE  EditsOnly /\ JournalTyped
BY DEF UInv, TypeOK, EditsOnly, JournalTyped

\* Every step keeps the invariant.
LEMMA UndoStep == UInv /\ [Next]_vars => UInv'
<1> SUFFICES ASSUME UInv, [Next]_vars PROVE UInv'
    OBVIOUS
<1>0. TypeOK
    BY DEF UInv
<1>a. /\ pc \in [Session -> Location] /\ target \in [Session -> 0..MaxEntries]
      /\ faults \in 0..MaxFaults /\ sent \in [Serial -> Nat] /\ applied \in [Serial -> Nat]
      /\ made \in 0..MaxEntries
      /\ DOMAIN journal \subseteq Serial /\ journal \in [DOMAIN journal -> Entry]
    BY <1>0 DEF TypeOK
<1>b. ASSUME NEW p \in {faults, faults + 1}, p = faults \/ faults < MaxFaults
      PROVE  p \in 0..MaxFaults
    BY <1>a, <1>b, UndoBoundAssumption
<1>1. ASSUME NEW kind \in Reversible \cup {"audit"}, Record(kind) PROVE UInv'
    <2> DEFINE e == [kind |-> kind, op |-> No, status |-> "open"]
    <2>1. e \in Entry /\ e.status # "completed"
        BY DEF Entry
    <2>2. EditsOnly /\ JournalTyped
        BY <1>1, <2>1, UnshiftOnly DEF Record
    <2>3. TypeOK'
        BY <1>1, <1>a, <2>2 DEF Record, TypeOK, JournalTyped
    <2> QED
        BY <1>1, <2>2, <2>3, Edited DEF Record, EditsOnly, JournalTyped, Sending
<1>2. ASSUME NEW o \in OpId, StartOperation(o) PROVE UInv'
    <2> DEFINE e == [kind |-> "operation", op |-> o, status |-> "unfinished"]
    <2>1. e \in Entry /\ e.status # "completed"
        BY DEF Entry
    <2>2. EditsOnly /\ JournalTyped
        BY <1>2, <2>1, UnshiftOnly DEF StartOperation
    <2>3. TypeOK'
        BY <1>2, <1>a, <2>2 DEF StartOperation, TypeOK, JournalTyped
    <2> QED
        BY <1>2, <2>2, <2>3, Edited DEF StartOperation, EditsOnly, JournalTyped, Sending
<1>3. ASSUME NEW o \in OpId, FinishOperation(o) PROVE UInv'
    <2>1. PICK i \in DOMAIN journal : journal[i].status = "unfinished" /\ Amend(i, "completed")
        BY <1>3 DEF FinishOperation
    <2>2. /\ [journal[i] EXCEPT !.status = "completed"] \in Entry
          /\ journal[i].kind = "operation"
        BY <1>0, <2>1, FinishedIsEntry
    <2>3. EditsOnly /\ JournalTyped
        BY <1>0, <2>1, <2>2, AmendEdits DEF EditsOnly, JournalTyped, TypeOK, Reversible
    <2>4. TypeOK'
        BY <1>3, <1>a, <2>3 DEF FinishOperation, TypeOK, JournalTyped
    <2> QED
        BY <1>3, <2>3, <2>4, Edited DEF FinishOperation, EditsOnly, JournalTyped, Sending
<1>4. ASSUME NEW s \in Session, NEW i \in Serial, Prepare(s, i) PROVE UInv'
    <2>1. /\ i \in DOMAIN journal /\ journal[i].kind \in Reversible /\ i <= made
          /\ \A t \in Session : pc'[t] = IF t = s THEN "claim" ELSE pc[t]
          /\ \A t \in Session : target'[t] = IF t = s THEN i ELSE target[t]
          /\ UNCHANGED <<journal, made, faults, sent, applied>>
        BY <1>4, <1>a DEF Prepare, Undoable, Holds, Step, UInv, Numbered
    <2>2. TypeOK'
        BY <1>4, <1>a, <2>1 DEF Prepare, Step, TypeOK, Location, Serial
    <2> QED
        BY <2>1, <2>2 DEF UInv, Numbered, Targeted, Claimed, Sending, UndoneAtMostOnce,
            Blocked, Honest, UndoneIsTrue, Holds
<1>5. ASSUME NEW s \in Session, Claim(s) PROVE UInv'
    <2> DEFINE i == target[s]
    <2>1. /\ pc[s] = "claim" /\ i \in Serial /\ i <= made
          /\ Holds(i) => journal[i].kind \in Reversible
        BY <1>5 DEF Claim, Step, UInv, Targeted
    <2>2. UNCHANGED <<target, sent, applied>>
        BY <1>5 DEF Claim
    <2>3. CASE Step(s, "claim", "idle")
        <3>1. EditsOnly /\ JournalTyped
            <4>1. CASE UNCHANGED <<journal, made>>
                BY <4>1, NothingEdited
            <4>2. CASE i \in DOMAIN journal /\ Amend(i, "submitted")
                BY <2>1, <4>2, AmendOnly DEF Holds
            <4> QED
                BY <1>5, <2>3, <4>1, <4>2 DEF Claim, Step, Fails, Holds
        <3>2. faults' \in 0..MaxFaults
            BY <1>5, <1>a, UndoBoundAssumption DEF Claim, Fails, Fault, Step
        <3>3. \A t \in Session : pc'[t] = IF t = s THEN "idle" ELSE pc[t]
            BY <1>a, <2>3 DEF Step
        <3>4. TypeOK'
            BY <1>a, <2>2, <2>3, <3>1, <3>2 DEF TypeOK, JournalTyped, Step, Location
        <3> QED
            BY <2>2, <3>1, <3>3, <3>4, Edited DEF EditsOnly, JournalTyped, Sending
    <2>4. CASE ~Step(s, "claim", "idle")
        <3>1. /\ i \in DOMAIN journal /\ journal[i].status = "open"
              /\ Step(s, "claim", "handler") /\ Amend(i, "submitted") /\ UNCHANGED faults
            BY <1>5, <2>4 DEF Claim, Holds, Untouched
        <3>2. /\ EditsOnly /\ JournalTyped
              /\ i \in DOMAIN journal' => journal'[i].status # "open"
            BY <2>1, <3>1, AmendOnly DEF Holds
        <3>3. \A t \in Session : pc'[t] = IF t = s THEN "handler" ELSE pc[t]
            BY <1>a, <3>1 DEF Step
        <3>4. TypeOK'
            BY <1>a, <2>2, <3>1, <3>2 DEF TypeOK, JournalTyped, Step, Location
        \* Nothing has been sent for an open entry, and nobody else is sending.
        <3>5. sent[i] = 0 /\ \A t \in Session : Sending(t) => target[t] # i
            BY <1>a, <2>1, <3>1 DEF UInv, Blocked, Claimed, Holds
        <3>6. made' \in {made, made + 1} /\ made <= made' /\ made \in Nat
            BY <1>a, <3>2 DEF JournalTyped
        <3>7. \A k \in DOMAIN journal' :
                \/ /\ k \in DOMAIN journal
                   /\ journal'[k].kind = journal[k].kind
                   /\ journal'[k].status = "open" => journal[k].status = "open"
                   /\ journal'[k].kind \in Reversible /\ journal'[k].status = "completed" =>
                          journal[k].status = "completed" \/ applied[k] = 1
                \/ k = made + 1 /\ made' = made + 1 /\ journal'[k].status # "completed"
            BY <3>2 DEF EditsOnly
        <3>8. Numbered' /\ Blocked'
            <4>1. \A k \in DOMAIN journal' : k <= made'
                BY <1>a, <3>6, <3>7 DEF UInv, Numbered, Serial
            <4>2. \A k \in Serial : sent[k] > 0 => k <= made /\ k <= made' /\ k # made + 1
                BY <1>a, <3>6 DEF UInv, Numbered, Serial
            <4>3. ASSUME NEW k \in DOMAIN journal', sent[k] > 0 PROVE journal'[k].status # "open"
                <5>1. k \in Serial /\ k # made + 1
                    BY <3>2, <4>2, <4>3 DEF JournalTyped
                <5> QED
                    BY <3>7, <4>3, <5>1 DEF UInv, Blocked
            <4> QED
                BY <2>2, <4>1, <4>2, <4>3 DEF Numbered, Blocked
        <3>9. Targeted'
            <4>1. ASSUME NEW t \in Session, pc'[t] # "idle"
                  PROVE  /\ target[t] \in Serial /\ target[t] <= made
                         /\ Holds(target[t]) => journal[target[t]].kind \in Reversible
                BY <2>1, <3>3, <4>1 DEF UInv, Targeted
            <4>2. ASSUME NEW t \in Session, pc'[t] # "idle"
                  PROVE  /\ target[t] <= made' /\ target[t] # made + 1
                BY <1>a, <3>6, <4>1, <4>2 DEF Serial
            <4> QED
                BY <2>2, <3>7, <4>1, <4>2 DEF Targeted, Holds
        <3>10. Claimed'
            <4>1. ASSUME NEW t \in Session, Sending(t)', t # s
                  PROVE  Sending(t) /\ target[t] # i /\ sent[target[t]] = 0
                BY <3>3, <3>5, <4>1 DEF Sending, UInv, Claimed
            <4>2. ASSUME NEW t \in Session, Sending(t)', t # s
                  PROVE  Holds(target[t])' => journal'[target[t]].status # "open"
                <5>1. /\ target[t] <= made /\ target[t] \in Serial
                      /\ Holds(target[t]) => journal[target[t]].status # "open"
                    BY <4>1, <4>2 DEF UInv, Claimed, Targeted, Sending
                <5>2. target[t] # made + 1
                    BY <1>a, <5>1 DEF Serial
                <5> QED
                    BY <2>2, <3>7, <5>1, <5>2 DEF Holds
            <4>3. i \in DOMAIN journal' => journal'[i].status # "open"
                BY <3>2
            <4> QED
                BY <2>2, <3>5, <4>1, <4>2, <4>3 DEF Claimed, Holds, UInv
        <3>11. Honest' /\ UndoneAtMostOnce' /\ UndoneIsTrue'
            BY <2>2, <3>3, <3>7 DEF UInv, Honest, UndoneAtMostOnce, UndoneIsTrue
        <3> QED
            BY <3>4, <3>8, <3>9, <3>10, <3>11 DEF UInv
    <2> QED
        BY <2>3, <2>4
<1>6. ASSUME NEW s \in Session, Handler(s) PROVE UInv'
    <2> DEFINE i == target[s]
    <2>1. /\ UNCHANGED <<journal, made, target, faults, sent, applied>>
          /\ pc[s] = "handler" /\ pc' \in [Session -> Location]
          /\ \A t \in Session : t # s => pc'[t] = pc[t]
          /\ pc'[s] \in {"send", "idle"}
        BY <1>6, <1>a DEF Handler, Step, Location
    <2>2. EditsOnly /\ JournalTyped
        BY <2>1, NothingEdited
    <2>3. TypeOK'
        BY <1>a, <2>1 DEF TypeOK
    <2> QED
        BY <2>1, <2>2, <2>3, Edited DEF EditsOnly, JournalTyped, Sending
<1>7. ASSUME NEW s \in Session, Send(s) PROVE UInv'
    <2> DEFINE i == target[s]
    <2>1. /\ pc[s] = "send" /\ i \in Serial /\ i <= made
          /\ sent[i] = 0 /\ applied[i] = 0
          /\ Holds(i) => journal[i].kind \in Reversible /\ journal[i].status # "open"
        <3>1. pc[s] = "send" /\ i \in Serial /\ i <= made
            BY <1>7 DEF Send, UInv, Targeted
        <3>2. /\ sent[i] = 0 /\ applied[i] <= sent[i]
              /\ Holds(i) => journal[i].kind \in Reversible /\ journal[i].status # "open"
            BY <3>1 DEF UInv, Targeted, Claimed, Honest, Sending
        <3> QED
            BY <1>a, <3>1, <3>2
    <2>2. UNCHANGED <<journal, made, target>>
        BY <1>7 DEF Send
    <2>3. /\ \A k \in Serial : sent'[k] = IF k = i THEN 1 ELSE sent[k]
          /\ sent' \in [Serial -> Nat]
        BY <1>7, <1>a, <2>1 DEF Send
    <2>4. \/ /\ Step(s, "send", "complete") /\ UNCHANGED faults
             /\ applied' = [applied EXCEPT ![i] = @ + 1]
          \/ /\ Step(s, "send", "idle") /\ Fault
             /\ applied' = [applied EXCEPT ![i] = @ + 1] \/ UNCHANGED applied
        BY <1>7 DEF Send
    <2>5. /\ \A k \in Serial : applied'[k] = applied[k] \/ (k = i /\ applied'[k] = 1)
          /\ applied' \in [Serial -> Nat]
        BY <1>a, <2>1, <2>4
    <2>6. /\ pc' \in [Session -> Location] /\ faults' \in 0..MaxFaults
          /\ \A t \in Session : t # s => pc'[t] = pc[t]
          /\ pc'[s] = "idle" \/ (pc'[s] = "complete" /\ applied'[i] = 1)
        <3>1. /\ pc' \in [Session -> Location]
              /\ \A t \in Session : t # s => pc'[t] = pc[t]
            BY <1>a, <2>4 DEF Step, Location
        <3>2. pc'[s] = "idle" \/ (pc'[s] = "complete" /\ applied'[i] = 1)
            BY <1>a, <2>1, <2>4 DEF Step
        <3>3. faults' \in 0..MaxFaults
            BY <1>a, <2>4, UndoBoundAssumption DEF Fault
        <3> QED
            BY <3>1, <3>2, <3>3
    <2>7. TypeOK'
        BY <1>a, <2>2, <2>3, <2>5, <2>6 DEF TypeOK
    <2>8. Numbered' /\ Targeted' /\ UndoneAtMostOnce'
        BY <2>1, <2>2, <2>3, <2>6 DEF UInv, Numbered, Targeted, UndoneAtMostOnce, Holds
    <2>9. Claimed'
        <3>1. ASSUME NEW t \in Session, Sending(t)'
              PROVE  t # s /\ Sending(t) /\ target[t] # i
            BY <2>1, <2>6, <3>1 DEF Sending, UInv, Claimed
        <3>2. ASSUME NEW t \in Session, Sending(t)'
              PROVE  sent'[target[t]] = sent[target[t]]
            BY <2>3, <3>1, <3>2 DEF UInv, Targeted, Sending
        <3> QED
            BY <2>2, <3>1, <3>2 DEF Claimed, UInv, Holds
    <2>10. Blocked'
        BY <1>a, <2>1, <2>2, <2>3 DEF UInv, Blocked, Holds
    <2>11. \A k \in Serial : applied'[k] <= sent'[k]
        BY <1>a, <2>1, <2>3, <2>4 DEF UInv, Honest
    <2>12. ASSUME NEW t \in Session, pc'[t] = "complete" PROVE applied'[target[t]] = 1
        BY <2>5, <2>6, <2>12 DEF UInv, Honest, Targeted
    <2>13. Honest' /\ UndoneIsTrue'
        BY <1>a, <2>2, <2>5, <2>11, <2>12 DEF Honest, UndoneIsTrue, UInv
    <2> QED
        BY <2>7, <2>8, <2>9, <2>10, <2>13 DEF UInv
<1>8. ASSUME NEW s \in Session, Complete(s) PROVE UInv'
    <2> DEFINE i == target[s]
    <2>1. /\ pc[s] = "complete" /\ applied[i] = 1
          /\ Holds(i) => journal[i].kind \in Reversible
        BY <1>8 DEF Complete, Step, UInv, Targeted, Honest
    <2>2. /\ UNCHANGED <<target, sent, applied>>
          /\ Step(s, "complete", "audit") \/ Step(s, "complete", "idle")
        BY <1>8 DEF Complete
    <2>3. UNCHANGED <<journal, made>> \/ (i \in DOMAIN journal /\ Amend(i, "completed"))
        BY <1>8 DEF Complete, Fails, Holds
    <2>4. EditsOnly /\ JournalTyped
        <3>1. CASE UNCHANGED <<journal, made>>
            BY <3>1, NothingEdited
        <3>2. CASE i \in DOMAIN journal /\ Amend(i, "completed")
            BY <2>1, <3>2, AmendOnly DEF Holds
        <3> QED
            BY <2>3, <3>1, <3>2
    <2>5. faults' \in 0..MaxFaults
        BY <1>8, <1>a, UndoBoundAssumption DEF Complete, Fails, Fault
    <2>6. /\ \A t \in Session : t # s => pc'[t] = pc[t]
          /\ pc'[s] \in {"audit", "idle"} /\ pc' \in [Session -> Location]
        BY <1>a, <2>2 DEF Step, Location
    <2>7. TypeOK'
        BY <1>a, <2>2, <2>4, <2>5, <2>6 DEF TypeOK, JournalTyped
    <2> QED
        BY <2>1, <2>2, <2>4, <2>6, <2>7, Edited DEF EditsOnly, JournalTyped, Sending
<1>9. ASSUME NEW s \in Session, Audit(s) PROVE UInv'
    <2> DEFINE e == [kind |-> "audit", op |-> No, status |-> "open"]
    <2>1. e \in Entry /\ e.status # "completed"
        BY DEF Entry
    <2>2. UNCHANGED <<journal, made>> \/ Unshift(e)
        BY <1>9 DEF Audit, Fails
    <2>3. EditsOnly /\ JournalTyped
        BY <2>1, <2>2, NothingEdited, UnshiftOnly
    <2>4. faults' \in 0..MaxFaults
        BY <1>9, <1>a, UndoBoundAssumption DEF Audit, Fails, Fault
    <2>5. /\ UNCHANGED <<target, sent, applied>> /\ pc[s] = "audit"
          /\ \A t \in Session : t # s => pc'[t] = pc[t]
          /\ pc'[s] = "idle" /\ pc' \in [Session -> Location]
        BY <1>9, <1>a DEF Audit, Step, Location
    <2>6. TypeOK'
        BY <1>a, <2>3, <2>4, <2>5 DEF TypeOK, JournalTyped
    <2> QED
        BY <2>3, <2>5, <2>6, Edited DEF EditsOnly, JournalTyped, Sending
<1>10. ASSUME NEW s \in Session, Crash(s) PROVE UInv'
    <2>1. /\ UNCHANGED <<journal, made, target, sent, applied>>
          /\ \A t \in Session : t # s => pc'[t] = pc[t]
          /\ pc'[s] = "idle" /\ pc' \in [Session -> Location]
        BY <1>10, <1>a DEF Crash, Step, Location
    <2>2. faults' \in 0..MaxFaults
        BY <1>10, <1>a, UndoBoundAssumption DEF Crash, Fault
    <2>3. EditsOnly /\ JournalTyped
        BY <2>1, NothingEdited
    <2>4. TypeOK'
        BY <1>a, <2>1, <2>2 DEF TypeOK
    <2> QED
        BY <2>1, <2>3, <2>4, Edited DEF EditsOnly, JournalTyped, Sending
<1>11. CASE UNCHANGED vars
    BY <1>11 DEF vars, UInv, TypeOK, Numbered, Targeted, Claimed, Sending, UndoneAtMostOnce,
        Blocked, Honest, UndoneIsTrue, Holds
<1> QED
    BY <1>1, <1>2, <1>3, <1>4, <1>5, <1>6, <1>7, <1>8, <1>9, <1>10, <1>11 DEF Next

-----------------------------------------------------------------------------
(* The theorems.                                                           *)

\* The invariant behind the theorems below.
LEMMA UndoInvariance == Spec => []UInv
<1>1. Init => UInv
    BY UndoBegins
<1>2. UInv /\ [Next]_vars => UInv'
    BY UndoStep
<1> QED
    BY <1>1, <1>2, PTL DEF Spec

\* The journal and the sessions of undo_operation keep their types, and
\* whatever retainJournalEntries removes, what stays is an entry.
THEOREM UndoTypeCorrect == Spec => []TypeOK
<1>1. UInv => TypeOK
    BY DEF UInv
<1> QED
    BY <1>1, UndoInvariance, PTL

\* However many sessions undo the same entry, crash, lose replies or fail to
\* update the journal, one request at most is sent for it.
THEOREM UndoIsSentOnce == Spec => []UndoneAtMostOnce
<1>1. UInv => UndoneAtMostOnce
    BY DEF UInv
<1> QED
    BY <1>1, UndoInvariance, PTL

\* An entry the journal shows as undone has been undone, exactly once.
THEOREM UndoneMeansApplied == Spec => []UndoneIsTrue
<1>1. UInv => UndoneIsTrue
    BY DEF UInv
<1> QED
    BY <1>1, UndoInvariance, PTL

\* No step takes back a request, so an undo that may have been applied is
\* never offered again.
THEOREM UncertainStaysBlocked == Spec => UncertainIsBlocked
<1>1. ASSUME UInv, UInv', [Next]_vars
      PROVE  [\A i \in Serial : sent[i] > 0 /\ Holds(i)' => journal'[i].status # "open"]_vars
    <2>1. \A i \in Serial : sent[i] > 0 => sent'[i] > 0
        <3>1. CASE \E s \in Session : Send(s)
            <4>1. PICK s \in Session : Send(s)
                BY <3>1
            <4>2. sent' = [sent EXCEPT ![target[s]] = @ + 1] /\ sent \in [Serial -> Nat]
                BY <1>1, <4>1 DEF Send, UInv, TypeOK
            <4> QED
                BY <4>2
        <3>2. CASE ~\E s \in Session : Send(s)
            <4>1. UNCHANGED sent
                BY <1>1, <3>2 DEF Next, vars, Record, StartOperation, FinishOperation, Prepare,
                    Claim, Handler, Complete, Audit, Crash
            <4> QED
                BY <4>1
        <3> QED
            BY <3>1, <3>2
    <2> QED
        BY <1>1, <2>1 DEF UInv, Blocked, Holds
<1> QED
    BY <1>1, UndoInvariance, PTL DEF Spec, UncertainIsBlocked

\* A step that takes an unfinished operation from the journal finishes it.
Kept == \A i \in DOMAIN journal :
    Unfinished(journal[i]) /\ ~Holds(i)' => FinishOperation(journal[i].op)

\* Trimming keeps unfinished operations, and amending another entry does.
LEMMA KeptByStep ==
    ASSUME UInv, [Next]_vars
    PROVE  Kept
<1>0. ASSUME NEW i \in DOMAIN journal, NEW e, i # NewSerial,
             Unfinished(journal[i]), Save(With(NewSerial, e))
      PROVE  Holds(i)'
    BY <1>0 DEF Save, With, Restrict, Retained, Holds
<1>1. ASSUME NEW i \in DOMAIN journal, NEW k \in DOMAIN journal, NEW status, i # k,
             Unfinished(journal[i]), Amend(k, status)
      PROVE  Holds(i)'
    BY <1>1 DEF Amend, Save, With, Restrict, Retained, Holds
<1>2. SUFFICES ASSUME NEW i \in DOMAIN journal, Unfinished(journal[i]), ~Holds(i)'
               PROVE  FinishOperation(journal[i].op)
    BY DEF Kept
<1>3. i # NewSerial /\ journal[i].kind \notin Reversible
    BY <1>2 DEF UInv, TypeOK, Numbered, NewSerial, Serial, Unfinished, Reversible
<1>4. ASSUME NEW e, Unshift(e) PROVE FALSE
    BY <1>0, <1>2, <1>3, <1>4 DEF Unshift
<1>5. ASSUME NEW s \in Session, pc[s] # "idle", NEW status, Holds(target[s]),
             Amend(target[s], status)
      PROVE  FALSE
    <2>1. target[s] # i
        BY <1>3, <1>5 DEF UInv, Targeted
    <2> QED
        BY <1>1, <1>2, <1>5, <2>1 DEF Holds
<1>6. ASSUME UNCHANGED journal PROVE FALSE
    BY <1>2, <1>6 DEF Holds
<1>7. ASSUME NEW kind \in Reversible \cup {"audit"}, Record(kind) PROVE FALSE
    BY <1>4, <1>7 DEF Record
<1>8. ASSUME NEW o \in OpId, StartOperation(o) PROVE FALSE
    BY <1>4, <1>8 DEF StartOperation
<1>9. ASSUME NEW o \in OpId, FinishOperation(o) PROVE FinishOperation(journal[i].op)
    <2>1. PICK k \in DOMAIN journal : journal[k].op = o /\ Amend(k, "completed")
        BY <1>9 DEF FinishOperation
    <2> QED
        BY <1>1, <1>2, <1>9, <2>1
<1>10. ASSUME NEW s \in Session, Claim(s) \/ Complete(s) PROVE FALSE
    BY <1>5, <1>6, <1>10 DEF Claim, Complete, Step, Fails
<1>11. ASSUME NEW s \in Session, Audit(s) PROVE FALSE
    BY <1>4, <1>6, <1>11 DEF Audit, Fails
<1>12. ASSUME NEW s \in Session,
              (\E k \in Serial : Prepare(s, k)) \/ Handler(s) \/ Send(s) \/ Crash(s)
       PROVE  FALSE
    BY <1>6, <1>12 DEF Prepare, Handler, Send, Crash
<1>13. CASE UNCHANGED vars
    BY <1>6, <1>13 DEF vars
<1> QED
    BY <1>7, <1>8, <1>9, <1>10, <1>11, <1>12, <1>13 DEF Next

\* Whatever history is written or trimmed, an unfinished operation is in the
\* journal until the step that finishes it.
THEOREM UnfinishedStays == Spec => UnfinishedIsKept
<1>1. ASSUME UInv, [Next]_vars PROVE [Kept]_vars
    BY <1>1, KeptByStep
<1> QED
    BY <1>1, UndoInvariance, PTL DEF Spec, UnfinishedIsKept, Kept

-----------------------------------------------------------------------------
(* TransactionWrites: the inductive invariant.                               *)

\* A call whose request YNAB has carried out and answered, or that is journaled.
Made(c) == at[c] \in {"verify", "record", "ok"} \/ entry[c].status # "missing"
Undisturbed(c, r, f) == <<r, f>> \notin disturbed[c]

\* Where a call and its undo stand, and what they hold there.
Standing(c) ==
    /\ at[c] \in {"idle", "read", "write", "verify", "record"} =>
           entry[c].status = "missing" /\ upc[c] = "idle"
    /\ at[c] = "idle" => DOMAIN before[c] = {}
    /\ at[c] \in {"idle", "read", "write"} => DOMAIN after[c] = {}
    /\ upc[c] # "idle" => entry[c].status # "missing" /\ entry[c].undo # "none"
    /\ upc[c] \in {"idle", "check", "send"} => entry[c].status # "undone"
    /\ upc[c] = "send" => utodo[c] = {}
    /\ at[c] = "read" => Kind(c) = "update" /\ todo[c] \subseteq DOMAIN Req(c)
    /\ Kind(c) = "update" => DOMAIN before[c] \subseteq DOMAIN Req(c)
    /\ Kind(c) = "update" /\ Made(c) => DOMAIN truth[c] = DOMAIN Req(c)
    /\ Kind(c) = "create" => \A r \in DOMAIN before[c] : before[c][r].val = Req(c)
    /\ Kind(c) = "delete" /\ Made(c) => Req(c) \in DOMAIN before[c]
    /\ Kind(c) = "update" /\ at[c] \in {"verify", "record", "ok"} =>
           DOMAIN Req(c) \subseteq DOMAIN after[c] \cup (IF at[c] = "verify" THEN todo[c] ELSE {})

\* The entry is of what the call read before and after.
Journaled(c) ==
    entry[c].status # "missing" =>
        /\ entry[c].undo = Writes!UndoOf(c) /\ entry[c].snapshot = after[c]
        /\ entry[c].rows = IF Kind(c) = "update"
                           THEN [r \in Writes!Reversible(c) |-> Writes!BeforeFields(c, r)]
                           ELSE Writes!Nothing

\* What an update has read holds until it writes; what it replaced is what it
\* had read, and what it leaves alone stays.
Replaced(c) ==
    Kind(c) = "update" => \A r \in DOMAIN before[c], f \in Field : Undisturbed(c, r, f) =>
        /\ at[c] \in {"read", "write"} => world[r].val[f] = before[c][r].val[f]
        /\ Made(c) => before[c][r].val[f] = truth[c][r].val[f]
        /\ Made(c) /\ f \notin DOMAIN Req(c)[r] => world[r].val[f] = truth[c][r].val[f]

\* What it has read back holds until the undo is sent.
ReadBack(c) ==
    Kind(c) = "update" /\ Made(c) =>
        \A r \in DOMAIN before[c] \cap DOMAIN after[c], f \in Field : Undisturbed(c, r, f) =>
            /\ f \notin DOMAIN Req(c)[r] => after[c][r].val[f] = truth[c][r].val[f]
            /\ upc[c] \in {"idle", "check", "send"} =>
                   world[r].val[f] = after[c][r].val[f]

\* A success is reported of what was read back.
Reported(c) ==
    Kind(c) = "update" /\ at[c] = "ok" =>
        (\A r \in DOMAIN Req(c) : Writes!AsRequested(c, r)) /\ newly[c] = Writes!Newly(c)

\* After the undo the rows it covers are as the call had found them.
Restored(c) ==
    Kind(c) = "update" /\ (upc[c] \in {"verify", "complete"} \/ entry[c].status = "undone") =>
        \A r \in DOMAIN entry[c].rows : \A f \in DOMAIN Req(c)[r] :
            f \in Field /\ Undisturbed(c, r, f) => world[r].val[f] = before[c][r].val[f]

\* What the undo has compared is as journaled, where the user changed it last and
\* not since.
Compared(c) ==
    upc[c] \in {"check", "send"} /\ entry[c].undo # "recreate" =>
        \A r \in DOMAIN after[c] \ utodo[c], f \in Field :
            <<r, f>> \in byUser \ late[c] => world[r].val[f] = after[c][r].val[f]

\* Nobody has touched a row that does not exist.
Unborn == \A r \in Row, f \in Field : world[r].life = "absent" => <<r, f>> \notin byUser

CallInv(c) ==
    /\ Standing(c) /\ Journaled(c) /\ Replaced(c) /\ ReadBack(c)
    /\ Reported(c) /\ Restored(c) /\ Compared(c)

\* The calls' variables are functions on the calls.
Shape ==
    /\ DOMAIN at = Call /\ DOMAIN before = Call /\ DOMAIN after = Call /\ DOMAIN newly = Call
    /\ DOMAIN entry = Call /\ DOMAIN upc = Call /\ DOMAIN truth = Call /\ DOMAIN late = Call
    /\ \A c \in Call : entry[c] = [undo |-> entry[c].undo, rows |-> entry[c].rows,
                                   snapshot |-> entry[c].snapshot, status |-> entry[c].status]

WInv == Writes!TypeOK /\ Shape /\ Unborn /\ \A c \in Call : CallInv(c)

\* Nothing of call c moves.
Unmoved(c) ==
    /\ at'[c] = at[c] /\ todo'[c] = todo[c] /\ before'[c] = before[c] /\ after'[c] = after[c]
    /\ newly'[c] = newly[c] /\ entry'[c] = entry[c] /\ upc'[c] = upc[c] /\ utodo'[c] = utodo[c]
    /\ truth'[c] = truth[c]

\* What happens to the rows of call c is noticed: as a disturbance, and as late.
Noticed(c) ==
    /\ \A r \in DOMAIN before[c], f \in Field : <<r, f>> \notin disturbed'[c] =>
           <<r, f>> \notin disturbed[c] /\ world'[r].val[f] = world[r].val[f]
    /\ upc[c] # "idle" => \A r \in Row \ utodo[c], f \in Field : <<r, f>> \in byUser' \ late'[c] =>
           <<r, f>> \in byUser \ late[c] /\ world'[r].val[f] = world[r].val[f]

\* What others do to the rows of a call leaves its invariant.
LEMMA NoticedKeeps ==
    ASSUME WInv, NEW c \in Call, Unmoved(c), Noticed(c)
    PROVE  CallInv(c)'
<1>1. /\ Writes!TypeOK /\ CallInv(c) /\ DOMAIN after[c] \subseteq Row
      /\ Made(c)' = Made(c)
    BY DEF WInv, Writes!TypeOK, Writes!AreRows, Made, Unmoved
<1>2. Standing(c)'
    BY <1>1 DEF CallInv, Standing, Unmoved, Made
<1>3. /\ \A r : Writes!AsRequested(c, r)' = Writes!AsRequested(c, r)
      /\ \A r : Writes!BeforeFields(c, r)' = Writes!BeforeFields(c, r)
      /\ Writes!Newly(c)' = Writes!Newly(c)
    BY DEF Unmoved, Writes!AsRequested, Writes!BeforeFields, Writes!Restrict, Writes!Newly
<1>4. Writes!Reversible(c)' = Writes!Reversible(c)
    BY <1>3 DEF Unmoved, Writes!Reversible
<1>5. Writes!UndoOf(c)' = Writes!UndoOf(c)
    BY <1>4 DEF Unmoved, Writes!UndoOf
<1>6. Journaled(c)'
    BY <1>1, <1>3, <1>4, <1>5 DEF CallInv, Journaled, Unmoved
<1>7. Replaced(c)'
    BY <1>1 DEF CallInv, Replaced, Undisturbed, Unmoved, Noticed
<1>8. ReadBack(c)'
    BY <1>1 DEF CallInv, ReadBack, Undisturbed, Unmoved, Noticed
<1>9. Reported(c)'
    BY <1>1, <1>3 DEF CallInv, Reported, Unmoved
<1>10. Restored(c)'
    <2>1. Kind(c) = "update" /\ (upc[c] \in {"verify", "complete"} \/ entry[c].status = "undone") =>
             DOMAIN entry[c].rows \subseteq DOMAIN before[c]
        BY <1>1 DEF CallInv, Standing, Journaled, Writes!Reversible
    <2> QED
        BY <1>1, <2>1 DEF CallInv, Restored, Undisturbed, Unmoved, Noticed
<1>11. Compared(c)'
    BY <1>1 DEF CallInv, Compared, Unmoved, Noticed
<1> QED
    BY <1>2, <1>6, <1>7, <1>8, <1>9, <1>10, <1>11 DEF CallInv

\* YNAB's changes are noticed by every call but the one that makes them.
LEMMA BecomesNoticed ==
    ASSUME WInv, NEW x, NEW w, Writes!Becomes(x, w), NEW c \in Call, c # x
    PROVE  Noticed(c)
<1>1. DOMAIN before[c] \subseteq Row
    BY DEF WInv, Writes!TypeOK, Writes!AreRows
<1> DEFINE changed == Writes!Changed(world, w)
<1>2. /\ world' = w
      /\ disturbed'[c] = disturbed[c] \cup {p \in changed : p[1] \in DOMAIN before[c]}
      /\ byUser' = IF x = "user" THEN byUser \cup changed ELSE byUser \ changed
      /\ upc[c] # "idle" => late'[c] = IF x # "user" THEN late[c] ELSE late[c] \cup {p \in changed : p[1] \notin utodo[c]}
    BY DEF Writes!Becomes
<1>3. \A r \in Row, f \in Field : <<r, f>> \notin changed => w[r].val[f] = world[r].val[f]
    BY DEF Writes!Changed
<1>4. \A r \in Row, f \in Field : <<r, f>> \in changed /\ r \in DOMAIN before[c] => <<r, f>> \in disturbed'[c]
    BY <1>2
<1>5. ASSUME upc[c] # "idle", NEW r \in Row \ utodo[c], NEW f \in Field, <<r, f>> \in byUser' \ late'[c]
      PROVE  <<r, f>> \in byUser \ late[c] /\ <<r, f>> \notin changed
    <2> HIDE DEF changed
    <2>1. CASE x = "user"
        BY <1>2, <1>5, <2>1
    <2>2. CASE x # "user"
        BY <1>2, <1>5, <2>2
    <2> QED
        BY <2>1, <2>2
<1> QED
    <2> HIDE DEF changed
    <2>1. \A r \in DOMAIN before[c], f \in Field : <<r, f>> \notin disturbed'[c] =>
              <<r, f>> \notin disturbed[c] /\ world'[r].val[f] = world[r].val[f]
        BY <1>1, <1>2, <1>3, <1>4
    <2> QED
        BY <2>1, <1>2, <1>3, <1>5 DEF Noticed

\* Where nothing happens to the rows there is nothing to notice.
LEMMA QuietNoticed ==
    ASSUME NEW c \in Call, UNCHANGED <<world, byUser>>, disturbed'[c] = disturbed[c], late'[c] = late[c]
    PROVE  Noticed(c)
BY DEF Noticed

-----------------------------------------------------------------------------
(* The calls that write.                                                     *)

\* The constants of the calls.
LEMMA CallConstants ==
    ASSUME NEW c \in Call
    PROVE  /\ Kind(c) \in {"update", "create", "delete"} /\ c # "user"
           /\ Kind(c) = "update" => Writes!Rows(c) = DOMAIN Req(c) /\ DOMAIN Req(c) \subseteq Row
           /\ Kind(c) = "delete" => Req(c) \in Row /\ Writes!Rows(c) = {Req(c)}
           /\ Kind(c) = "update" => \A r \in DOMAIN Req(c) : DOMAIN Req(c)[r] \subseteq Field
BY WritesAssumption DEF Writes!Rows

\* Beginning a call: it has read nothing.
LEMMA BeginKeeps ==
    ASSUME WInv, NEW c \in Call, Writes!Begin(c), NEW d \in Call
    PROVE  CallInv(d)'
<1>1. /\ at[c] = "idle" /\ at' = [at EXCEPT ![c] = IF Kind(c) = "update" THEN "read" ELSE "write"]
      /\ todo' = IF Kind(c) = "update" THEN [todo EXCEPT ![c] = Writes!Rows(c)] ELSE todo
      /\ UNCHANGED <<world, before, after, newly, entry, upc, utodo, truth, disturbed, byUser, late>>
    BY DEF Writes!Begin, Writes!Goto, Writes!undo, Writes!past
<1>2. CallInv(c) /\ CallInv(d) /\ DOMAIN at = Call /\ DOMAIN todo = Call
    BY DEF WInv, Shape, Writes!TypeOK
<1>3. CASE d # c
    BY <1>1, <1>2, <1>3, NoticedKeeps, QuietNoticed DEF Unmoved
<1>4. CASE d = c
    <2>1. at'[c] = (IF Kind(c) = "update" THEN "read" ELSE "write") /\ ~Made(c) /\ ~Made(c)'
        BY <1>1, <1>2 DEF CallInv, Standing, Made
    <2>2. Standing(c)'
        BY <1>1, <1>2, <2>1, CallConstants DEF CallInv, Standing
    <2>3. DOMAIN before'[c] = {} /\ entry'[c].status = "missing" /\ upc'[c] = "idle"
        BY <1>1, <1>2 DEF CallInv, Standing
    <2> QED
        BY <1>4, <2>1, <2>2, <2>3 DEF CallInv, Journaled, Replaced, ReadBack, Reported, Restored, Compared
<1> QED
    BY <1>3, <1>4

\* What a call reads before it writes is so.
LEMMA ReadBeforeKeeps ==
    ASSUME WInv, NEW c \in Call, NEW r \in Row, Writes!ReadBefore(c, r), NEW d \in Call
    PROVE  CallInv(d)'
<1>1. /\ at[c] = "read" /\ r \in todo[c] /\ todo' = [todo EXCEPT ![c] = todo[c] \ {r}]
      /\ at' = [at EXCEPT ![c] = IF todo[c] = {r} THEN "write" ELSE "read"]
      /\ before' = before \/ before' = [before EXCEPT ![c] = Writes!With(before[c], r, world[r])]
      /\ UNCHANGED <<world, after, newly, entry, upc, utodo, truth, disturbed, byUser, late>>
    BY DEF Writes!ReadBefore, Writes!Goto, Writes!undo, Writes!past
<1>2. CallInv(c) /\ CallInv(d) /\ DOMAIN at = Call /\ DOMAIN todo = Call /\ DOMAIN before = Call
    BY DEF WInv, Shape, Writes!TypeOK
<1>3. CASE d # c
    BY <1>1, <1>2, <1>3, NoticedKeeps, QuietNoticed DEF Unmoved
<1>4. CASE d = c
    <2>1. /\ at'[c] \in {"write", "read"} /\ ~Made(c) /\ ~Made(c)' /\ Kind(c) = "update"
          /\ todo'[c] = todo[c] \ {r} /\ r \in DOMAIN Req(c)
          /\ entry'[c].status = "missing" /\ upc'[c] = "idle" /\ DOMAIN after'[c] = {}
        BY <1>1, <1>2 DEF CallInv, Standing, Made
    <2>2. /\ DOMAIN before'[c] \subseteq DOMAIN before[c] \cup {r}
          /\ \A x \in DOMAIN before'[c] : (before'[c][x] = world[r] /\ x = r) \/ (x \in DOMAIN before[c] /\ before'[c][x] = before[c][x])
        BY <1>1, <1>2 DEF Writes!With
    <2>3. Standing(c)'
        BY <1>1, <1>2, <2>1, <2>2 DEF CallInv, Standing
    <2>4. Replaced(c)'
        BY <1>1, <1>2, <2>1, <2>2 DEF CallInv, Replaced, Undisturbed
    <2> QED
        BY <1>4, <2>1, <2>3, <2>4 DEF CallInv, Journaled, ReadBack, Reported, Restored, Compared
<1> QED
    BY <1>3, <1>4

\* A call that has failed has nothing more to say.
LEMMA WriteFailsKeeps ==
    ASSUME WInv, NEW c \in Call, Writes!WriteFails(c), NEW d \in Call
    PROVE  CallInv(d)'
<1>1. /\ at[c] = "write" /\ at' = [at EXCEPT ![c] = "error"]
      /\ UNCHANGED <<world, todo, before, after, newly, entry, upc, utodo, truth, disturbed, byUser, late>>
    BY DEF Writes!WriteFails, Writes!Goto, Writes!undo, Writes!past
<1>2. CallInv(c) /\ CallInv(d) /\ DOMAIN at = Call
    BY DEF WInv, Shape
<1>3. CASE d # c
    BY <1>1, <1>2, <1>3, NoticedKeeps, QuietNoticed DEF Unmoved
<1>4. CASE d = c
    <2>1. at'[c] = "error" /\ ~Made(c)' /\ entry'[c].status = "missing" /\ upc'[c] = "idle"
        BY <1>1, <1>2 DEF CallInv, Standing, Made
    <2>2. Standing(c)'
        BY <1>1, <1>2, <2>1 DEF CallInv, Standing
    <2> QED
        BY <1>4, <2>1, <2>2 DEF CallInv, Journaled, Replaced, ReadBack, Reported, Restored, Compared
<1> QED
    BY <1>3, <1>4

\* A request that is carried out: its row states are those before it, and
\* everybody else notices.
LEMMA CarriesOthers ==
    ASSUME WInv, NEW c \in Call, NEW w, NEW d \in Call, d # c, Writes!Becomes(c, w),
           UNCHANGED <<after, newly, entry, upc, utodo>>,
           at'[d] = at[d], todo'[d] = todo[d], before'[d] = before[d], truth'[d] = truth[d]
    PROVE  CallInv(d)'
BY NoticedKeeps, BecomesNoticed DEF Unmoved

\* An update replaces what it has read, and leaves alone what it does not set.
LEMMA WriteUpdateKeeps ==
    ASSUME WInv, NEW c \in Call, Writes!WriteUpdate(c), NEW d \in Call
    PROVE  CallInv(d)'
<1>1. /\ at[c] = "write" /\ Kind(c) = "update"
      /\ \E sets : /\ Writes!Becomes(c, Writes!Set(world, sets))
                   /\ sets = Req(c) \/ \E r : sets = Writes!Restrict(Req(c), Writes!Rows(c) \ {r})
      /\ truth' = [truth EXCEPT ![c] = Writes!Restrict(world, Writes!Rows(c))]
      /\ (\A x \in Call : before'[x] = before[x]) /\ UNCHANGED <<after, newly, entry, upc, utodo>>
      /\ \/ at' = [at EXCEPT ![c] = "verify"] /\ todo' = [todo EXCEPT ![c] = Writes!Rows(c)]
         \/ at' = [at EXCEPT ![c] = "error"] /\ todo' = todo
    <2>1. ASSUME Writes!Carries(c, Writes!Set(world, Req(c)), Writes!Rows(c), before[c])
          PROVE  /\ Writes!Becomes(c, Writes!Set(world, Req(c)))
                 /\ truth' = [truth EXCEPT ![c] = Writes!Restrict(world, Writes!Rows(c))]
                 /\ \A x \in Call : before'[x] = before[x]
                 /\ \/ at' = [at EXCEPT ![c] = "verify"] /\ todo' = [todo EXCEPT ![c] = Writes!Rows(c)]
                    \/ at' = [at EXCEPT ![c] = "error"] /\ todo' = todo
        <3>1. before' = before \/ before' = [before EXCEPT ![c] = before[c]]
            BY <2>1 DEF Writes!Carries
        <3>2. \A x \in Call : before'[x] = before[x]
            BY <3>1 DEF WInv, Shape
        <3> QED
            BY <2>1, <3>2 DEF Writes!Carries, Writes!Goto
    <2> QED
        BY <2>1 DEF Writes!WriteUpdate, Writes!Goto, Writes!undo
<1>2. /\ CallInv(c) /\ DOMAIN at = Call /\ DOMAIN todo = Call /\ DOMAIN truth = Call
      /\ world \in [Row -> Writes!RowState]
    BY DEF WInv, Shape, Writes!TypeOK
<1>3. CASE d # c
    BY <1>1, <1>2, <1>3, CarriesOthers
<1>4. CASE d = c
    <2>1. /\ at'[c] \in {"verify", "error"} /\ entry'[c].status = "missing" /\ upc'[c] = "idle"
          /\ DOMAIN after'[c] = {} /\ disturbed'[c] = disturbed[c] /\ Writes!Rows(c) = DOMAIN Req(c)
          /\ DOMAIN before[c] \subseteq DOMAIN Req(c) /\ DOMAIN Req(c) \subseteq Row
        BY <1>1, <1>2, CallConstants DEF CallInv, Standing, Writes!Becomes
    <2>2. truth'[c] = [r \in DOMAIN Req(c) |-> world[r]]
        BY <1>1, <1>2, <2>1 DEF Writes!Restrict
    <2>3. Standing(c)'
        BY <1>1, <1>2, <2>1, <2>2 DEF CallInv, Standing, Made
    <2>4. \A r \in DOMAIN Req(c) : \A f \in Field \ DOMAIN Req(c)[r] : world'[r].val[f] = world[r].val[f]
        <3> SUFFICES ASSUME NEW r \in DOMAIN Req(c), NEW f \in Field, f \notin DOMAIN Req(c)[r]
                     PROVE  world'[r].val[f] = world[r].val[f]
            OBVIOUS
        <3>1. PICK sets : /\ world' = Writes!Set(world, sets)
                          /\ sets = Req(c) \/ \E x : sets = Writes!Restrict(Req(c), Writes!Rows(c) \ {x})
            BY <1>1 DEF Writes!Becomes
        <3>2. r \in DOMAIN sets => sets[r] = Req(c)[r]
            BY <3>1 DEF Writes!Restrict
        <3>3. r \in Row /\ world[r] \in Writes!RowState
            BY <1>2, <2>1
        <3>4. world'[r] = IF r \in DOMAIN sets THEN [world[r] EXCEPT !.val = Writes!Over(sets[r], world[r].val)] ELSE world[r]
            BY <3>1, <3>3 DEF Writes!Set
        <3>5. CASE r \in DOMAIN sets
            <4>1. world'[r].val = Writes!Over(Req(c)[r], world[r].val)
                BY <3>2, <3>3, <3>4, <3>5 DEF Writes!RowState
            <4> QED
                BY <4>1 DEF Writes!Over
        <3> QED
            BY <3>4, <3>5
    <2>5. Replaced(c)'
        BY <1>1, <1>2, <2>1, <2>2, <2>4 DEF CallInv, Replaced, Undisturbed
    <2> QED
        BY <1>1, <1>4, <2>1, <2>3, <2>5 DEF CallInv, Journaled, ReadBack, Reported, Restored, Compared
<1> QED
    BY <1>3, <1>4

\* A created row is what was asked for, a deleted one is remembered.
LEMMA WriteRowKeeps ==
    ASSUME WInv, NEW c \in Call, Writes!WriteCreate(c) \/ Writes!WriteDelete(c), NEW d \in Call
    PROVE  CallInv(d)'
<1>1. /\ at[c] = "write" /\ Kind(c) \in {"create", "delete"}
      /\ \E w : Writes!Becomes(c, w)
      /\ \E x : truth' = [truth EXCEPT ![c] = x]
      /\ UNCHANGED <<after, newly, entry, upc, utodo>>
      /\ \/ /\ at' = [at EXCEPT ![c] = "verify"] /\ \E x : todo' = [todo EXCEPT ![c] = x]
            /\ \E r, s : /\ before' = [before EXCEPT ![c] = Writes!With(before[c], r, s)]
                         /\ Kind(c) = "create" => s.val = Req(c)
                         /\ Kind(c) = "delete" => r = Req(c)
         \/ at' = [at EXCEPT ![c] = "error"] /\ UNCHANGED <<todo, before>>
    <2>1. ASSUME NEW w, NEW R, NEW b, Writes!Carries(c, w, R, b)
          PROVE  /\ Writes!Becomes(c, w) /\ \E x : truth' = [truth EXCEPT ![c] = x]
                 /\ \/ /\ at' = [at EXCEPT ![c] = "verify"] /\ \E x : todo' = [todo EXCEPT ![c] = x]
                       /\ before' = [before EXCEPT ![c] = b]
                    \/ at' = [at EXCEPT ![c] = "error"] /\ UNCHANGED <<todo, before>>
        BY <2>1 DEF Writes!Carries, Writes!Goto
    <2>2. CASE Writes!WriteCreate(c)
        <3> DEFINE s == [life |-> "live", val |-> Req(c)]
        <3>1. PICK r \in Row : Writes!Carries(c, Writes!Put(world, r, s), {r}, Writes!With(before[c], r, s))
            BY <2>2 DEF Writes!WriteCreate
        <3>2. s.val = Req(c) /\ Kind(c) = "create" /\ at[c] = "write" /\ UNCHANGED <<after, newly, entry, upc, utodo>>
            BY <2>2 DEF Writes!WriteCreate, Writes!undo
        <3> HIDE DEF s
        <3> QED
            BY <2>1, <3>1, <3>2
    <2>3. CASE Writes!WriteDelete(c)
        <3>1. Writes!Carries(c, Writes!Put(world, Req(c), [world[Req(c)] EXCEPT !.life = "deleted"]),
                             {Req(c)}, Writes!With(before[c], Req(c), world[Req(c)]))
            BY <2>3 DEF Writes!WriteDelete
        <3>2. Kind(c) = "delete" /\ at[c] = "write" /\ UNCHANGED <<after, newly, entry, upc, utodo>>
            BY <2>3 DEF Writes!WriteDelete, Writes!undo
        <3> QED
            BY <2>1, <3>1, <3>2
    <2> QED
        BY <2>2, <2>3
<1>2. /\ CallInv(c) /\ DOMAIN at = Call /\ DOMAIN todo = Call /\ DOMAIN truth = Call /\ DOMAIN before = Call
    BY DEF WInv, Shape, Writes!TypeOK
<1>3. CASE d # c
    BY <1>1, <1>2, <1>3, CarriesOthers
<1>4. CASE d = c
    <2>1. /\ at'[c] \in {"verify", "error"} /\ entry'[c].status = "missing" /\ upc'[c] = "idle"
          /\ DOMAIN after'[c] = {}
        BY <1>1, <1>2 DEF CallInv, Standing
    <2>2. /\ Kind(c) = "create" => \A r \in DOMAIN before'[c] : before'[c][r].val = Req(c)
          /\ Kind(c) = "delete" /\ at'[c] = "verify" => Req(c) \in DOMAIN before'[c]
        <3>1. CASE at' = [at EXCEPT ![c] = "error"] /\ before' = before
            BY <1>2, <3>1 DEF CallInv, Standing
        <3>2. ASSUME NEW r, NEW s, before' = [before EXCEPT ![c] = Writes!With(before[c], r, s)],
                     Kind(c) = "create" => s.val = Req(c), Kind(c) = "delete" => r = Req(c)
              PROVE  /\ Kind(c) = "create" => \A x \in DOMAIN before'[c] : before'[c][x].val = Req(c)
                     /\ Kind(c) = "delete" => Req(c) \in DOMAIN before'[c]
            <4>1. DOMAIN before'[c] = DOMAIN before[c] \cup {r}
                BY <1>2, <3>2 DEF Writes!With
            <4>2. \A x \in DOMAIN before'[c] : before'[c][x] = IF x = r THEN s ELSE before[c][x]
                BY <1>2, <3>2 DEF Writes!With
            <4> QED
                BY <1>2, <3>2, <4>1, <4>2 DEF CallInv, Standing
        <3> QED
            BY <1>1, <3>1, <3>2
    <2>3. Standing(c)'
        BY <1>1, <1>2, <2>1, <2>2 DEF CallInv, Standing, Made
    <2> QED
        BY <1>1, <1>4, <2>1, <2>3 DEF CallInv, Journaled, Replaced, ReadBack, Reported, Restored, Compared
<1> QED
    BY <1>3, <1>4

\* What is read back is so, and a row that is not there ends the call.
LEMMA ReadbackKeeps ==
    ASSUME WInv, NEW c \in Call, NEW r \in Row, Writes!Readback(c, r), NEW d \in Call
    PROVE  CallInv(d)'
<1>1. /\ at[c] = "verify" /\ r \in todo[c]
      /\ UNCHANGED <<world, before, newly, entry, upc, utodo, truth, disturbed, byUser, late>>
      /\ \/ /\ after' = [after EXCEPT ![c] = Writes!With(after[c], r, world[r])]
            /\ todo' = [todo EXCEPT ![c] = todo[c] \ {r}]
            /\ at' = [at EXCEPT ![c] = IF todo[c] = {r} THEN "record" ELSE "verify"]
         \/ /\ at' = [at EXCEPT ![c] = IF Kind(c) = "update" THEN "error" ELSE "ok"]
            /\ UNCHANGED <<after, todo>>
    BY DEF Writes!Readback, Writes!Goto, Writes!undo, Writes!past
<1>2. CallInv(c) /\ CallInv(d) /\ DOMAIN at = Call /\ DOMAIN todo = Call /\ DOMAIN after = Call
    BY DEF WInv, Shape, Writes!TypeOK
<1>3. CASE d # c
    BY <1>1, <1>2, <1>3, NoticedKeeps, QuietNoticed DEF Unmoved
<1>4. CASE d = c
    <2>1. Made(c) /\ entry'[c].status = "missing" /\ entry'[c] = entry[c] /\ upc'[c] = "idle" /\ at'[c] # "write" /\ at'[c] # "read"
        BY <1>1, <1>2 DEF CallInv, Standing, Made
    <2>2. CASE after' = after /\ todo' = todo
        <3>1. Standing(c)'
            BY <1>1, <1>2, <2>1, <2>2 DEF CallInv, Standing, Made
        <3>2. Replaced(c)' /\ ReadBack(c)'
            BY <1>1, <1>2, <2>1, <2>2 DEF CallInv, Replaced, ReadBack, Undisturbed, Made
        <3> QED
            BY <1>1, <1>2, <1>4, <2>1, <2>2, <3>1, <3>2 DEF CallInv, Journaled, Reported, Restored, Compared
    <2>3. CASE /\ after' = [after EXCEPT ![c] = Writes!With(after[c], r, world[r])]
               /\ todo' = [todo EXCEPT ![c] = todo[c] \ {r}]
               /\ at' = [at EXCEPT ![c] = IF todo[c] = {r} THEN "record" ELSE "verify"]
        <3>1. /\ DOMAIN after'[c] = DOMAIN after[c] \cup {r} /\ after'[c][r] = world[r]
              /\ \A x \in DOMAIN after[c] : x # r => after'[c][x] = after[c][x]
            BY <1>2, <2>3 DEF Writes!With
        <3>2. /\ todo'[c] = todo[c] \ {r} /\ at'[c] \in {"record", "verify"} /\ (at'[c] = "record" => todo[c] = {r})
            BY <1>2, <2>3
        <3>3. Standing(c)'
            BY <1>1, <1>2, <2>1, <3>1, <3>2 DEF CallInv, Standing, Made
        <3>4. Replaced(c)'
            BY <1>1, <1>2, <2>1, <3>2 DEF CallInv, Replaced, Undisturbed
        <3>5. ReadBack(c)'
            BY <1>1, <1>2, <2>1, <3>1, <3>2 DEF CallInv, ReadBack, Replaced, Undisturbed
        <3> QED
            BY <1>1, <1>4, <2>1, <3>2, <3>3, <3>4, <3>5 DEF CallInv, Journaled, Reported, Restored, Compared
    <2> QED
        BY <1>1, <2>2, <2>3
<1> QED
    BY <1>3, <1>4

\* What is journaled and reported is what the call has read.
LEMMA RecordKeeps ==
    ASSUME WInv, NEW c \in Call, Writes!Record(c), NEW d \in Call
    PROVE  CallInv(d)'
<1>1. /\ at[c] = "record"
      /\ UNCHANGED <<world, todo, before, after, upc, utodo, truth, disturbed, byUser, late>>
      /\ entry' = entry \/ entry' = [entry EXCEPT ![c] = Writes!Entry(c)]
      /\ \/ /\ Kind(c) = "update" /\ \E r \in Writes!Rows(c) : ~Writes!AsRequested(c, r)
            /\ at' = [at EXCEPT ![c] = "error"] /\ newly' = newly
         \/ /\ Kind(c) = "update" => \A r \in Writes!Rows(c) : Writes!AsRequested(c, r)
            /\ at' = [at EXCEPT ![c] = "ok"]
            /\ newly' = [newly EXCEPT ![c] = IF Kind(c) = "update" THEN Writes!Newly(c) ELSE {}]
    BY DEF Writes!Record, Writes!Goto, Writes!undo, Writes!past
<1>2. CallInv(c) /\ CallInv(d) /\ DOMAIN at = Call /\ DOMAIN newly = Call /\ DOMAIN entry = Call
    BY DEF WInv, Shape
<1>3. CASE d # c
    BY <1>1, <1>2, <1>3, NoticedKeeps, QuietNoticed DEF Unmoved
<1>4. CASE d = c
    <2>1. /\ Made(c) /\ upc'[c] = "idle" /\ at'[c] \in {"ok", "error"} /\ entry[c].status = "missing"
          /\ entry'[c] = entry[c] \/ entry'[c] = Writes!Entry(c)
        BY <1>1, <1>2 DEF CallInv, Standing, Made
    <2>2. entry'[c].status # "undone"
        BY <2>1 DEF Writes!Entry
    <2>3. Standing(c)'
        BY <1>1, <1>2, <2>1, <2>2 DEF CallInv, Standing, Made
    <2>4. /\ \A r : Writes!AsRequested(c, r)' = Writes!AsRequested(c, r)
          /\ \A r : Writes!BeforeFields(c, r)' = Writes!BeforeFields(c, r)
          /\ Writes!Newly(c)' = Writes!Newly(c)
        BY <1>1 DEF Writes!AsRequested, Writes!BeforeFields, Writes!Restrict, Writes!Newly
    <2>5. Writes!Reversible(c)' = Writes!Reversible(c)
        BY <1>1, <2>4 DEF Writes!Reversible
    <2>6. Writes!UndoOf(c)' = Writes!UndoOf(c)
        BY <1>1, <2>5 DEF Writes!UndoOf
    <2>7. Journaled(c)'
        <3>1. CASE entry'[c] = entry[c]
            BY <2>1, <3>1 DEF Journaled
        <3>2. CASE entry'[c] = Writes!Entry(c)
            BY <1>1, <2>4, <2>5, <2>6, <3>2 DEF Journaled, Writes!Entry
        <3> QED
            BY <2>1, <3>1, <3>2
    <2>8. Reported(c)'
        BY <1>1, <1>2, <2>4, CallConstants DEF Reported
    <2>9. Replaced(c)' /\ ReadBack(c)'
        BY <1>1, <1>2, <2>1 DEF CallInv, Replaced, ReadBack, Undisturbed, Made
    <2> QED
        BY <1>4, <2>1, <2>2, <2>3, <2>7, <2>8, <2>9 DEF CallInv, Restored, Compared
<1> QED
    BY <1>3, <1>4

-----------------------------------------------------------------------------
(* The undo.                                                                 *)

\* The steps of an undo that only move it, and its entry, on.
LEMMA UndoMoves ==
    ASSUME WInv, NEW c \in Call, NEW d \in Call, NEW l, NEW s,
           upc' = [upc EXCEPT ![c] = l], entry'[c] = [entry[c] EXCEPT !.status = s],
           \A x \in Call \ {c} : entry'[x] = entry[x] /\ utodo'[x] = utodo[x] /\ late'[x] = late[x],
           UNCHANGED <<world, at, todo, before, after, newly, truth, disturbed, byUser>>,
           entry[c].status # "missing", s # "missing", entry[c].undo # "none",
           l \in {"idle", "check", "send"} => s # "undone" /\ upc[c] \in {"idle", "check", "send"},
           l = "send" => utodo'[c] = {},
           l \in {"verify", "complete"} \/ s = "undone" =>
               upc[c] \in {"verify", "complete"} \/ entry[c].status = "undone",
           Compared(c)'
    PROVE  CallInv(d)'
<1>1. CallInv(c) /\ CallInv(d) /\ upc'[c] = l
    BY DEF WInv, Shape
<1>2. CASE d # c
    BY <1>1, <1>2, NoticedKeeps, QuietNoticed DEF Unmoved
<1>3. CASE d = c
    <2>1. /\ entry'[c].undo = entry[c].undo /\ entry'[c].rows = entry[c].rows
          /\ entry'[c].snapshot = entry[c].snapshot /\ entry'[c].status = s /\ Made(c) /\ Made(c)'
          /\ at[c] \notin {"idle", "read", "write", "verify", "record"}
        BY <1>1 DEF WInv, Shape, CallInv, Standing, Made
    <2>2. /\ \A r : Writes!AsRequested(c, r)' = Writes!AsRequested(c, r)
          /\ \A r : Writes!BeforeFields(c, r)' = Writes!BeforeFields(c, r)
          /\ Writes!Newly(c)' = Writes!Newly(c)
        BY DEF Writes!AsRequested, Writes!BeforeFields, Writes!Restrict, Writes!Newly
    <2>3. Writes!Reversible(c)' = Writes!Reversible(c)
        BY <2>2 DEF Writes!Reversible
    <2>4. Writes!UndoOf(c)' = Writes!UndoOf(c)
        BY <2>3 DEF Writes!UndoOf
    <2>5. Journaled(c)' /\ Reported(c)'
        BY <1>1, <2>1, <2>2, <2>3, <2>4 DEF CallInv, Journaled, Reported
    <2>6. Standing(c)'
        BY <1>1, <2>1 DEF CallInv, Standing
    <2>7. Replaced(c)' /\ ReadBack(c)' /\ Restored(c)'
        BY <1>1, <2>1 DEF CallInv, Replaced, ReadBack, Restored, Undisturbed
    <2> QED
        BY <1>3, <2>5, <2>6, <2>7 DEF CallInv
<1> QED
    BY <1>2, <1>3

\* The shape of an entry.
LEMMA EntryShape ==
    ASSUME WInv, NEW c \in Call
    PROVE  /\ entry[c] = [entry[c] EXCEPT !.status = entry[c].status]
           /\ \A s : [entry EXCEPT ![c].status = s][c] = [entry[c] EXCEPT !.status = s]
           /\ DOMAIN entry = Call /\ DOMAIN upc = Call /\ DOMAIN utodo = Call /\ DOMAIN late = Call
           /\ upc[c] # "idle" => entry[c].status # "missing" /\ entry[c].undo # "none"
<1>1. /\ entry[c] = [undo |-> entry[c].undo, rows |-> entry[c].rows,
                     snapshot |-> entry[c].snapshot, status |-> entry[c].status]
      /\ DOMAIN entry = Call /\ DOMAIN upc = Call /\ DOMAIN utodo = Call /\ DOMAIN late = Call
      /\ CallInv(c)
    BY DEF WInv, Shape, Writes!TypeOK
<1>2. entry[c] = [entry[c] EXCEPT !.status = entry[c].status]
    BY <1>1
<1> QED
    BY <1>1, <1>2 DEF CallInv, Standing

\* An undo begins with every journaled row still to be compared.
LEMMA UBeginKeeps ==
    ASSUME WInv, NEW c \in Call, Writes!UBegin(c), NEW d \in Call
    PROVE  CallInv(d)'
<1>1. /\ upc[c] = "idle" /\ entry[c].status = "open" /\ entry[c].undo # "none"
      /\ upc' = [upc EXCEPT ![c] = "check"] /\ utodo' = [utodo EXCEPT ![c] = DOMAIN entry[c].snapshot]
      /\ UNCHANGED <<world, at, todo, before, after, newly, entry, truth, disturbed, byUser, late>>
    BY DEF Writes!UBegin, Writes!UGoto, Writes!call, Writes!past
<1>2. Compared(c)'
    <2>1. utodo'[c] = DOMAIN after'[c]
        BY <1>1, EntryShape DEF WInv, CallInv, Journaled
    <2> QED
        BY <2>1 DEF Compared
<1>3. entry'[c] = [entry[c] EXCEPT !.status = "open"]
    BY <1>1, EntryShape
<1> QED
    BY <1>1, <1>2, <1>3, EntryShape, UndoMoves

\* Comparing a row: it is as journaled, or the undo is refused.
LEMMA UCheckKeeps ==
    ASSUME WInv, NEW c \in Call, NEW r \in Row, Writes!UCheck(c, r), NEW d \in Call
    PROVE  CallInv(d)'
<1>1. /\ upc[c] = "check" /\ r \in utodo[c]
      /\ UNCHANGED <<world, at, todo, before, after, newly, entry, truth, disturbed, byUser>>
      /\ \/ Writes!MatchesAfter(c, r) /\ utodo' = [utodo EXCEPT ![c] = utodo[c] \ {r}] /\ UNCHANGED <<upc, late>>
         \/ /\ upc' = [upc EXCEPT ![c] = "idle"] /\ utodo' = [utodo EXCEPT ![c] = {}]
            /\ late' = [late EXCEPT ![c] = {}]
    BY DEF Writes!UCheck, Writes!UGoto, Writes!call
<1>2. CallInv(c) /\ entry[c].snapshot = after[c]
    BY <1>1, EntryShape DEF WInv, CallInv, Journaled
<1>3. entry'[c] = [entry[c] EXCEPT !.status = entry[c].status] /\ entry[c].status # "undone"
    BY <1>1, <1>2, EntryShape DEF CallInv, Standing
<1>4. CASE Writes!MatchesAfter(c, r) /\ utodo' = [utodo EXCEPT ![c] = utodo[c] \ {r}] /\ UNCHANGED <<upc, late>>
    <2>1. entry[c].undo # "recreate" => world[r] = after[c][r]
        BY <1>2, <1>4 DEF Writes!MatchesAfter
    <2>2. Compared(c)'
        BY <1>1, <1>2, <1>4, <2>1, EntryShape DEF CallInv, Compared
    <2>3. upc' = [upc EXCEPT ![c] = "check"] \/ \A x \in Call : upc'[x] = upc[x]
        BY <1>4
    <2>4. CASE d # c
        BY <1>1, <1>4, <2>4, EntryShape, NoticedKeeps, QuietNoticed DEF Unmoved
    <2>5. CASE d = c
        <3>1. /\ \A x : Writes!AsRequested(c, x)' = Writes!AsRequested(c, x)
              /\ \A x : Writes!BeforeFields(c, x)' = Writes!BeforeFields(c, x)
              /\ Writes!Newly(c)' = Writes!Newly(c)
            BY <1>1 DEF Writes!AsRequested, Writes!BeforeFields, Writes!Restrict, Writes!Newly
        <3>2. Writes!Reversible(c)' = Writes!Reversible(c)
            BY <1>1, <3>1 DEF Writes!Reversible
        <3>3. Writes!UndoOf(c)' = Writes!UndoOf(c)
            BY <1>1, <3>2 DEF Writes!UndoOf
        <3>4. Journaled(c)' /\ Reported(c)'
            BY <1>1, <1>2, <3>1, <3>2, <3>3 DEF CallInv, Journaled, Reported
        <3>5. Standing(c)' /\ Replaced(c)' /\ ReadBack(c)' /\ Restored(c)'
            BY <1>1, <1>2, <1>4 DEF CallInv, Standing, Replaced, ReadBack, Restored, Undisturbed, Made
        <3> QED
            BY <2>2, <2>5, <3>4, <3>5 DEF CallInv
    <2> QED
        BY <2>4, <2>5
<1>5. CASE /\ upc' = [upc EXCEPT ![c] = "idle"] /\ utodo' = [utodo EXCEPT ![c] = {}]
           /\ late' = [late EXCEPT ![c] = {}]
    <2>1. Compared(c)'
        BY <1>5, EntryShape DEF Compared
    <2> QED
        BY <1>1, <1>3, <1>5, <2>1, EntryShape, UndoMoves
<1> QED
    BY <1>1, <1>4, <1>5

\* A claimed undo has compared every row.
LEMMA UClaimKeeps ==
    ASSUME WInv, NEW c \in Call, Writes!UClaim(c), NEW d \in Call
    PROVE  CallInv(d)'
<1>1. /\ upc[c] = "check" /\ utodo[c] = {}
      /\ UNCHANGED <<world, at, todo, before, after, newly, utodo, truth, disturbed, byUser, late>>
      /\ \/ entry' = [entry EXCEPT ![c].status = "submitted"] /\ upc' = [upc EXCEPT ![c] = "send"]
         \/ entry' = [entry EXCEPT ![c].status = "submitted"] /\ upc' = [upc EXCEPT ![c] = "ended"]
         \/ entry' = entry /\ upc' = [upc EXCEPT ![c] = "ended"]
    BY DEF Writes!UClaim, Writes!UGoto, Writes!call, Writes!past
<1>2. CallInv(c) /\ entry[c].status # "undone"
    BY <1>1 DEF WInv, CallInv, Standing
<1>3. CASE entry' = [entry EXCEPT ![c].status = "submitted"] /\ upc' = [upc EXCEPT ![c] = "send"]
    <2>1. /\ entry'[c] = [entry[c] EXCEPT !.status = "submitted"] /\ upc'[c] = "send"
          /\ \A x \in Call \ {c} : entry'[x] = entry[x]
        BY <1>3, EntryShape
    <2>2. Compared(c)'
        BY <1>1, <1>2, <2>1, EntryShape DEF CallInv, Compared
    <2> QED
        BY <1>1, <1>3, <2>1, <2>2, EntryShape, UndoMoves
<1>4. CASE upc' = [upc EXCEPT ![c] = "ended"]
    <2>1. upc'[c] = "ended" /\ Compared(c)'
        BY <1>4, EntryShape DEF Compared
    <2>2. /\ \A x \in Call \ {c} : entry'[x] = entry[x]
          /\ \E s \in {"submitted", entry[c].status} : entry'[c] = [entry[c] EXCEPT !.status = s]
        BY <1>1, EntryShape
    <2> QED
        BY <1>1, <1>2, <1>4, <2>1, <2>2, EntryShape, UndoMoves
<1> QED
    BY <1>1, <1>3, <1>4

\* The entry of an update whose undo is sent restores the fields it has set.
LEMMA Restores ==
    ASSUME WInv, NEW c \in Call, Kind(c) = "update", entry[c].status # "missing"
    PROVE  /\ entry[c].undo \in {"restore", "none"} /\ entry[c].snapshot = after[c]
           /\ DOMAIN entry[c].rows \subseteq DOMAIN before[c] \cap DOMAIN after[c]
           /\ DOMAIN entry[c].rows \subseteq DOMAIN Req(c) /\ DOMAIN Req(c) \subseteq Row
           /\ \A r \in DOMAIN entry[c].rows :
                 /\ DOMAIN entry[c].rows[r] = DOMAIN Req(c)[r] /\ DOMAIN Req(c)[r] \subseteq Field
                 /\ \A f \in DOMAIN Req(c)[r] :
                       entry[c].rows[r][f] = before[c][r].val[f] /\ after[c][r].val[f] = Req(c)[r][f]
<1>1. /\ CallInv(c) /\ Journaled(c) /\ Standing(c)
    BY DEF WInv, CallInv
<1>2. /\ entry[c].undo = Writes!UndoOf(c) /\ entry[c].snapshot = after[c]
      /\ entry[c].rows = [r \in Writes!Reversible(c) |-> Writes!BeforeFields(c, r)]
    BY <1>1 DEF Journaled
<1>3. entry[c].undo \in {"restore", "none"}
    BY <1>2 DEF Writes!UndoOf
<1>4. \A r \in Writes!Reversible(c) : r \in DOMAIN before[c] \cap DOMAIN after[c] /\ Writes!AsRequested(c, r)
    BY DEF Writes!Reversible
<1>5. DOMAIN before[c] \subseteq DOMAIN Req(c)
    BY <1>1 DEF Standing
<1> QED
    BY <1>2, <1>3, <1>4, <1>5, CallConstants DEF Writes!AsRequested, Writes!BeforeFields, Writes!Restrict

\* What the undo of an update sends are the values the call had read.
LEMMA USendKeeps ==
    ASSUME WInv, NEW c \in Call, Writes!USend(c), NEW d \in Call
    PROVE  CallInv(d)'
<1>1. /\ upc[c] = "send" /\ UNCHANGED <<at, todo, before, after, newly, entry, utodo, truth>>
      /\ CallInv(c) /\ entry[c].status # "missing" /\ entry[c].status # "undone"
    BY DEF WInv, CallInv, Standing, Writes!USend, Writes!call
<1>2. ASSUME NEW w, NEW next, Writes!USends(c, w, next)
      PROVE  /\ \/ Writes!Becomes(c, w) /\ upc' = [upc EXCEPT ![c] = next]
                \/ Writes!Becomes(c, w) /\ upc' = [upc EXCEPT ![c] = "ended"]
                \/ UNCHANGED <<world, disturbed, byUser, late>> /\ upc' = [upc EXCEPT ![c] = "ended"]
    BY <1>2 DEF Writes!USends, Writes!UGoto
<1>3. \/ \E w : Writes!Becomes(c, w)
      \/ UNCHANGED <<world, disturbed, byUser, late>>
    BY <1>2 DEF Writes!USend
<1>4. \E l \in {"verify", "complete", "ended"} : upc' = [upc EXCEPT ![c] = l]
    BY <1>2 DEF Writes!USend, Writes!UGoto
<1>5. CASE d # c
    <2>1. Unmoved(d)
        BY <1>1, <1>4, <1>5, EntryShape DEF Unmoved
    <2>2. Noticed(d)
        BY <1>3, <1>5, BecomesNoticed, QuietNoticed
    <2> QED
        BY <2>1, <2>2, NoticedKeeps
<1>6. CASE d = c
    <2>1. upc'[c] \in {"verify", "complete", "ended"} /\ disturbed'[c] = disturbed[c]
        BY <1>3, <1>4, EntryShape DEF Writes!Becomes
    <2>2. ASSUME Kind(c) = "update"
          PROVE  \/ /\ world' = Writes!Set(world, entry[c].rows) /\ upc'[c] \in {"verify", "ended"}
                 \/ world' = world /\ upc'[c] = "ended"
        <3>1. entry[c].undo = "restore"
            BY <1>1, <2>2, Restores, EntryShape
        <3>2. \/ Writes!USends(c, Writes!Set(world, entry[c].rows), "verify")
              \/ upc' = [upc EXCEPT ![c] = "ended"] /\ world' = world
            BY <3>1 DEF Writes!USend, Writes!UGoto
        <3> QED
            BY <1>2, <3>2, EntryShape DEF Writes!Becomes
    <2>3. ASSUME Kind(c) = "update", NEW r \in DOMAIN before[c], NEW f \in Field
          PROVE  /\ f \notin DOMAIN Req(c)[r] => world'[r].val[f] = world[r].val[f]
                 /\ r \in DOMAIN entry[c].rows /\ f \in DOMAIN Req(c)[r] /\ upc'[c] = "verify" =>
                        world'[r].val[f] = before[c][r].val[f]
        <3>1. r \in Row /\ world[r] \in Writes!RowState
            BY DEF WInv, Writes!TypeOK, Writes!AreRows
        <3>2. CASE world' = Writes!Set(world, entry[c].rows)
            <4>1. world'[r] = IF r \in DOMAIN entry[c].rows
                              THEN [world[r] EXCEPT !.val = Writes!Over(entry[c].rows[r], world[r].val)] ELSE world[r]
                BY <3>1, <3>2 DEF Writes!Set
            <4>2. CASE r \in DOMAIN entry[c].rows
                <5>1. world'[r].val = Writes!Over(entry[c].rows[r], world[r].val)
                    BY <3>1, <4>1, <4>2 DEF Writes!RowState
                <5>2. world'[r].val[f] = IF f \in DOMAIN Req(c)[r] THEN before[c][r].val[f] ELSE world[r].val[f]
                    BY <1>1, <2>3, <4>2, <5>1, Restores DEF Writes!Over
                <5> QED
                    BY <5>2
            <4> QED
                BY <4>1, <4>2
        <3> QED
            BY <2>2, <2>3, <3>2
    <2>4. Standing(c)'
        BY <1>1, <2>1 DEF CallInv, Standing, Made
    <2>5. /\ \A r : Writes!AsRequested(c, r)' = Writes!AsRequested(c, r)
          /\ \A r : Writes!BeforeFields(c, r)' = Writes!BeforeFields(c, r)
          /\ Writes!Newly(c)' = Writes!Newly(c)
        BY <1>1 DEF Writes!AsRequested, Writes!BeforeFields, Writes!Restrict, Writes!Newly
    <2>6. Writes!Reversible(c)' = Writes!Reversible(c)
        BY <1>1, <2>5 DEF Writes!Reversible
    <2>7. Writes!UndoOf(c)' = Writes!UndoOf(c)
        BY <1>1, <2>6 DEF Writes!UndoOf
    <2>8. Journaled(c)' /\ Reported(c)'
        BY <1>1, <2>5, <2>6, <2>7 DEF CallInv, Journaled, Reported
    <2>9. Replaced(c)'
        <3>1. at[c] \notin {"read", "write"}
            BY <1>1 DEF CallInv, Standing
        <3> QED
            BY <1>1, <2>1, <2>3, <3>1 DEF CallInv, Replaced, Undisturbed, Made
    <2>10. ReadBack(c)'
        BY <1>1, <2>1 DEF CallInv, ReadBack, Undisturbed, Made
    <2>11. Restored(c)'
        <3>1. Kind(c) = "update" => DOMAIN entry[c].rows \subseteq DOMAIN before[c]
            BY <1>1, Restores
        <3>2. Kind(c) = "update" => upc'[c] # "complete"
            BY <2>2
        <3> QED
            BY <1>1, <2>1, <2>3, <3>1, <3>2 DEF Restored
    <2>12. Compared(c)'
        BY <2>1 DEF Compared
    <2> QED
        BY <1>6, <2>4, <2>8, <2>9, <2>10, <2>11, <2>12 DEF CallInv
<1> QED
    BY <1>5, <1>6

\* The end of an undo.
LEMMA UEndKeeps ==
    ASSUME WInv, NEW c \in Call, Writes!UVerify(c) \/ Writes!UComplete(c), NEW d \in Call
    PROVE  CallInv(d)'
<1>1. /\ upc[c] \in {"verify", "complete"}
      /\ UNCHANGED <<world, at, todo, before, after, newly, utodo, truth, disturbed, byUser, late>>
      /\ \E l \in {"complete", "ended"} : upc' = [upc EXCEPT ![c] = l]
      /\ entry' = entry \/ entry' = [entry EXCEPT ![c].status = "undone"]
    BY DEF Writes!UVerify, Writes!UComplete, Writes!UGoto, Writes!call, Writes!past
<1>2. /\ \A x \in Call \ {c} : entry'[x] = entry[x]
      /\ \E s \in {"undone", entry[c].status} : entry'[c] = [entry[c] EXCEPT !.status = s]
    BY <1>1, EntryShape
<1>3. PICK l \in {"complete", "ended"} : upc' = [upc EXCEPT ![c] = l]
    BY <1>1
<1>4. PICK s \in {"undone", entry[c].status} : entry'[c] = [entry[c] EXCEPT !.status = s]
    BY <1>2
<1>5. Compared(c)' /\ entry[c].status # "missing" /\ entry[c].undo # "none"
    BY <1>1, <1>3, EntryShape DEF Compared
<1> QED
    BY <1>1, <1>2, <1>3, <1>4, <1>5, UndoMoves

\* The user's changes are noticed by every call.
LEMMA UserKeeps ==
    ASSUME WInv, NEW w, Writes!Becomes("user", w), NEW c \in Call,
           UNCHANGED <<at, todo, before, after, newly, entry, upc, utodo, truth>>
    PROVE  CallInv(c)'
BY CallConstants, BecomesNoticed, NoticedKeeps DEF Unmoved

-----------------------------------------------------------------------------
(* Types.                                                                    *)

\* The types of one call.
Typed(c) ==
    /\ Writes!AreRows(before[c]) /\ Writes!AreRows(after[c]) /\ Writes!AreRows(truth[c])
    /\ newly[c] \subseteq DOMAIN before[c]
    /\ entry[c].undo \in {"none", "restore", "delete", "recreate"}
    /\ entry[c].status \in {"missing", "open", "submitted", "undone"}
    /\ DOMAIN entry[c].rows \subseteq DOMAIN entry[c].snapshot

Labels ==
    /\ at \in [Call -> {"idle", "read", "write", "verify", "record", "ok", "error"}]
    /\ upc \in [Call -> {"idle", "check", "send", "verify", "complete", "ended"}]
    /\ todo \in [Call -> SUBSET Row] /\ utodo \in [Call -> SUBSET Row]

Counters == edits \in 0..MaxEdits /\ faults \in 0..MaxWriteFaults

\* The type invariant, call by call.
LEMMA TypeParts ==
    Writes!TypeOK <=> world \in [Row -> Writes!RowState] /\ Labels /\ Counters /\ \A c \in Call : Typed(c)
BY DEF Writes!TypeOK, Labels, Counters, Typed

\* The values of a row, field by field.
LEMMA ValuesIntro ==
    ASSUME NEW v, v = [f \in Field |-> v[f]], \A f \in Field : v[f] \in Value(f)
    PROVE  v \in Writes!Values
<1>1. \A f \in Field : v[f] \in UNION {Value(g) : g \in Field}
    OBVIOUS
<1>2. v \in [Field -> UNION {Value(g) : g \in Field}]
    BY <1>1
<1> QED
    BY <1>2 DEF Writes!Values

\* Setting fields of rows keeps their types and lives.
LEMMA SetTyped ==
    ASSUME NEW w \in [Row -> Writes!RowState], NEW sets,
           \A r \in DOMAIN sets \cap Row : \A f \in DOMAIN sets[r] \cap Field : sets[r][f] \in Value(f)
    PROVE  /\ Writes!Set(w, sets) \in [Row -> Writes!RowState]
           /\ \A r \in Row : Writes!Set(w, sets)[r].life = w[r].life
           /\ \A r \in Row : r \notin DOMAIN sets => Writes!Set(w, sets)[r] = w[r]
<1>1. ASSUME NEW r \in Row, r \in DOMAIN sets
      PROVE  Writes!Over(sets[r], w[r].val) \in Writes!Values
    <2> DEFINE v == Writes!Over(sets[r], w[r].val)
    <2>1. w[r].val \in Writes!Values
        BY DEF Writes!RowState
    <2>2. \A f \in Field : w[r].val[f] \in Value(f)
        BY <2>1 DEF Writes!Values
    <2>3. v = [f \in Field |-> v[f]]
        BY DEF Writes!Over
    <2>4. \A f \in Field : v[f] = IF f \in DOMAIN sets[r] THEN sets[r][f] ELSE w[r].val[f]
        BY DEF Writes!Over
    <2>5. \A f \in Field : v[f] \in Value(f)
        BY <1>1, <2>2, <2>4
    <2> HIDE DEF v
    <2>6. v \in Writes!Values
        BY <2>3, <2>5, ValuesIntro
    <2> QED
        BY <2>6 DEF v
<1>2. ASSUME NEW r \in Row
      PROVE  /\ Writes!Set(w, sets)[r] \in Writes!RowState /\ Writes!Set(w, sets)[r].life = w[r].life
             /\ r \notin DOMAIN sets => Writes!Set(w, sets)[r] = w[r]
    <2>1. Writes!Set(w, sets)[r] =
              IF r \in DOMAIN sets THEN [w[r] EXCEPT !.val = Writes!Over(sets[r], w[r].val)] ELSE w[r]
        BY DEF Writes!Set
    <2>2. w[r] \in Writes!RowState
        OBVIOUS
    <2>3. CASE r \in DOMAIN sets
        BY <1>1, <2>1, <2>2, <2>3 DEF Writes!RowState
    <2> QED
        BY <2>1, <2>2, <2>3
<1>3. Writes!Set(w, sets) = [r \in Row |-> Writes!Set(w, sets)[r]]
    BY DEF Writes!Set
<1> QED
    BY <1>2, <1>3

\* Adding a row to those a call holds keeps them rows.
LEMMA WithTyped ==
    ASSUME NEW b, Writes!AreRows(b), NEW r \in Row, NEW s \in Writes!RowState
    PROVE  Writes!AreRows(Writes!With(b, r, s)) /\ DOMAIN b \subseteq DOMAIN Writes!With(b, r, s)
BY DEF Writes!AreRows, Writes!With

\* What YNAB may become: rows, of which those that do not exist are not touched.
Grows(w) == w \in [Row -> Writes!RowState] /\ \A r \in Row : w[r].life = "absent" => w[r] = world[r]

\* Whatever YNAB becomes has rows, and untouched ones where there are none.
LEMMA BecomesTyped ==
    ASSUME WInv, NEW x, NEW w, Grows(w), Writes!Becomes(x, w)
    PROVE  world' \in [Row -> Writes!RowState] /\ Unborn' /\ DOMAIN late' = Call
<1>1. world' = w /\ world' \in [Row -> Writes!RowState] /\ DOMAIN late' = Call
    BY DEF Writes!Becomes, Grows
<1>2. ASSUME NEW r \in Row, NEW f \in Field, w[r].life = "absent" PROVE <<r, f>> \notin byUser'
    <2>1. w[r] = world[r] /\ <<r, f>> \notin byUser
        BY <1>2 DEF Grows, WInv, Unborn
    <2>2. <<r, f>> \notin Writes!Changed(world, w)
        BY <2>1 DEF Writes!Changed
    <2>3. byUser' = byUser \cup Writes!Changed(world, w) \/ byUser' = byUser \ Writes!Changed(world, w)
        BY DEF Writes!Becomes
    <2> QED
        BY <2>1, <2>2, <2>3
<1> QED
    BY <1>1, <1>2 DEF Unborn

\* The steps of a call change its own variables, with the types they have.
LEMMA StepTyped ==
    ASSUME WInv, NEW c \in Call, Labels', Counters',
           \A d \in Call \ {c} : before'[d] = before[d] /\ after'[d] = after[d] /\ truth'[d] = truth[d]
                                 /\ newly'[d] = newly[d] /\ entry'[d] = entry[d],
           DOMAIN before' = Call, DOMAIN after' = Call, DOMAIN truth' = Call,
           DOMAIN newly' = Call, DOMAIN entry' = Call, Typed(c)',
           entry'[c] = [undo |-> entry'[c].undo, rows |-> entry'[c].rows,
                        snapshot |-> entry'[c].snapshot, status |-> entry'[c].status],
           (\E x, w : Grows(w) /\ Writes!Becomes(x, w)) \/ (UNCHANGED <<world, byUser>> /\ DOMAIN late' = Call)
    PROVE  Writes!TypeOK' /\ Shape' /\ Unborn'
<1>1. world' \in [Row -> Writes!RowState] /\ Unborn' /\ DOMAIN late' = Call
    <2>1. CASE UNCHANGED <<world, byUser>> /\ DOMAIN late' = Call
        BY <2>1 DEF WInv, Unborn, Writes!TypeOK
    <2> QED
        BY <2>1, BecomesTyped
<1>2. \A d \in Call : Typed(d)'
    BY TypeParts DEF WInv, Typed
<1>3. Writes!TypeOK'
    BY <1>1, <1>2 DEF Writes!TypeOK, Labels, Counters, Typed
<1>4. Shape'
    BY <1>1 DEF WInv, Shape, Labels
<1> QED
    BY <1>1, <1>3, <1>4

\* A failure is counted.
LEMMA FaultCounted ==
    ASSUME WInv, Writes!Fault \/ UNCHANGED faults, UNCHANGED edits
    PROVE  Counters'
<1>1. faults \in 0..MaxWriteFaults /\ MaxWriteFaults \in Nat /\ edits \in 0..MaxEdits
    BY WritesAssumption DEF WInv, Writes!TypeOK
<1> QED
    BY <1>1 DEF Counters, Writes!Fault

\* The types and the shape of an entry.
EntryTyped(e) ==
    /\ e = [undo |-> e.undo, rows |-> e.rows, snapshot |-> e.snapshot, status |-> e.status]
    /\ e.undo \in {"none", "restore", "delete", "recreate"}
    /\ e.status \in {"missing", "open", "submitted", "undone"}
    /\ DOMAIN e.rows \subseteq DOMAIN e.snapshot

WTyped == Writes!TypeOK /\ Shape /\ Unborn
YnabMoves == (\E x, w : Grows(w) /\ Writes!Becomes(x, w)) \/ (UNCHANGED <<world, byUser>> /\ DOMAIN late' = Call)

\* A step of a call replaces what is the call's own by values of their types.
LEMMA MoveTyped ==
    ASSUME WInv, NEW c \in Call, Labels', Counters', YnabMoves,
           before' = before \/ \E b : /\ before' = [before EXCEPT ![c] = b]
                                      /\ Writes!AreRows(b) /\ DOMAIN before[c] \subseteq DOMAIN b,
           after' = after \/ \E b : Writes!AreRows(b) /\ after' = [after EXCEPT ![c] = b],
           truth' = truth \/ \E b : Writes!AreRows(b) /\ truth' = [truth EXCEPT ![c] = b],
           newly' = newly \/ \E n : n \subseteq DOMAIN before[c] /\ newly' = [newly EXCEPT ![c] = n],
           entry' = entry \/ \E e : EntryTyped(e) /\ entry' = [entry EXCEPT ![c] = e]
    PROVE  WTyped'
<1>1. Typed(c) /\ Shape
    BY TypeParts DEF WInv
<1>2. /\ DOMAIN before' = Call /\ \A d \in Call \ {c} : before'[d] = before[d]
      /\ Writes!AreRows(before'[c]) /\ DOMAIN before[c] \subseteq DOMAIN before'[c]
    BY <1>1 DEF Shape, Typed
<1>3. DOMAIN after' = Call /\ (\A d \in Call \ {c} : after'[d] = after[d]) /\ Writes!AreRows(after'[c])
    BY <1>1 DEF Shape, Typed
<1>4. DOMAIN truth' = Call /\ (\A d \in Call \ {c} : truth'[d] = truth[d]) /\ Writes!AreRows(truth'[c])
    BY <1>1 DEF Shape, Typed
<1>5. DOMAIN newly' = Call /\ (\A d \in Call \ {c} : newly'[d] = newly[d]) /\ newly'[c] \subseteq DOMAIN before[c]
    BY <1>1 DEF Shape, Typed
<1>6. DOMAIN entry' = Call /\ (\A d \in Call \ {c} : entry'[d] = entry[d]) /\ EntryTyped(entry'[c])
    BY <1>1 DEF Shape, Typed, EntryTyped
<1>7. Typed(c)'
    BY <1>2, <1>3, <1>4, <1>5, <1>6 DEF Typed, EntryTyped, Writes!AreRows
<1>8. entry'[c] = [undo |-> entry'[c].undo, rows |-> entry'[c].rows,
                   snapshot |-> entry'[c].snapshot, status |-> entry'[c].status]
    BY <1>6 DEF EntryTyped
<1> QED
    BY <1>2, <1>3, <1>4, <1>5, <1>6, <1>7, <1>8, StepTyped DEF WTyped, YnabMoves

\* What a call's next label has to be.
LEMMA LabelsMove ==
    ASSUME WInv, NEW c \in Call, NEW R \in SUBSET Row,
           at' = at \/ \E l \in {"idle", "read", "write", "verify", "record", "ok", "error"} : at' = [at EXCEPT ![c] = l],
           upc' = upc \/ \E l \in {"idle", "check", "send", "verify", "complete", "ended"} : upc' = [upc EXCEPT ![c] = l],
           todo' = todo \/ todo' = [todo EXCEPT ![c] = R], utodo' = utodo \/ utodo' = [utodo EXCEPT ![c] = R]
    PROVE  Labels'
<1>1. Labels
    BY TypeParts DEF WInv
<1>2. at' \in [Call -> {"idle", "read", "write", "verify", "record", "ok", "error"}]
    BY <1>1 DEF Labels
<1>3. upc' \in [Call -> {"idle", "check", "send", "verify", "complete", "ended"}]
    BY <1>1 DEF Labels
<1>4. todo' \in [Call -> SUBSET Row]
    BY <1>1 DEF Labels
<1>5. utodo' \in [Call -> SUBSET Row]
    BY <1>1 DEF Labels
<1> QED
    BY <1>2, <1>3, <1>4, <1>5 DEF Labels

\* Fields of rows that exist may be set, a row may be put that exists then.
LEMMA SetGrows ==
    ASSUME WInv, NEW sets, \A r \in DOMAIN sets \cap Row : Writes!Live(r),
           \A r \in DOMAIN sets \cap Row : \A f \in DOMAIN sets[r] \cap Field : sets[r][f] \in Value(f)
    PROVE  Grows(Writes!Set(world, sets))
<1>1. world \in [Row -> Writes!RowState]
    BY DEF WInv, Writes!TypeOK
<1> QED
    BY <1>1, SetTyped DEF Grows, Writes!Live

\* A row is put that exists afterwards.
LEMMA PutGrows ==
    ASSUME WInv, NEW r \in Row, NEW s \in Writes!RowState, s.life # "absent"
    PROVE  Grows(Writes!Put(world, r, s))
<1>1. world \in [Row -> Writes!RowState]
    BY DEF WInv, Writes!TypeOK
<1> QED
    BY <1>1 DEF Grows, Writes!Put

\* A row whose life or whose field changes is a row.
LEMMA RowChanges ==
    ASSUME WInv, NEW r \in Row
    PROVE  /\ [world[r] EXCEPT !.life = "deleted"] \in Writes!RowState
           /\ [world[r] EXCEPT !.life = "deleted"].life = "deleted"
           /\ \A f \in Field : \A v \in Value(f) :
                 [world[r] EXCEPT !.val[f] = v] \in Writes!RowState
                 /\ [world[r] EXCEPT !.val[f] = v].life = world[r].life
<1>1. world[r] \in Writes!RowState
    BY DEF WInv, Writes!TypeOK
<1>2. ASSUME NEW f \in Field, NEW v \in Value(f)
      PROVE  [world[r] EXCEPT !.val[f] = v] \in Writes!RowState
             /\ [world[r] EXCEPT !.val[f] = v].life = world[r].life
    <2> DEFINE u == [world[r].val EXCEPT ![f] = v]
    <2>1. world[r].val \in Writes!Values
        BY <1>1 DEF Writes!RowState
    <2>2. u = [g \in Field |-> u[g]] /\ \A g \in Field : u[g] \in Value(g)
        BY <2>1 DEF Writes!Values
    <2>3. [world[r] EXCEPT !.val[f] = v] = [world[r] EXCEPT !.val = u]
        BY <1>1 DEF Writes!RowState
    <2> HIDE DEF u
    <2>4. u \in Writes!Values
        BY <2>2, ValuesIntro
    <2> QED
        BY <1>1, <2>3, <2>4 DEF Writes!RowState
<1> QED
    BY <1>1, <1>2 DEF Writes!RowState

\* The rows of a call are rows.
LEMMA CallTypes ==
    ASSUME WInv, NEW c \in Call
    PROVE  /\ Typed(c) /\ Standing(c) /\ Journaled(c) /\ EntryTyped(entry[c])
           /\ world \in [Row -> Writes!RowState] /\ DOMAIN late = Call /\ todo[c] \in SUBSET Row /\ utodo[c] \in SUBSET Row
BY TypeParts DEF WInv, CallInv, Typed, EntryTyped, Shape, Labels

\* The steps of a call that leave YNAB alone.
LEMMA ReadingTyped ==
    ASSUME WInv, NEW c \in Call,
           Writes!Begin(c) \/ Writes!WriteFails(c) \/ \E r \in Row : Writes!ReadBefore(c, r) \/ Writes!Readback(c, r)
    PROVE  WTyped'
<1>1. UNCHANGED <<world, newly, entry, upc, utodo, truth, byUser, late, edits>>
    BY DEF Writes!Begin, Writes!WriteFails, Writes!ReadBefore, Writes!Readback, Writes!undo, Writes!past
<1>2. Counters'
    BY <1>1, FaultCounted DEF Writes!Begin, Writes!WriteFails, Writes!ReadBefore, Writes!Readback
<1>3. YnabMoves
    BY <1>1, CallTypes DEF YnabMoves
<1>4. CASE Writes!Begin(c)
    <2>1. Kind(c) = "update" => Writes!Rows(c) \in SUBSET Row
        BY CallConstants
    <2>2. UNCHANGED <<before, after>>
        BY <1>4 DEF Writes!Begin
    <2>3. \/ at' = [at EXCEPT ![c] = "read"] /\ todo' = [todo EXCEPT ![c] = Writes!Rows(c)] /\ Kind(c) = "update"
          \/ at' = [at EXCEPT ![c] = "write"] /\ todo' = todo
        BY <1>4 DEF Writes!Begin, Writes!Goto
    <2>4. Labels'
        BY <1>1, <2>1, <2>3, LabelsMove
    <2> QED
        BY <1>1, <1>2, <1>3, <2>2, <2>4, MoveTyped
<1>5. CASE Writes!WriteFails(c)
    <2>1. UNCHANGED <<todo, before, after>> /\ at' = [at EXCEPT ![c] = "error"]
        BY <1>5 DEF Writes!WriteFails, Writes!Goto
    <2>2. Labels'
        BY <1>1, <2>1, LabelsMove
    <2> QED
        BY <1>1, <1>2, <1>3, <2>1, <2>2, MoveTyped
<1>6. ASSUME NEW r \in Row, Writes!ReadBefore(c, r) PROVE WTyped'
    <2>1. /\ todo' = [todo EXCEPT ![c] = todo[c] \ {r}] /\ UNCHANGED after
          /\ at' = [at EXCEPT ![c] = IF todo[c] = {r} THEN "write" ELSE "read"]
          /\ before' = before \/ before' = [before EXCEPT ![c] = Writes!With(before[c], r, world[r])]
        BY <1>6 DEF Writes!ReadBefore, Writes!Goto
    <2>2. todo[c] \ {r} \in SUBSET Row
        BY CallTypes
    <2>3. Labels'
        BY <1>1, <2>1, <2>2, LabelsMove
    <2>4. /\ Writes!AreRows(Writes!With(before[c], r, world[r]))
          /\ DOMAIN before[c] \subseteq DOMAIN Writes!With(before[c], r, world[r])
        BY CallTypes, WithTyped DEF Typed
    <2> QED
        BY <1>1, <1>2, <1>3, <2>1, <2>3, <2>4, MoveTyped
<1>7. ASSUME NEW r \in Row, Writes!Readback(c, r) PROVE WTyped'
    <2>1. /\ todo' = todo \/ todo' = [todo EXCEPT ![c] = todo[c] \ {r}]
          /\ \E l \in {"record", "verify", "error", "ok"} : at' = [at EXCEPT ![c] = l]
          /\ after' = after \/ after' = [after EXCEPT ![c] = Writes!With(after[c], r, world[r])]
          /\ UNCHANGED before
        BY <1>7 DEF Writes!Readback, Writes!Goto
    <2>2. todo[c] \ {r} \in SUBSET Row
        BY CallTypes
    <2>3. Labels'
        <3>1. PICK l \in {"record", "verify", "error", "ok"} : at' = [at EXCEPT ![c] = l]
            BY <2>1
        <3> QED
            BY <1>1, <2>1, <2>2, <3>1, LabelsMove
    <2>4. Writes!AreRows(Writes!With(after[c], r, world[r]))
        BY CallTypes, WithTyped DEF Typed
    <2> QED
        BY <1>1, <1>2, <1>3, <2>1, <2>3, <2>4, MoveTyped
<1> QED
    BY <1>4, <1>5, <1>6, <1>7

\* What YNAB carries out keeps the types.
LEMMA CarriesTyped ==
    ASSUME WInv, NEW c \in Call, NEW w, NEW R \in SUBSET Row, Grows(w), Writes!Becomes(c, w),
           truth' = [truth EXCEPT ![c] = Writes!Restrict(world, R)],
           \E l \in {"verify", "error"} : at' = [at EXCEPT ![c] = l],
           todo' = todo \/ todo' = [todo EXCEPT ![c] = R],
           before' = before \/ \E b : /\ before' = [before EXCEPT ![c] = b]
                                      /\ Writes!AreRows(b) /\ DOMAIN before[c] \subseteq DOMAIN b,
           Writes!Fault \/ UNCHANGED faults, UNCHANGED <<after, newly, entry, upc, utodo, edits>>
    PROVE  WTyped'
<1>1. Counters' /\ Labels'
    BY FaultCounted, LabelsMove
<1>2. YnabMoves
    BY DEF YnabMoves
<1>3. Writes!AreRows(Writes!Restrict(world, R))
    BY CallTypes DEF Writes!AreRows, Writes!Restrict
<1> QED
    BY <1>1, <1>2, <1>3, MoveTyped

\* A request of a call that YNAB carries out.
LEMMA WritingTyped ==
    ASSUME WInv, NEW c \in Call, Writes!WriteUpdate(c) \/ Writes!WriteCreate(c) \/ Writes!WriteDelete(c)
    PROVE  WTyped'
<1>1. UNCHANGED <<after, newly, entry, upc, utodo, edits>>
    BY DEF Writes!WriteUpdate, Writes!WriteCreate, Writes!WriteDelete, Writes!undo
<1>2. ASSUME NEW w, NEW R \in SUBSET Row, Grows(w), NEW b, Writes!AreRows(b), DOMAIN before[c] \subseteq DOMAIN b,
             Writes!Carries(c, w, R, b)
      PROVE  WTyped'
    <2>1. /\ Writes!Becomes(c, w) /\ truth' = [truth EXCEPT ![c] = Writes!Restrict(world, R)]
          /\ \E l \in {"verify", "error"} : at' = [at EXCEPT ![c] = l]
          /\ todo' = todo \/ todo' = [todo EXCEPT ![c] = R]
          /\ before' = before \/ before' = [before EXCEPT ![c] = b]
          /\ Writes!Fault \/ UNCHANGED faults
        BY <1>2 DEF Writes!Carries, Writes!Goto
    <2>2. before' = before \/ \E x : /\ before' = [before EXCEPT ![c] = x]
                                     /\ Writes!AreRows(x) /\ DOMAIN before[c] \subseteq DOMAIN x
        BY <1>2, <2>1
    <2> QED
        BY <1>1, <1>2, <2>1, <2>2, CarriesTyped
<1>3. CASE Writes!WriteUpdate(c)
    <2>1. Kind(c) = "update" /\ Writes!Rows(c) = DOMAIN Req(c) /\ \A r \in Writes!Rows(c) : Writes!Live(r)
        BY <1>3, CallConstants DEF Writes!WriteUpdate
    <2>2. Writes!Rows(c) \in SUBSET Row
        BY <2>1, CallConstants
    <2>3. \A r \in DOMAIN Req(c) : \A f \in DOMAIN Req(c)[r] : Req(c)[r][f] \in Value(f)
        BY <2>1, WritesAssumption
    <2>4. Grows(Writes!Set(world, Req(c)))
        BY <2>1, <2>3, SetGrows
    <2>5. ASSUME NEW r PROVE Grows(Writes!Set(world, Writes!Restrict(Req(c), Writes!Rows(c) \ {r})))
        <3> DEFINE sets == Writes!Restrict(Req(c), Writes!Rows(c) \ {r})
        <3>1. DOMAIN sets = DOMAIN Req(c) \ {r} /\ \A x \in DOMAIN sets : sets[x] = Req(c)[x]
            BY <2>1 DEF Writes!Restrict
        <3> HIDE DEF sets
        <3>2. Grows(Writes!Set(world, sets))
            BY <2>1, <2>3, <3>1, SetGrows
        <3> QED
            BY <3>2 DEF sets
    <2>6. Writes!AreRows(before[c])
        BY CallTypes DEF Typed
    <2>7. CASE Writes!Carries(c, Writes!Set(world, Req(c)), Writes!Rows(c), before[c])
        BY <1>2, <2>2, <2>4, <2>6, <2>7
    <2>8. ASSUME NEW r, Writes!Fault, Writes!Goto(c, "verify"), todo' = [todo EXCEPT ![c] = Writes!Rows(c)],
                 Writes!Becomes(c, Writes!Set(world, Writes!Restrict(Req(c), Writes!Rows(c) \ {r}))),
                 truth' = [truth EXCEPT ![c] = Writes!Restrict(world, Writes!Rows(c))], UNCHANGED before
          PROVE  WTyped'
        <3>1. \E l \in {"verify", "error"} : at' = [at EXCEPT ![c] = l]
            BY <2>8 DEF Writes!Goto
        <3> QED
            BY <1>1, <2>2, <2>5, <2>8, <3>1, CarriesTyped
    <2> QED
        BY <1>3, <2>7, <2>8 DEF Writes!WriteUpdate
<1>4. CASE Writes!WriteCreate(c)
    <2> DEFINE s == [life |-> "live", val |-> Req(c)]
    <2>1. PICK r \in Row : Writes!Carries(c, Writes!Put(world, r, s), {r}, Writes!With(before[c], r, s))
        BY <1>4 DEF Writes!WriteCreate
    <2>2. s \in Writes!RowState /\ s.life # "absent"
        BY <1>4, WritesAssumption DEF Writes!WriteCreate, Writes!RowState
    <2> HIDE DEF s
    <2>3. Grows(Writes!Put(world, r, s))
        BY <2>2, PutGrows
    <2>4. Writes!AreRows(Writes!With(before[c], r, s)) /\ DOMAIN before[c] \subseteq DOMAIN Writes!With(before[c], r, s)
        BY <2>2, CallTypes, WithTyped DEF Typed
    <2> QED
        BY <1>2, <2>1, <2>3, <2>4
<1>5. CASE Writes!WriteDelete(c)
    <2> DEFINE r == Req(c)
               s == [world[r] EXCEPT !.life = "deleted"]
    <2>1. Writes!Carries(c, Writes!Put(world, r, s), {r}, Writes!With(before[c], r, world[r])) /\ r \in Row
        BY <1>5, CallConstants DEF Writes!WriteDelete
    <2>2. s \in Writes!RowState /\ s.life # "absent" /\ world[r] \in Writes!RowState
        BY <2>1, RowChanges, CallTypes
    <2> HIDE DEF s, r
    <2>3. Grows(Writes!Put(world, r, s))
        BY <2>1, <2>2, PutGrows
    <2>4. /\ Writes!AreRows(Writes!With(before[c], r, world[r]))
          /\ DOMAIN before[c] \subseteq DOMAIN Writes!With(before[c], r, world[r])
        BY <2>1, <2>2, CallTypes, WithTyped DEF Typed
    <2> QED
        BY <1>2, <2>1, <2>3, <2>4
<1> QED
    BY <1>3, <1>4, <1>5

\* Recording a call: its entry is of what it has read.
LEMMA RecordTyped ==
    ASSUME WInv, NEW c \in Call, Writes!Record(c)
    PROVE  WTyped'
<1>1. /\ UNCHANGED <<world, todo, before, after, upc, utodo, truth, byUser, late, edits>>
      /\ \E l \in {"ok", "error"} : at' = [at EXCEPT ![c] = l]
      /\ entry' = entry \/ entry' = [entry EXCEPT ![c] = Writes!Entry(c)]
      /\ newly' = newly \/ newly' = [newly EXCEPT ![c] = IF Kind(c) = "update" THEN Writes!Newly(c) ELSE {}]
      /\ Writes!Fault \/ UNCHANGED faults
    BY DEF Writes!Record, Writes!Goto, Writes!undo, Writes!past
<1>2. Counters' /\ Labels' /\ YnabMoves
    BY <1>1, FaultCounted, LabelsMove, CallTypes DEF YnabMoves
<1>3. (IF Kind(c) = "update" THEN Writes!Newly(c) ELSE {}) \subseteq DOMAIN before[c]
    BY DEF Writes!Newly
<1>4. Writes!UndoOf(c) \in {"none", "restore", "delete", "recreate"}
    BY CallConstants DEF Writes!UndoOf
<1>5. DOMAIN Writes!Entry(c).rows \subseteq DOMAIN Writes!Entry(c).snapshot
    BY DEF Writes!Entry, Writes!Reversible, Writes!Nothing
<1>6. EntryTyped(Writes!Entry(c))
    BY <1>4, <1>5 DEF EntryTyped, Writes!Entry
<1> QED
    BY <1>1, <1>2, <1>3, <1>6, MoveTyped

\* The steps of an undo that leave YNAB alone.
LEMMA UndoingTyped ==
    ASSUME WInv, NEW c \in Call,
           \/ Writes!UBegin(c) \/ Writes!UClaim(c) \/ Writes!UVerify(c) \/ Writes!UComplete(c)
           \/ \E r \in Row : Writes!UCheck(c, r)
    PROVE  WTyped'
<1>1. /\ UNCHANGED <<world, at, todo, before, after, newly, truth, byUser, edits>>
      /\ Writes!Fault \/ UNCHANGED faults
      /\ late' = late \/ late' = [late EXCEPT ![c] = {}]
      /\ upc' = upc \/ \E l \in {"idle", "check", "send", "complete", "ended"} : upc' = [upc EXCEPT ![c] = l]
      /\ entry' = entry \/ \E s \in {"submitted", "undone"} : entry' = [entry EXCEPT ![c].status = s]
    BY DEF Writes!UBegin, Writes!UClaim, Writes!UVerify, Writes!UComplete, Writes!UCheck, Writes!UGoto,
           Writes!call, Writes!past
<1>2. utodo' = utodo \/ \E R \in SUBSET Row : utodo' = [utodo EXCEPT ![c] = R]
    <2>1. CASE Writes!UBegin(c)
        <3>1. utodo' = [utodo EXCEPT ![c] = DOMAIN entry[c].snapshot] /\ entry[c].status = "open"
            BY <2>1 DEF Writes!UBegin
        <3>2. DOMAIN entry[c].snapshot \in SUBSET Row
            BY <3>1, CallTypes DEF Typed, Journaled, Writes!AreRows
        <3> QED
            BY <3>1, <3>2
    <2>2. ASSUME NEW r \in Row, Writes!UCheck(c, r)
          PROVE  \E R \in SUBSET Row : utodo' = [utodo EXCEPT ![c] = R]
        <3>1. utodo' = [utodo EXCEPT ![c] = utodo[c] \ {r}] \/ utodo' = [utodo EXCEPT ![c] = {}]
            BY <2>2 DEF Writes!UCheck
        <3> QED
            BY <3>1, CallTypes
    <2> QED
        BY <2>1, <2>2 DEF Writes!UClaim, Writes!UVerify, Writes!UComplete
<1>3. Labels'
    <2>1. PICK R \in SUBSET Row : utodo' = utodo \/ utodo' = [utodo EXCEPT ![c] = R]
        BY <1>2
    <2>2. PICK l \in {"idle", "check", "send", "complete", "ended"} : upc' = upc \/ upc' = [upc EXCEPT ![c] = l]
        BY <1>1
    <2> QED
        BY <1>1, <2>1, <2>2, LabelsMove
<1>4. Counters' /\ YnabMoves
    BY <1>1, FaultCounted, CallTypes DEF YnabMoves
<1>5. ASSUME NEW s \in {"submitted", "undone"}, entry' = [entry EXCEPT ![c].status = s]
      PROVE  \E e : EntryTyped(e) /\ entry' = [entry EXCEPT ![c] = e]
    <2> DEFINE e == [entry[c] EXCEPT !.status = s]
    <2>1. EntryTyped(e)
        <3>1. /\ entry[c] = [undo |-> entry[c].undo, rows |-> entry[c].rows,
                             snapshot |-> entry[c].snapshot, status |-> entry[c].status]
              /\ entry[c].undo \in {"none", "restore", "delete", "recreate"}
              /\ DOMAIN entry[c].rows \subseteq DOMAIN entry[c].snapshot
            BY CallTypes DEF EntryTyped
        <3>2. e = [undo |-> entry[c].undo, rows |-> entry[c].rows,
                   snapshot |-> entry[c].snapshot, status |-> s]
            BY <3>1
        <3> HIDE DEF e
        <3> QED
            BY <3>1, <3>2 DEF EntryTyped
    <2>2. entry' = [entry EXCEPT ![c] = e]
        BY <1>5
    <2> HIDE DEF e
    <2> QED
        BY <2>1, <2>2
<1>6. entry' = entry \/ \E e : EntryTyped(e) /\ entry' = [entry EXCEPT ![c] = e]
    BY <1>1, <1>5
<1> QED
    BY <1>1, <1>3, <1>4, <1>6, MoveTyped

\* What the undo sends are values of rows.
LEMMA USendTyped ==
    ASSUME WInv, NEW c \in Call, Writes!USend(c)
    PROVE  WTyped'
<1>1. UNCHANGED <<at, todo, before, after, newly, entry, utodo, truth, edits>> /\ upc[c] = "send"
    BY DEF Writes!USend, Writes!call
<1>2. entry[c].status # "missing" /\ entry[c].undo = Writes!UndoOf(c)
    BY <1>1, CallTypes DEF Standing, Journaled
<1>3. ASSUME (\E w : Grows(w) /\ Writes!Becomes(c, w)) \/ UNCHANGED <<world, disturbed, byUser, late>>,
             NEW l \in {"verify", "complete", "ended"}, upc' = [upc EXCEPT ![c] = l],
             Writes!Fault \/ UNCHANGED faults
      PROVE  WTyped'
    <2>1. YnabMoves
        BY <1>3, CallTypes DEF YnabMoves
    <2>2. Counters' /\ Labels'
        BY <1>1, <1>3, FaultCounted, LabelsMove
    <2> QED
        BY <1>1, <2>1, <2>2, MoveTyped
<1>4. ASSUME NEW w, Grows(w), NEW l \in {"verify", "complete"}, Writes!USends(c, w, l) PROVE WTyped'
    <2>1. PICK k \in {"verify", "complete", "ended"} : upc' = [upc EXCEPT ![c] = k]
        BY <1>4 DEF Writes!USends, Writes!UGoto
    <2>2. /\ (\E x : Grows(x) /\ Writes!Becomes(c, x)) \/ UNCHANGED <<world, disturbed, byUser, late>>
          /\ Writes!Fault \/ UNCHANGED faults
        BY <1>4 DEF Writes!USends
    <2> QED
        BY <1>3, <2>1, <2>2
<1>5. ASSUME Writes!UGoto(c, "ended"), UNCHANGED <<world, disturbed, byUser, late, faults>> PROVE WTyped'
    BY <1>3, <1>5 DEF Writes!UGoto
<1>6. CASE entry[c].undo = "restore"
    <2>1. Kind(c) = "update"
        BY <1>2, <1>6, CallConstants DEF Writes!UndoOf
    <2>2. \A r \in DOMAIN entry[c].rows \cap Row : \A f \in DOMAIN entry[c].rows[r] \cap Field :
              entry[c].rows[r][f] \in Value(f)
        <3> SUFFICES ASSUME NEW r \in DOMAIN entry[c].rows \cap Row, NEW f \in DOMAIN entry[c].rows[r] \cap Field
                     PROVE  entry[c].rows[r][f] \in Value(f)
            OBVIOUS
        <3>1. entry[c].rows[r][f] = before[c][r].val[f] /\ r \in DOMAIN before[c]
            BY <1>2, <2>1, Restores
        <3>2. before[c][r] \in Writes!RowState
            BY <3>1, CallTypes DEF Typed, Writes!AreRows
        <3> QED
            BY <3>1, <3>2 DEF Writes!RowState, Writes!Values
    <2>3. \/ /\ \A r \in DOMAIN entry[c].rows : Writes!Live(r)
             /\ Writes!USends(c, Writes!Set(world, entry[c].rows), "verify")
          \/ Writes!UGoto(c, "ended") /\ UNCHANGED <<world, disturbed, byUser, late, faults>>
        BY <1>6 DEF Writes!USend
    <2>4. (\A r \in DOMAIN entry[c].rows : Writes!Live(r)) => Grows(Writes!Set(world, entry[c].rows))
        BY <2>2, SetGrows
    <2> QED
        BY <1>4, <1>5, <2>3, <2>4
<1>7. CASE entry[c].undo = "delete"
    <2>1. PICK r \in DOMAIN entry[c].snapshot :
            \/ Writes!USends(c, Writes!Put(world, r, [world[r] EXCEPT !.life = "deleted"]), "complete")
            \/ Writes!UGoto(c, "ended") /\ UNCHANGED <<world, disturbed, byUser, late, faults>>
        BY <1>7 DEF Writes!USend
    <2>2. r \in Row
        BY <1>2, CallTypes DEF Typed, Journaled, Writes!AreRows
    <2> DEFINE s == [world[r] EXCEPT !.life = "deleted"]
    <2>3. s \in Writes!RowState /\ s.life # "absent"
        BY <2>2, RowChanges
    <2>4. \/ Writes!USends(c, Writes!Put(world, r, s), "complete")
          \/ Writes!UGoto(c, "ended") /\ UNCHANGED <<world, disturbed, byUser, late, faults>>
        BY <2>1
    <2> HIDE DEF s
    <2>5. Grows(Writes!Put(world, r, s))
        BY <2>2, <2>3, PutGrows
    <2> QED
        BY <1>4, <1>5, <2>4, <2>5
<1>8. CASE entry[c].undo = "recreate"
    <2>1. Kind(c) = "delete" /\ Req(c) \in DOMAIN before[c]
        <3>1. Kind(c) = "delete"
            BY <1>2, <1>8, CallConstants DEF Writes!UndoOf
        <3> QED
            BY <1>2, <3>1, CallTypes DEF Standing, Made
    <2> DEFINE s == [life |-> "live", val |-> before[c][Req(c)].val]
    <2>2. PICK r \in Row : Writes!USends(c, Writes!Put(world, r, s), "complete")
        BY <1>8 DEF Writes!USend
    <2>3. before[c][Req(c)] \in Writes!RowState
        BY <2>1, CallTypes DEF Typed, Writes!AreRows
    <2>4. s \in Writes!RowState /\ s.life # "absent"
        BY <2>3 DEF Writes!RowState
    <2> HIDE DEF s
    <2>5. Grows(Writes!Put(world, r, s))
        BY <2>4, PutGrows
    <2> QED
        BY <1>4, <2>2, <2>5
<1> QED
    BY <1>6, <1>7, <1>8 DEF Writes!USend

\* The user's steps, with or without a call to notice them.
LEMMA UserTyped ==
    ASSUME WInv, NEW r \in Row, Writes!Remove(r) \/ \E f \in Field : \E v \in Value(f) : Writes!Edit(r, f, v)
    PROVE  WTyped' /\ \A c \in Call : CallInv(c)'
<1>1. /\ UNCHANGED <<at, todo, before, after, newly, entry, upc, utodo, truth, faults>>
      /\ edits < MaxEdits /\ edits' = edits + 1 /\ Writes!Live(r)
    BY DEF Writes!Remove, Writes!Edit, Writes!call, Writes!undo
<1>2. \E w : Grows(w) /\ Writes!Becomes("user", w)
    <2>1. CASE Writes!Remove(r)
        <3> DEFINE s == [world[r] EXCEPT !.life = "deleted"]
        <3>1. Writes!Becomes("user", Writes!Put(world, r, s))
            BY <2>1 DEF Writes!Remove
        <3>2. s \in Writes!RowState /\ s.life # "absent"
            BY RowChanges
        <3> HIDE DEF s
        <3> QED
            BY <3>1, <3>2, PutGrows
    <2>2. ASSUME NEW f \in Field, NEW v \in Value(f), Writes!Edit(r, f, v)
          PROVE  \E w : Grows(w) /\ Writes!Becomes("user", w)
        <3> DEFINE s == [world[r] EXCEPT !.val[f] = v]
        <3>1. Writes!Becomes("user", Writes!Put(world, r, s))
            BY <2>2 DEF Writes!Edit
        <3>2. s \in Writes!RowState /\ s.life # "absent"
            BY <1>1, RowChanges DEF Writes!Live
        <3> HIDE DEF s
        <3> QED
            BY <3>1, <3>2, PutGrows
    <2> QED
        BY <2>1, <2>2
<1>3. PICK w : Grows(w) /\ Writes!Becomes("user", w)
    BY <1>2
<1>4. \A c \in Call : CallInv(c)'
    BY <1>1, <1>3, UserKeeps
<1>5. world' \in [Row -> Writes!RowState] /\ Unborn' /\ DOMAIN late' = Call
    BY <1>3, BecomesTyped
<1>6. Counters'
    <2>1. faults \in 0..MaxWriteFaults /\ edits \in 0..MaxEdits /\ MaxEdits \in Nat
        BY WritesAssumption DEF WInv, Writes!TypeOK
    <2> QED
        BY <1>1, <2>1 DEF Counters
<1>7. Labels' /\ (\A c \in Call : Typed(c)') /\ Shape'
    BY <1>1, <1>5, TypeParts DEF WInv, Labels, Typed, Shape
<1>8. Writes!TypeOK'
    BY <1>5, <1>6, <1>7 DEF Writes!TypeOK, Labels, Counters, Typed
<1> QED
    BY <1>4, <1>5, <1>7, <1>8 DEF WTyped

-----------------------------------------------------------------------------
(* The invariant of the writes.                                              *)

\* A call that has not begun has nothing to answer for.
LEMMA WritesBegin == Writes!Init => WInv
<1> SUFFICES ASSUME Writes!Init PROVE WInv
    OBVIOUS
<1>1. Writes!TypeOK
    BY WritesAssumption DEF Writes!Init, Writes!TypeOK, Writes!AreRows, Writes!Nothing, Writes!NoEntry
<1>2. Shape /\ Unborn
    BY DEF Writes!Init, Shape, Unborn, Writes!NoEntry
<1>3. ASSUME NEW c \in Call PROVE CallInv(c)
    <2>1. /\ at[c] = "idle" /\ upc[c] = "idle" /\ entry[c].status = "missing" /\ ~Made(c)
          /\ DOMAIN before[c] = {} /\ DOMAIN after[c] = {}
        BY DEF Writes!Init, Writes!Nothing, Writes!NoEntry, Made
    <2> QED
        BY <2>1 DEF CallInv, Standing, Journaled, Replaced, ReadBack, Reported, Restored, Compared
<1> QED
    BY <1>1, <1>2, <1>3 DEF WInv

\* One step per group of actions: types first, then the invariant of every call.
LEMMA WritesStep == WInv /\ [Writes!Next]_(Writes!vars) => WInv'
<1> SUFFICES ASSUME WInv, [Writes!Next]_(Writes!vars) PROVE WInv'
    OBVIOUS
<1>1. ASSUME NEW r \in Row, Writes!Remove(r) \/ \E f \in Field : \E v \in Value(f) : Writes!Edit(r, f, v)
      PROVE  WInv'
    BY <1>1, UserTyped DEF WInv, WTyped
<1>2. ASSUME NEW c \in Call, Writes!Begin(c) \/ Writes!WriteFails(c)
             \/ \E r \in Row : Writes!ReadBefore(c, r) \/ Writes!Readback(c, r)
      PROVE  WInv'
    BY <1>2, ReadingTyped, BeginKeeps, WriteFailsKeeps, ReadBeforeKeeps, ReadbackKeeps DEF WInv, WTyped
<1>3. ASSUME NEW c \in Call, Writes!WriteUpdate(c) \/ Writes!WriteCreate(c) \/ Writes!WriteDelete(c)
      PROVE  WInv'
    BY <1>3, WritingTyped, WriteUpdateKeeps, WriteRowKeeps DEF WInv, WTyped
<1>4. ASSUME NEW c \in Call, Writes!Record(c) PROVE WInv'
    BY <1>4, RecordTyped, RecordKeeps DEF WInv, WTyped
<1>5. ASSUME NEW c \in Call, \/ Writes!UBegin(c) \/ Writes!UClaim(c) \/ Writes!UVerify(c) \/ Writes!UComplete(c)
                             \/ \E r \in Row : Writes!UCheck(c, r)
      PROVE  WInv'
    BY <1>5, UndoingTyped, UBeginKeeps, UClaimKeeps, UEndKeeps, UCheckKeeps DEF WInv, WTyped
<1>6. ASSUME NEW c \in Call, Writes!USend(c) PROVE WInv'
    BY <1>6, USendTyped, USendKeeps DEF WInv, WTyped
<1>7. CASE UNCHANGED Writes!vars
    <2>1. UNCHANGED <<world, at, todo, before, after, newly, entry, upc, utodo, edits, faults,
                      truth, disturbed, byUser, late>>
        BY <1>7 DEF Writes!vars, Writes!call, Writes!undo, Writes!past
    <2>2. \A c \in Call : CallInv(c)'
        BY <2>1, NoticedKeeps, QuietNoticed DEF Unmoved
    <2>3. Writes!TypeOK' /\ Shape' /\ Unborn'
        BY <2>1 DEF WInv, Writes!TypeOK, Shape, Unborn
    <2> QED
        BY <2>2, <2>3 DEF WInv
<1>8. CASE Writes!Next
    BY <1>1, <1>2, <1>3, <1>4, <1>5, <1>6, <1>8 DEF Writes!Next
<1> QED
    BY <1>7, <1>8

-----------------------------------------------------------------------------
(* The properties.                                                           *)

\* What is restored is what the write had replaced, because the write had read it.
LEMMA RestoresTrue == WInv => Writes!UndoRestores
<1> SUFFICES ASSUME WInv, NEW c \in Call, entry[c].status = "undone", Kind(c) = "update",
                    NEW r \in DOMAIN entry[c].rows, NEW f \in Field, <<r, f>> \notin disturbed[c]
             PROVE  world[r].val[f] = truth[c][r].val[f]
    BY DEF Writes!UndoRestores
<1>1. CallInv(c) /\ Made(c) /\ Undisturbed(c, r, f)
    BY DEF WInv, Made, Undisturbed
<1>2. r \in DOMAIN before[c]
    BY Restores
<1>3. before[c][r].val[f] = truth[c][r].val[f]
    BY <1>1, <1>2 DEF CallInv, Replaced
<1>4. CASE f \in DOMAIN Req(c)[r]
    BY <1>1, <1>3, <1>4 DEF CallInv, Restored
<1>5. CASE f \notin DOMAIN Req(c)[r]
    BY <1>1, <1>2, <1>5 DEF CallInv, Replaced
<1> QED
    BY <1>4, <1>5

\* What is reported was read back, and what was newly approved had been read before.
LEMMA ReportsTrue == WInv => Writes!ReportIsTrue
<1> SUFFICES ASSUME WInv, NEW c \in Call, at[c] = "ok", Kind(c) = "update"
             PROVE  Writes!SuccessIsTrue(c) /\ Writes!NewlyIsTrue(c)
    BY DEF Writes!ReportIsTrue
<1>1. /\ CallInv(c) /\ Made(c)
      /\ DOMAIN Req(c) \subseteq DOMAIN after[c] /\ DOMAIN before[c] \subseteq DOMAIN Req(c)
      /\ newly[c] = Writes!Newly(c) /\ Approved \in Field
      /\ \A r \in DOMAIN Req(c) : \A f \in DOMAIN Req(c)[r] : f \in Field /\ after[c][r].val[f] = Req(c)[r][f]
    BY CallConstants, WritesAssumption DEF WInv, CallInv, Made, Standing, Reported, Writes!AsRequested
<1>2. Writes!SuccessIsTrue(c)
    <2> SUFFICES ASSUME upc[c] \in {"idle", "check"}, NEW r \in DOMAIN before[c], NEW f \in DOMAIN Req(c)[r],
                        <<r, f>> \notin disturbed[c]
                 PROVE  world[r].val[f] = Req(c)[r][f]
        BY DEF Writes!SuccessIsTrue
    <2>1. r \in DOMAIN Req(c) /\ r \in DOMAIN after[c] /\ f \in Field /\ Undisturbed(c, r, f)
        BY <1>1 DEF Undisturbed
    <2>2. world[r].val[f] = after[c][r].val[f]
        BY <1>1, <2>1 DEF CallInv, ReadBack
    <2> QED
        BY <1>1, <2>1, <2>2
<1>3. Writes!NewlyIsTrue(c)
    <2> SUFFICES ASSUME NEW r \in DOMAIN before[c], <<r, Approved>> \notin disturbed[c]
                 PROVE  r \in newly[c] <=> truth[c][r].val[Approved] # 1 /\ Approved \in DOMAIN Req(c)[r]
                                           /\ Req(c)[r][Approved] = 1
        BY DEF Writes!NewlyIsTrue
    <2>1. /\ r \in DOMAIN Req(c) /\ r \in DOMAIN after[c] /\ Undisturbed(c, r, Approved)
          /\ r \in newly[c] <=> after[c][r].val[Approved] = 1 /\ before[c][r].val[Approved] # 1
        BY <1>1 DEF Undisturbed, Writes!Newly
    <2>2. before[c][r].val[Approved] = truth[c][r].val[Approved]
        BY <1>1, <2>1 DEF CallInv, Replaced
    <2>3. Approved \notin DOMAIN Req(c)[r] => after[c][r].val[Approved] = truth[c][r].val[Approved]
        BY <1>1, <2>1 DEF CallInv, ReadBack
    <2> QED
        BY <1>1, <2>1, <2>2, <2>3
<1> QED
    BY <1>2, <1>3

\* Only its request takes an undo from "send".
LEMMA OnlySends ==
    ASSUME WInv, [Writes!Next]_(Writes!vars), NEW c \in Call, upc[c] = "send", upc'[c] # "send"
    PROVE  Writes!USend(c)
<1>1. DOMAIN upc = Call
    BY DEF WInv, Shape
<1>2. ASSUME NEW d \in Call, \/ Writes!UBegin(d) \/ Writes!UClaim(d) \/ Writes!UVerify(d) \/ Writes!UComplete(d)
                             \/ \E r \in Row : Writes!UCheck(d, r)
      PROVE  FALSE
    <2>1. upc[d] # "send" /\ (upc' = upc \/ \E l : upc' = [upc EXCEPT ![d] = l])
        BY <1>2 DEF Writes!UBegin, Writes!UClaim, Writes!UVerify, Writes!UComplete, Writes!UCheck, Writes!UGoto
    <2> QED
        BY <1>1, <2>1
<1>3. ASSUME NEW d \in Call, Writes!USend(d) PROVE d = c
    <2>1. \E l : upc' = [upc EXCEPT ![d] = l]
        BY <1>3 DEF Writes!USend, Writes!USends, Writes!UGoto
    <2> QED
        BY <1>1, <2>1
<1>4. ASSUME UNCHANGED upc PROVE FALSE
    BY <1>4
<1>5. ASSUME NEW d \in Call, \/ Writes!Begin(d) \/ Writes!WriteFails(d) \/ Writes!WriteUpdate(d)
                             \/ Writes!WriteCreate(d) \/ Writes!WriteDelete(d) \/ Writes!Record(d)
                             \/ \E r \in Row : Writes!ReadBefore(d, r) \/ Writes!Readback(d, r)
      PROVE  FALSE
    BY <1>4, <1>5 DEF Writes!Begin, Writes!WriteFails, Writes!WriteUpdate, Writes!WriteCreate, Writes!WriteDelete,
                 Writes!Record, Writes!ReadBefore, Writes!Readback, Writes!undo
<1>6. ASSUME NEW r \in Row, Writes!Remove(r) \/ \E f \in Field : \E v \in Value(f) : Writes!Edit(r, f, v)
      PROVE  FALSE
    BY <1>4, <1>6 DEF Writes!Remove, Writes!Edit, Writes!undo
<1>7. CASE UNCHANGED Writes!vars
    BY <1>4, <1>7 DEF Writes!vars, Writes!undo
<1> QED
    BY <1>2, <1>3, <1>5, <1>6, <1>7 DEF Writes!Next

\* An undo that is sent changes what the user set last only where that is what
\* the write had set, or after it was compared.
LEMMA EditsKept ==
    ASSUME WInv, [Writes!Next]_(Writes!vars)
    PROVE  Writes!EditsSurviveStep
<1> SUFFICES ASSUME NEW c \in Call, upc[c] = "send", upc'[c] # "send",
                    NEW p \in Writes!Changed(world, world'), p \in byUser, p \notin late[c]
             PROVE  Writes!Wrote(c, p[1], p[2])
    BY DEF Writes!EditsSurviveStep
<1>1. Writes!USend(c)
    BY OnlySends
<1>2. PICK r \in Row, f \in Field : p = <<r, f>>
    BY DEF Writes!Changed
<1>3. p[1] = r /\ p[2] = f /\ (world[r].life # world'[r].life \/ world[r].val[f] # world'[r].val[f])
    BY <1>2 DEF Writes!Changed
<1>4. /\ entry[c].status # "missing" /\ entry[c].undo # "none" /\ utodo[c] = {}
      /\ entry[c].undo = Writes!UndoOf(c) /\ entry[c].snapshot = after[c] /\ CallInv(c)
      /\ world \in [Row -> Writes!RowState]
    BY CallTypes DEF WInv, Standing, Journaled
<1>5. entry[c].undo # "recreate" /\ r \in DOMAIN after[c] => world[r].val[f] = after[c][r].val[f]
    BY <1>2, <1>4 DEF CallInv, Compared
<1>6. ASSUME NEW w, NEW l, Writes!USends(c, w, l) PROVE world' = w
    BY <1>3, <1>6 DEF Writes!USends, Writes!Becomes
<1>7. world' # world
    BY <1>3
<1>8. CASE entry[c].undo = "restore"
    <2>1. Kind(c) = "update"
        BY <1>4, <1>8, CallConstants DEF Writes!UndoOf
    <2>2. world' = Writes!Set(world, entry[c].rows)
        BY <1>1, <1>6, <1>7, <1>8 DEF Writes!USend
    <2>3. world'[r] = IF r \in DOMAIN entry[c].rows
                      THEN [world[r] EXCEPT !.val = Writes!Over(entry[c].rows[r], world[r].val)] ELSE world[r]
        BY <2>2 DEF Writes!Set
    <2>4. r \in DOMAIN entry[c].rows
        BY <1>3, <2>3
    <2>5. world'[r].life = world[r].life /\ world'[r].val = Writes!Over(entry[c].rows[r], world[r].val)
        BY <1>4, <2>3, <2>4 DEF Writes!RowState
    <2>6. f \in DOMAIN entry[c].rows[r]
        BY <1>3, <2>5 DEF Writes!Over
    <2>7. r \in DOMAIN after[c] /\ f \in DOMAIN Req(c)[r] /\ after[c][r].val[f] = Req(c)[r][f]
        BY <1>4, <2>1, <2>4, <2>6, Restores
    <2> QED
        BY <1>3, <1>5, <1>8, <2>1, <2>7 DEF Writes!Wrote
<1>9. CASE entry[c].undo = "delete"
    <2>1. Kind(c) = "create" /\ after[c] = before[c]
        BY <1>4, <1>9, CallConstants DEF Writes!UndoOf
    <2>2. PICK x \in DOMAIN after[c] : world' = Writes!Put(world, x, [world[x] EXCEPT !.life = "deleted"])
        BY <1>1, <1>4, <1>6, <1>7, <1>9 DEF Writes!USend
    <2>3. r = x
        BY <1>3, <2>2 DEF Writes!Put
    <2>4. before[c][r].val = Req(c)
        BY <1>4, <2>1, <2>2, <2>3 DEF CallInv, Standing
    <2> QED
        BY <1>3, <1>5, <1>9, <2>1, <2>2, <2>3, <2>4 DEF Writes!Wrote
<1>10. CASE entry[c].undo = "recreate"
    <2>1. PICK x \in Row : world[x].life = "absent" /\ world' = Writes!Put(world, x, [life |-> "live", val |-> before[c][Req(c)].val])
        BY <1>1, <1>6, <1>10 DEF Writes!USend
    <2>2. r = x
        BY <1>3, <2>1 DEF Writes!Put
    <2> QED
        BY <1>2, <2>1, <2>2 DEF WInv, Unborn
<1> QED
    BY <1>1, <1>8, <1>9, <1>10 DEF Writes!USend

-----------------------------------------------------------------------------
(* The behaviours of Undo: the journal's, and those of the writes.           *)

\* Beside the writes the journal rests.
JournalInv ==
    /\ part \in {"undo", "writes"}
    /\ part = "undo" => UInv
    /\ part = "writes" => \A i \in Serial : sent[i] = 0

\* The journal's invariant, or its rest, in all behaviours of Undo.
LEMMA JournalInvariance == UndoSpec => []JournalInv
<1>1. UndoInit => JournalInv
    BY UndoBegins DEF UndoInit, JournalInv, Init
<1>2. JournalInv /\ [UndoNext]_all => JournalInv'
    <2> SUFFICES ASSUME JournalInv, [UndoNext]_all PROVE JournalInv'
        OBVIOUS
    <2>1. part' = part /\ (part = "writes" => UNCHANGED sent)
        BY DEF UndoNext, all, undone
    <2>2. part = "undo" => UInv'
        <3>1. part = "undo" => UInv /\ [Next]_vars
            BY DEF JournalInv, UndoNext, all, undone, vars
        <3> QED
            BY <3>1, UndoStep
    <2> QED
        BY <2>1, <2>2 DEF JournalInv
<1> QED
    BY <1>1, <1>2, PTL DEF UndoSpec

\* In the behaviours the run checks an undo is sent once at most, and an
\* unfinished operation stays in the journal until the step that finishes it.
THEOREM JournalIsSafe == UndoSpec => []UndoneAtMostOnce /\ UnfinishedIsKept
<1>1. JournalInv => UndoneAtMostOnce
    BY DEF JournalInv, UInv, UndoneAtMostOnce
<1>2. ASSUME JournalInv, [UndoNext]_all PROVE [Kept]_vars
    <2>1. CASE part = "undo"
        <3>1. UInv /\ [Next]_vars
            BY <1>2, <2>1 DEF JournalInv, UndoNext, all, undone, vars
        <3> QED
            BY <3>1, KeptByStep
    <2>2. CASE part = "writes"
        <3>1. UNCHANGED journal
            BY <1>2, <2>2 DEF UndoNext, all, undone
        <3> QED
            BY <3>1 DEF Kept, Holds
    <2> QED
        BY <1>2, <2>1, <2>2 DEF JournalInv
<1> QED
    BY <1>1, <1>2, JournalInvariance, PTL DEF UndoSpec, UnfinishedIsKept, Kept

\* What holds of the writes.
WritesInv == part = "writes" => WInv

\* The invariant of the writes, in the behaviours of writes.
LEMMA WritesInvariance == UndoSpec => []WritesInv
<1>1. UndoInit => WritesInv
    BY WritesBegin DEF UndoInit, WritesInv
<1>2. WritesInv /\ [UndoNext]_all => WritesInv'
    <2> SUFFICES ASSUME WritesInv, [UndoNext]_all, part' = "writes" PROVE WInv'
        BY DEF WritesInv
    <2>1. part = "writes" /\ WInv
        BY DEF WritesInv, UndoNext, all
    <2>2. [Writes!Next]_(Writes!vars)
        BY <2>1 DEF UndoNext, all, written, Writes!vars, Writes!call, Writes!undo, Writes!past
    <2> QED
        BY <2>1, <2>2, WritesStep
<1> QED
    BY <1>1, <1>2, PTL DEF UndoSpec

\* The variables of the transaction writes have their types.
THEOREM WritesTypeCorrect == UndoSpec => [](part = "writes" => Writes!TypeOK)
<1>1. WritesInv => (part = "writes" => Writes!TypeOK)
    BY DEF WritesInv, WInv
<1> QED
    BY <1>1, WritesInvariance, PTL

\* An undo that is reported done has brought back, in every row it covers, what
\* the write replaced, wherever nobody else interfered.
THEOREM UndoBringsBack == UndoSpec => []UndoRestores
<1>1. WritesInv => UndoRestores
    BY RestoresTrue DEF WritesInv, UndoRestores
<1> QED
    BY <1>1, WritesInvariance, PTL

\* An update that reports success has been made, and the rows it counts as newly
\* approved are those it approved, wherever nobody else interfered.
THEOREM ReportsAreTrue == UndoSpec => []ReportIsTrue
<1>1. WritesInv => ReportIsTrue
    BY ReportsTrue DEF WritesInv, ReportIsTrue
<1> QED
    BY <1>1, WritesInvariance, PTL

\* No undo overwrites what the user has set since, but after it compared the row.
THEOREM EditsAreKept == UndoSpec => EditsSurvive
<1>1. ASSUME WritesInv, [UndoNext]_all PROVE [part = "writes" => Writes!EditsSurviveStep]_all
    <2> SUFFICES ASSUME part = "writes" PROVE Writes!EditsSurviveStep
        OBVIOUS
    <2>1. WInv
        BY <1>1 DEF WritesInv
    <2>2. [Writes!Next]_(Writes!vars)
        BY <1>1 DEF UndoNext, all, written, Writes!vars, Writes!call, Writes!undo, Writes!past
    <2> QED
        BY <2>1, <2>2, EditsKept
<1> QED
    BY <1>1, WritesInvariance, PTL DEF UndoSpec, EditsSurvive
=============================================================================
