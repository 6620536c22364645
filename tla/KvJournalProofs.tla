-------------------------- MODULE KvJournalProofs --------------------------
(***************************************************************************)
(* Proofs about the hosted journal: its compare-and-swap implements an     *)
(* atomic journal for every number of sessions, attempts, updates and      *)
(* faults.  The argument: a revision determines the entries, so a request  *)
(* that is accepted extends exactly what the object holds; and an update   *)
(* under way in one place (a client, a late request) is nowhere else.      *)
(***************************************************************************)
EXTENDS KvJournal, SequenceTheorems, TLAPS

-----------------------------------------------------------------------------
\* Appending one update to a history adds exactly that update to those it holds.
LEMMA RangeOfAppend ==
    ASSUME NEW S, NEW s \in Seq(S), NEW x \in S
    PROVE  /\ Append(s, x) \in Seq(S)
           /\ Range(Append(s, x)) = Range(s) \cup {x}
<1>1. Append(s, x) = s \o <<x>> /\ <<x>> \in Seq(S) /\ Append(s, x) \in Seq(S)
    BY AppendIsConcat
<1>2. Range(<<x>>) = {x}
    BY DEF Range
<1>3. Range(s \o <<x>>) = Range(s) \cup Range(<<x>>)
    BY <1>1, RangeConcatenation DEF Range
<1> QED
    BY <1>1, <1>2, <1>3

-----------------------------------------------------------------------------
(* The inductive invariant.                                                *)

Made == Range(store.entries)

\* A copy that is up to date is what the object holds.
CopiesTrue ==
    \A c \in Client :
        /\ copy[c].revision <= store.revision
        /\ copy[c].revision = store.revision => copy[c].entries = store.entries

\* A late request that would still be accepted extends what the object holds.
LateTrue ==
    \A q \in late :
        /\ q.expected <= store.revision
        /\ q.expected = store.revision =>
              /\ q.entries = Append(store.entries, q.update)
              /\ q.update \notin Made

\* An update a client is working on is not in the journal nor on its way.
CurrentNew ==
    \A c \in Client : pc[c] \in {"read", "persist"} =>
        /\ Current(c) \notin Made
        /\ \A q \in late : q.update # Current(c)
        /\ started[c] > 0

\* An update that has been accepted is in the journal.
CurrentMade ==
    \A c \in Client : pc[c] = "reply" => Current(c) \in Made /\ started[c] > 0

\* Nobody's future update is in the journal or on its way.
Past ==
    \A c \in Client, n \in 1..MaxUpdates : n > started[c] =>
        /\ <<c, n>> \notin Made
        /\ \A q \in late : q.update # <<c, n>>

\* A client that goes on has attempts left, and what it has read is as far
\* ahead of where it began as it has made attempts.
AttemptsLeft ==
    \A c \in Client :
        /\ pc[c] \in {"read", "persist"} => attempt[c] < MaxAttempts
        /\ pc[c] = "persist" => attempt[c] <= copy[c].revision - base[c]

KInv ==
    TypeOK /\ CopiesTrue /\ LateTrue /\ CurrentNew /\ CurrentMade /\ Past
    /\ AttemptsLeft /\ OvertakenOnly

\* The invariant holds of the empty store.
LEMMA KInit == Init => KInv
<1> SUFFICES ASSUME Init PROVE KInv
    OBVIOUS
<1>1. <<>> \in Seq(Update) /\ Range(<<>>) = {}
    BY DEF Range
<1>2. Empty \in Version
    BY <1>1 DEF Empty, Version
<1>3. TypeOK
    BY <1>2, KvBoundAssumption DEF Init, TypeOK
<1> QED
    BY <1>1, <1>3 DEF Init, Empty, KInv, CopiesTrue, LateTrue, CurrentNew, CurrentMade,
        Past, AttemptsLeft, OvertakenOnly, Made, Current

-----------------------------------------------------------------------------
(* Steps.                                                                  *)

\* An accepted request makes one update more.
LEMMA Extended ==
    ASSUME KInv, NEW u \in Update,
           store' = [revision |-> store.revision + 1, entries |-> Append(store.entries, u)]
    PROVE  /\ store' \in Version
           /\ store'.revision = store.revision + 1
           /\ store.revision \in Nat
           /\ Made' = Made \cup {u}
<1>1. store.entries \in Seq(Update) /\ store.revision \in Nat
    BY DEF KInv, TypeOK, Version
<1>2. /\ Append(store.entries, u) \in Seq(Update)
      /\ Range(Append(store.entries, u)) = Made \cup {u}
    BY <1>1, RangeOfAppend DEF Made
<1>3. store'.entries = Append(store.entries, u)
    OBVIOUS
<1> QED
    BY <1>1, <1>2, <1>3 DEF Version, Made

\* The request a client would send now.
LEMMA OwnRequest ==
    ASSUME KInv, NEW c \in Client, pc[c] = "persist"
    PROVE  /\ RequestOf(c) \in Request
           /\ Current(c) \in Update
           /\ RequestOf(c).update = Current(c)
           /\ RequestOf(c).expected = copy[c].revision
           /\ RequestOf(c).expected <= store.revision
           /\ RequestOf(c).expected = store.revision =>
                 RequestOf(c).entries = Append(store.entries, Current(c))
<1>1. copy[c] \in Version /\ started[c] \in 0..MaxUpdates /\ started[c] > 0
    BY DEF KInv, TypeOK, CurrentNew
<1>2. Current(c) \in Update
    BY <1>1 DEF Current, Update
<1>3. copy[c].entries \in Seq(Update) /\ copy[c].revision \in Nat
    BY <1>1 DEF Version
<1>4. Append(copy[c].entries, Current(c)) \in Seq(Update)
    BY <1>2, <1>3, RangeOfAppend
<1> QED
    BY <1>2, <1>3, <1>4 DEF RequestOf, Request, KInv, CopiesTrue

\* Every step keeps the shape of the state.
LEMMA TypeOfStep ==
    ASSUME KInv, [Next]_vars
    PROVE  TypeOK'
<1> USE DEF TypeOK
<1>0. TypeOK
    BY DEF KInv
<1> USE <1>0, KvBoundAssumption
<1>1. ASSUME NEW c \in Client, Call(c) PROVE TypeOK'
    BY <1>1, SMTT(30) DEF Call, Step, Version
<1>2. ASSUME NEW c \in Client, ReadVersioned(c) PROVE TypeOK'
    BY <1>2 DEF ReadVersioned, Step
<1>3. ASSUME NEW c \in Client, PersistVersioned(c) PROVE TypeOK'
    <2>1. store' = [revision |-> store.revision + 1,
                    entries |-> Append(store.entries, Current(c))]
        BY <1>3, OwnRequest DEF PersistVersioned, Accepts, Replace, Step
    <2>2. store' \in Version
        BY <1>3, <2>1, OwnRequest, Extended DEF PersistVersioned, Step
    <2> QED
        BY <1>3, <2>2 DEF PersistVersioned, Step
<1>4. ASSUME NEW c \in Client, PersistConflict(c) PROVE TypeOK'
    <2>1. attempt[c] < MaxAttempts
        BY <1>4 DEF PersistConflict, Step, KInv, AttemptsLeft
    <2> QED
        BY <1>4, <2>1 DEF PersistConflict, Step
<1>5. ASSUME NEW c \in Client, PersistLost(c) PROVE TypeOK'
    <2>1. RequestOf(c) \in Request
        BY <1>5, OwnRequest DEF PersistLost, Step
    <2> QED
        BY <1>5, <2>1 DEF PersistLost, Step, Fault
<1>6. ASSUME NEW c \in Client, Fail(c) PROVE TypeOK'
    BY <1>6 DEF Fail, Step, Fault
<1>7. ASSUME NEW c \in Client, Reply(c) PROVE TypeOK'
    <2>1. Current(c) \in Update
        BY <1>7 DEF Reply, Step, KInv, CurrentMade, Current, Update
    <2> QED
        BY <1>7, <2>1 DEF Reply, Step
<1>8. ASSUME NEW q \in late, LatePersist(q) PROVE TypeOK'
    <2>1. q \in Request
        OBVIOUS
    <2>2. store' \in Version
        <3>1. store.revision + 1 \in Nat /\ q.entries \in Seq(Update)
            BY <2>1 DEF Request, Version
        <3> QED
            BY <1>8, <3>1 DEF LatePersist, Replace, Version
    <2> QED
        BY <1>8, <2>2 DEF LatePersist
<1>9. CASE UNCHANGED vars
    BY <1>9 DEF vars
<1> QED
    BY <1>1, <1>2, <1>3, <1>4, <1>5, <1>6, <1>7, <1>8, <1>9 DEF Next

\* The journal is extended by update u, which is of client c and has been
\* begun; nobody works on u any more, except that c may await the reply.
LEMMA AfterCommit ==
    ASSUME KInv, TypeOK', NEW u \in Update, u \notin Made,
           store' = [revision |-> store.revision + 1, entries |-> Append(store.entries, u)],
           late' \subseteq late,
           \A n \in 1..MaxUpdates, c \in Client : n > started[c] => u # <<c, n>>,
           \A c \in Client : pc'[c] \in {"read", "persist"} =>
                pc[c] = pc'[c] /\ u # Current(c),
           \A c \in Client : pc'[c] = "reply" => pc[c] = "reply" \/ (u = Current(c) /\ started[c] > 0),
           UNCHANGED <<copy, attempt, started, base>>
    PROVE  KInv'
<1>1. /\ store'.revision = store.revision + 1
      /\ store.revision \in Nat
      /\ Made' = Made \cup {u}
    BY Extended
<1>2. CopiesTrue'
    <2>1. ASSUME NEW c \in Client PROVE copy[c].revision <= store.revision /\ copy[c].revision \in Nat
        BY DEF KInv, CopiesTrue, TypeOK, Version
    <2> QED
        BY <1>1, <2>1 DEF CopiesTrue
<1>3. LateTrue'
    <2>1. ASSUME NEW q \in late PROVE q.expected <= store.revision /\ q.expected \in Nat
        BY DEF KInv, LateTrue, TypeOK, Request
    <2> QED
        BY <1>1, <2>1 DEF LateTrue
<1>4. CurrentNew'
    BY <1>1 DEF KInv, CurrentNew, Current
<1>5. CurrentMade'
    BY <1>1 DEF KInv, CurrentMade, Current
<1>6. Past'
    BY <1>1 DEF KInv, Past
<1>7. AttemptsLeft'
    BY DEF KInv, AttemptsLeft
<1>8. OvertakenOnly'
    BY <1>1 DEF KInv, OvertakenOnly, TypeOK
<1> QED
    BY <1>2, <1>3, <1>4, <1>5, <1>6, <1>7, <1>8 DEF KInv

\* A step that leaves the journal and the late requests alone, or drops some.
LEMMA AfterLocal ==
    ASSUME KInv, TypeOK', UNCHANGED <<store, started>>, late' \subseteq late,
           \A c \in Client : copy'[c] \in {copy[c], store},
           \A c \in Client : pc'[c] \in {"read", "persist"} => pc[c] \in {"read", "persist"},
           \A c \in Client : pc'[c] = "reply" => pc[c] = "reply",
           AttemptsLeft', OvertakenOnly'
    PROVE  KInv'
<1>1. store.revision \in Nat /\ Made' = Made
    BY DEF KInv, TypeOK, Version, Made
<1>2. CopiesTrue'
    BY <1>1 DEF KInv, CopiesTrue
<1>3. LateTrue'
    BY <1>1 DEF KInv, LateTrue
<1>4. CurrentNew'
    BY <1>1 DEF KInv, CurrentNew, Current
<1>5. CurrentMade' /\ Past'
    BY <1>1 DEF KInv, CurrentMade, Past, Current
<1> QED
    BY <1>2, <1>3, <1>4, <1>5 DEF KInv

\* Every step keeps the invariant.
LEMMA KStep == KInv /\ [Next]_vars => KInv'
<1> SUFFICES ASSUME KInv, [Next]_vars PROVE KInv'
    OBVIOUS
<1>t. TypeOK /\ TypeOK'
    BY TypeOfStep DEF KInv
<1> USE <1>t
<1>1. ASSUME NEW c \in Client, Call(c) PROVE KInv'
    <2> USE <1>1 DEF Call, Step
    <2>1. /\ Made' = Made /\ store.revision \in Nat /\ started[c] \in 0..MaxUpdates
          /\ started[c] + 1 \in 1..MaxUpdates
        BY DEF Made, TypeOK, Version
    <2>2. Current(c)' = <<c, started[c] + 1>> /\ \A d \in Client \ {c} : Current(d)' = Current(d)
        BY <2>1 DEF Current, TypeOK
    <2>3. Current(c)' \notin Made /\ \A q \in late : q.update # Current(c)'
        BY <2>1, <2>2 DEF KInv, Past
    <2>4. \A d \in Client : pc'[d] = IF d = c THEN "read" ELSE pc[d]
        BY DEF TypeOK
    <2>5. \A d \in Client : started'[d] = IF d = c THEN started[c] + 1 ELSE started[d]
        BY DEF TypeOK
    <2>6. CurrentNew'
        BY <2>1, <2>2, <2>3, <2>4, <2>5 DEF KInv, CurrentNew
    <2>7. CurrentMade'
        BY <2>1, <2>2, <2>4, <2>5 DEF KInv, CurrentMade
    <2>8. Past'
        BY <2>1, <2>5 DEF KInv, Past, TypeOK
    <2>9. AttemptsLeft' /\ OvertakenOnly'
        BY <2>1, KvBoundAssumption DEF KInv, AttemptsLeft, OvertakenOnly, TypeOK
    <2> QED
        BY <2>1, <2>6, <2>7, <2>8, <2>9 DEF KInv, CopiesTrue, LateTrue
<1>2. ASSUME NEW c \in Client, ReadVersioned(c) PROVE KInv'
    <2>1. AttemptsLeft' /\ OvertakenOnly'
        BY <1>2 DEF ReadVersioned, Step, KInv, AttemptsLeft, OvertakenOnly, TypeOK
    <2>2. \A d \in Client : copy'[d] \in {copy[d], store}
        BY <1>2 DEF ReadVersioned, TypeOK
    <2>3. \A d \in Client : pc'[d] = IF d = c THEN "persist" ELSE pc[d]
        BY <1>2 DEF ReadVersioned, Step, TypeOK
    <2> QED
        BY <1>2, <2>1, <2>2, <2>3, AfterLocal DEF ReadVersioned, Step
<1>3. ASSUME NEW c \in Client, PersistVersioned(c) PROVE KInv'
    <2> DEFINE u == Current(c)
    <2>1. u \in Update /\ u \notin Made /\ pc[c] = "persist" /\ started[c] > 0
        BY <1>3, OwnRequest DEF PersistVersioned, Step, KInv, CurrentNew
    <2>2. store' = [revision |-> store.revision + 1, entries |-> Append(store.entries, u)]
        BY <1>3, OwnRequest DEF PersistVersioned, Accepts, Replace, Step
    <2>3. \A d \in Client : pc'[d] = IF d = c THEN "reply" ELSE pc[d]
        BY <1>3 DEF PersistVersioned, Step, TypeOK
    <2>4. \A d \in Client : Current(d) = u => d = c
        BY DEF Current
    <2>5. \A n \in 1..MaxUpdates, d \in Client : n > started[d] => u # <<d, n>>
        BY DEF Current, TypeOK
    <2> QED
        BY <1>3, <2>1, <2>2, <2>3, <2>4, <2>5, AfterCommit DEF PersistVersioned
<1>4. ASSUME NEW c \in Client, PersistConflict(c) PROVE KInv'
    <2>1. pc[c] = "persist" /\ attempt[c] < MaxAttempts
        BY <1>4 DEF PersistConflict, Step, KInv, AttemptsLeft
    <2>2. copy[c].revision < store.revision /\ copy[c].revision \in Nat /\ store.revision \in Nat
        BY <1>4, <2>1, OwnRequest DEF PersistConflict, Accepts, TypeOK, Version
    <2>3. attempt[c] <= copy[c].revision - base[c] /\ base[c] \in Nat /\ attempt[c] \in Nat
        BY <2>1 DEF KInv, AttemptsLeft, TypeOK
    <2>4. attempt[c] + 1 <= store.revision - base[c]
        BY <2>2, <2>3
    <2>5. \A d \in Client : attempt'[d] = IF d = c THEN attempt[c] + 1 ELSE attempt[d]
        BY <1>4 DEF PersistConflict, TypeOK
    <2>6. pc'[c] = IF attempt[c] + 1 < MaxAttempts THEN "read" ELSE "idle"
        BY <1>4, <2>5 DEF PersistConflict, Step, TypeOK
    <2>7. \A d \in Client \ {c} : pc'[d] = pc[d]
        BY <1>4 DEF PersistConflict, Step, TypeOK
    <2>8. OvertakenOnly'
        BY <1>4, <2>4, <2>5 DEF PersistConflict, KInv, OvertakenOnly
    <2>9. AttemptsLeft'
        BY <1>4, <2>5, <2>6, <2>7 DEF PersistConflict, KInv, AttemptsLeft
    <2> QED
        BY <1>4, <2>1, <2>6, <2>7, <2>8, <2>9, AfterLocal DEF PersistConflict
<1>5. ASSUME NEW c \in Client, PersistLost(c) PROVE KInv'
    <2> DEFINE q == RequestOf(c)
    <2>1. pc[c] = "persist" /\ late' = late \cup {q}
        BY <1>5 DEF PersistLost, Step
    <2>2. \A d \in Client : pc'[d] = IF d = c THEN "idle" ELSE pc[d]
        BY <1>5 DEF PersistLost, Step, TypeOK
    <2>3. q.update = Current(c) /\ Current(c) \notin Made /\ started[c] > 0
        BY <2>1, OwnRequest DEF KInv, CurrentNew
    <2>4. LateTrue'
        BY <1>5, <2>1, <2>3, OwnRequest DEF PersistLost, KInv, LateTrue, Made
    <2>5. CurrentNew'
        BY <1>5, <2>1, <2>2, <2>3 DEF PersistLost, KInv, CurrentNew, Current, Made
    <2>6. Past'
        BY <1>5, <2>1, <2>3 DEF PersistLost, KInv, Past, Current, Made, TypeOK
    <2>7. CopiesTrue' /\ CurrentMade' /\ AttemptsLeft' /\ OvertakenOnly'
        BY <1>5, <2>2 DEF PersistLost, KInv, CopiesTrue, CurrentMade, AttemptsLeft,
            OvertakenOnly, Made, Current
    <2> QED
        BY <2>4, <2>5, <2>6, <2>7 DEF KInv
<1>6. ASSUME NEW c \in Client, Fail(c) PROVE KInv'
    <2>1. \A d \in Client : pc'[d] = IF d = c THEN "idle" ELSE pc[d]
        BY <1>6 DEF Fail, Step, TypeOK
    <2>2. AttemptsLeft' /\ OvertakenOnly'
        BY <1>6, <2>1 DEF Fail, KInv, AttemptsLeft, OvertakenOnly
    <2> QED
        BY <1>6, <2>1, <2>2, AfterLocal DEF Fail
<1>7. ASSUME NEW c \in Client, Reply(c) PROVE KInv'
    <2>1. \A d \in Client : pc'[d] = IF d = c THEN "idle" ELSE pc[d]
        BY <1>7 DEF Reply, Step, TypeOK
    <2>2. AttemptsLeft' /\ OvertakenOnly'
        BY <1>7, <2>1 DEF Reply, KInv, AttemptsLeft, OvertakenOnly
    <2> QED
        BY <1>7, <2>1, <2>2, AfterLocal DEF Reply
<1>8. ASSUME NEW q \in late, LatePersist(q) PROVE KInv'
    <2>1. q \in Request
        BY DEF TypeOK
    <2>2. CASE Accepts(q)
        <3>1. q.update \in Update /\ q.update \notin Made /\ q.entries = Append(store.entries, q.update)
            BY <2>1, <2>2 DEF Accepts, Request, KInv, LateTrue
        <3>2. store' = [revision |-> store.revision + 1, entries |-> Append(store.entries, q.update)]
            BY <1>8, <2>2, <3>1 DEF LatePersist, Replace
        <3>3. \A n \in 1..MaxUpdates, d \in Client : n > started[d] => q.update # <<d, n>>
            BY DEF KInv, Past
        <3>4. \A d \in Client : pc[d] \in {"read", "persist"} => q.update # Current(d)
            BY DEF KInv, CurrentNew
        <3>5. /\ UNCHANGED <<pc, copy, attempt, started, base>>
              /\ late' \subseteq late
            BY <1>8 DEF LatePersist
        <3> QED
            BY <3>1, <3>2, <3>3, <3>4, <3>5, AfterCommit
    <2>3. CASE ~Accepts(q)
        <3>1. /\ UNCHANGED <<store, pc, copy, attempt, started, base>>
              /\ late' \subseteq late
            BY <1>8, <2>3 DEF LatePersist
        <3>2. AttemptsLeft' /\ OvertakenOnly'
            BY <3>1 DEF KInv, AttemptsLeft, OvertakenOnly
        <3> QED
            BY <3>1, <3>2, AfterLocal
    <2> QED
        BY <2>2, <2>3
<1>9. CASE UNCHANGED vars
    <2>1. AttemptsLeft' /\ OvertakenOnly'
        BY <1>9 DEF vars, KInv, AttemptsLeft, OvertakenOnly
    <2> QED
        BY <1>9, <2>1, AfterLocal DEF vars
<1> QED
    BY <1>1, <1>2, <1>3, <1>4, <1>5, <1>6, <1>7, <1>8, <1>9 DEF Next

\* The invariant behind the theorems below: a copy or a late request with the
\* current revision has the current entries, and what is still to be made is new.
THEOREM KvInvariance == Spec => []KInv
BY KInit, KStep, PTL DEF Spec

\* What the object, the clients and the late requests hold keeps its shape.
THEOREM KvTypeCorrect == Spec => []TypeOK
<1>1. KInv => TypeOK
    BY DEF KInv
<1> QED
    BY KvInvariance, <1>1, PTL

\* A mutate that gives up has been overtaken once per attempt it made.
THEOREM GivesUpOnlyIfOvertaken == Spec => []OvertakenOnly
<1>1. KInv => OvertakenOnly
    BY DEF KInv
<1> QED
    BY KvInvariance, <1>1, PTL

-----------------------------------------------------------------------------
(* Refinement.                                                             *)

\* The empty store is the empty journal.
LEMMA KvInitRefines == Init => Atomic!Init
BY DEF Init, Empty, Atomic!Init

\* An accepted request, in time or late, applies an update; a reply
\* acknowledges it; nothing else changes the journal.
LEMMA KvStepRefines == KInv /\ [Next]_vars => [Atomic!Next]_(Atomic!vars)
<1> SUFFICES ASSUME KInv, [Next]_vars PROVE [Atomic!Next]_(Atomic!vars)
    OBVIOUS
<1> USE DEF Atomic!vars
<1>1. ASSUME NEW u \in Update, u \notin Made, UNCHANGED acked,
             store' = [revision |-> store.revision + 1, entries |-> Append(store.entries, u)]
      PROVE  Atomic!Next
    BY <1>1 DEF Atomic!Next, Atomic!Apply, Atomic!Range, Range, Made
<1>2. ASSUME NEW c \in Client, PersistVersioned(c) PROVE Atomic!Next
    <2>1. pc[c] = "persist" /\ Current(c) \in Update /\ Current(c) \notin Made
        BY <1>2, OwnRequest DEF PersistVersioned, Step, KInv, CurrentNew
    <2>2. store' = [revision |-> store.revision + 1,
                    entries |-> Append(store.entries, Current(c))]
        BY <1>2, <2>1, OwnRequest DEF PersistVersioned, Accepts, Replace
    <2> QED
        BY <1>1, <1>2, <2>1, <2>2 DEF PersistVersioned
<1>3. ASSUME NEW c \in Client, Reply(c) PROVE [Atomic!Next]_(Atomic!vars)
    <2>1. Current(c) \in Made /\ Current(c) \in Update
        BY <1>3 DEF Reply, Step, KInv, CurrentMade, TypeOK, Current, Update
    <2>2. CASE Current(c) \in acked
        BY <1>3, <2>2 DEF Reply
    <2>3. CASE Current(c) \notin acked
        BY <1>3, <2>1, <2>3 DEF Reply, Atomic!Next, Atomic!Acknowledge, Atomic!Range, Range, Made
    <2> QED
        BY <2>2, <2>3
<1>4. ASSUME NEW q \in late, LatePersist(q) PROVE [Atomic!Next]_(Atomic!vars)
    <2>1. CASE Accepts(q)
        <3>1. q \in Request
            BY DEF KInv, TypeOK
        <3>2. q.update \in Update /\ q.update \notin Made /\ q.entries = Append(store.entries, q.update)
            BY <2>1, <3>1 DEF Accepts, Request, KInv, LateTrue
        <3> QED
            BY <1>1, <1>4, <2>1, <3>2 DEF LatePersist, Replace
    <2>2. CASE ~Accepts(q)
        BY <1>4, <2>2 DEF LatePersist
    <2> QED
        BY <2>1, <2>2
<1>5. ASSUME NEW c \in Client,
             Call(c) \/ ReadVersioned(c) \/ PersistConflict(c) \/ PersistLost(c) \/ Fail(c)
      PROVE  UNCHANGED Atomic!vars
    BY <1>5 DEF Call, ReadVersioned, PersistConflict, PersistLost, Fail
<1>6. CASE UNCHANGED vars
    BY <1>6 DEF vars
<1> QED
    BY <1>2, <1>3, <1>4, <1>5, <1>6 DEF Next

\* The compare-and-swap of the hosted journal implements an atomic journal,
\* for every number of sessions and whatever is lost, fails or comes late.
THEOREM KvIsAtomic == Spec => IsAtomic
<1>1. KInv /\ [Next]_vars => [Atomic!Next]_(Atomic!vars)
    BY KvStepRefines
<1> QED
    BY KvInvariance, KvInitRefines, <1>1, PTL DEF Spec, IsAtomic, Atomic!Spec
=============================================================================
