------------------------- MODULE JournalLockProofs -------------------------
(***************************************************************************)
(* Proofs about the lock file: the type invariant for every execution, and *)
(* mutual exclusion and the atomicity of the updates for every number of   *)
(* processes as long as none of them dies (with crashes the run            *)
(* lock_double_recovery refutes what both rest on).                        *)
(***************************************************************************)
EXTENDS JournalLock, SequenceTheorems, TLAPS

-----------------------------------------------------------------------------
\* Appending one update to a history adds exactly that update to those it holds.
LEMMA RangeOfAppend ==
    ASSUME NEW S, NEW s \in Seq(S), NEW x \in S
    PROVE  /\ Append(s, x) \in Seq(S)
           /\ Range(Append(s, x)) = Range(s) \cup {x}
<1>1. Append(s, x) = s \o <<x>> /\ <<x>> \in Seq(S) /\ Append(s, x) \in Seq(S)
    BY AppendIsConcat
<1>2. Range(<<x>>) = {x}
    BY DEF Range
<1>3. Range(s \o <<x>>) = Range(s) \cup Range(<<x>>)
    BY <1>1, RangeConcatenation DEF Range
<1> QED
    BY <1>1, <1>2, <1>3

-----------------------------------------------------------------------------
(* Types.                                                                  *)

\* A process that is in an update has begun one and has attempts left.
InUpdate == {"open", "inspect", "probe", "unlink", "sleep"} \cup Holding
Begun ==
    \A p \in Proc : pc[p] \in InUpdate => started[p] > 0 /\ tries[p] < MaxAttempts

TypeInv == TypeOK /\ Begun

\* The initial state has its shape.
LEMMA TypeInit == Init => TypeInv
<1>1. <<>> \in Seq(Update)
    OBVIOUS
<1> QED
    BY <1>1, BoundAssumption
       DEF Init, TypeInv, TypeOK, Begun, InUpdate, Holding, Location, NoLock, Blank, Lock

\* Every step keeps the shape, and that an update under way has been begun.
LEMMA TypeStep == TypeInv /\ [Next]_vars => TypeInv'
<1> SUFFICES ASSUME TypeInv, [Next]_vars PROVE TypeInv'
    OBVIOUS
<1> USE BoundAssumption DEF TypeInv, TypeOK, Begun, InUpdate, Holding, Location
<1>1. ASSUME NEW p \in Proc, Call(p) PROVE TypeInv'
    BY <1>1, SMTT(30) DEF Call, Step, Goto
<1>2. ASSUME NEW p \in Proc, Open(p) PROVE TypeInv'
    <2>1. lock' \in Lock \cup {NoLock}
        BY <1>2 DEF Open, Lock
    <2>2. \/ pc' = [pc EXCEPT ![p] = "stamp"]
          \/ pc' = [pc EXCEPT ![p] = "inspect"]
        BY <1>2 DEF Open, Goto
    <2>3. pc[p] = "open"
        BY <1>2 DEF Open
    <2> QED
        BY <1>2, <2>1, <2>2, <2>3 DEF Open, Data
<1>3. ASSUME NEW p \in Proc, Stamp(p) PROVE TypeInv'
    BY <1>3 DEF Stamp, Step, Goto, Data, Lock, NoLock, Blank
<1>4. ASSUME NEW p \in Proc, Inspect(p) PROVE TypeInv'
    BY <1>4 DEF Inspect, Step, Goto, Data
<1>5. ASSUME NEW p \in Proc, Probe(p) PROVE TypeInv'
    BY <1>5 DEF Probe, Step, Goto, Data
<1>6. ASSUME NEW p \in Proc, Unlink(p) PROVE TypeInv'
    BY <1>6 DEF Unlink, Step, Goto, Data
<1>7. ASSUME NEW p \in Proc, Sleep(p) PROVE TypeInv'
    BY <1>7 DEF Sleep, Step, Goto, Data
<1>8. ASSUME NEW p \in Proc, Read(p) PROVE TypeInv'
    BY <1>8 DEF Read, Step, Goto
<1>9. ASSUME NEW p \in Proc, Write(p) PROVE TypeInv'
    <2>1. Current(p) \in Update
        BY <1>9 DEF Write, Step, Current, Update
    <2>2. file' \in Seq(Update)
        BY <1>9, <2>1 DEF Write
    <2> QED
        BY <1>9, <2>2 DEF Write, Step, Goto
<1>10. ASSUME NEW p \in Proc, Release(p) PROVE TypeInv'
    <2>1. Current(p) \in Update
        BY <1>10 DEF Release, Step, Current, Update
    <2>2. acked' \subseteq Update
        BY <1>10, <2>1 DEF Release
    <2> QED
        BY <1>10, <2>2 DEF Release, Step, Goto
<1>11. ASSUME NEW p \in Proc, Crash(p) PROVE TypeInv'
    BY <1>11 DEF Crash, Goto, Data
<1>12. CASE UNCHANGED vars
    BY <1>12 DEF vars
<1> QED
    BY <1>1, <1>2, <1>3, <1>4, <1>5, <1>6, <1>7, <1>8, <1>9, <1>10, <1>11, <1>12
       DEF Next, Work

\* The lock file, the journal file and the state of every process keep their
\* shape: no process makes more than MaxAttempts attempts, whoever crashes.
THEOREM LockTypeCorrect == Spec => []TypeOK
<1>1. TypeInv => TypeOK
    BY DEF TypeInv
<1> QED
    BY TypeInit, TypeStep, <1>1, PTL DEF Spec

-----------------------------------------------------------------------------
(* Mutual exclusion while nobody dies.                                     *)

\* The lock file names the one process that holds the lock, and nobody is
\* about to remove it for somebody else.
Owned ==
    /\ \A p \in Proc : pc[p] \notin {"unlink", "dead"}
    /\ \A p \in Proc : pc[p] = "probe" => seen[p] \in Proc
    /\ \A p \in Proc : pc[p] \in Holding => lock # NoLock /\ lock.by = p

\* What the holder has read is still the file; its update is in the file once
\* it has been written, and nobody's update is before that.
Unwritten == InUpdate \ {"release"}
Ordered ==
    /\ \A p \in Proc : pc[p] = "write" => copy[p] = file
    /\ \A p \in Proc : pc[p] = "release" => Current(p) \in Range(file)
    /\ \A p \in Proc : pc[p] \in Unwritten => Current(p) \notin Range(file)
    /\ \A p \in Proc, n \in 1..MaxUpdates : n > started[p] => <<p, n>> \notin Range(file)

LockInv == TypeInv /\ Owned /\ Ordered

\* At the outset nobody holds the lock and the file is empty.
LEMMA LockInit == Init => LockInv
<1>1. Range(<<>>) = {}
    BY DEF Range
<1> QED
    BY TypeInit, <1>1 DEF Init, LockInv, Owned, Ordered, Holding, Unwritten, InUpdate

\* While nobody dies, every step leaves the lock file to its one holder.
LEMMA OwnedStep ==
    ASSUME MaxCrashes = 0, TypeInv, Owned, [Next]_vars
    PROVE  Owned'
<1> USE DEF Owned, Holding
<1>0. pc \in [Proc -> Location] /\ seen \in [Proc -> Proc \cup {Blank}]
        /\ lock \in Lock \cup {NoLock}
    BY DEF TypeInv, TypeOK
<1>1. ASSUME NEW p \in Proc, Call(p) PROVE Owned'
    BY <1>0, <1>1 DEF Call, Step, Goto
<1>2. ASSUME NEW p \in Proc, Open(p) PROVE Owned'
    BY <1>0, <1>2 DEF Open, Goto, NoLock, Blank
<1>3. ASSUME NEW p \in Proc, Stamp(p) PROVE Owned'
    <2>1. lock.by = p /\ lock \in Lock
        BY <1>0, <1>3 DEF Stamp, Step
    <2>2. lock' = [by |-> p, pid |-> p]
        BY <1>3, <2>1 DEF Stamp, Lock
    <2> QED
        BY <1>0, <1>3, <2>2 DEF Stamp, Step, Goto, NoLock
<1>4. ASSUME NEW p \in Proc, Inspect(p) PROVE Owned'
    BY <1>0, <1>4 DEF Inspect, Step, Goto
<1>5. ASSUME NEW p \in Proc, Probe(p) PROVE Owned'
    BY <1>0, <1>5 DEF Probe, Step, Goto, Alive
<1>6. ASSUME NEW p \in Proc, Unlink(p) PROVE Owned'
    BY <1>6 DEF Unlink, Step
<1>7. ASSUME NEW p \in Proc, Sleep(p) PROVE Owned'
    BY <1>0, <1>7 DEF Sleep, Step, Goto
<1>8. ASSUME NEW p \in Proc, Read(p) PROVE Owned'
    BY <1>0, <1>8 DEF Read, Step, Goto
<1>9. ASSUME NEW p \in Proc, Write(p) PROVE Owned'
    BY <1>0, <1>9 DEF Write, Step, Goto
<1>10. ASSUME NEW p \in Proc, Release(p) PROVE Owned'
    BY <1>0, <1>10 DEF Release, Step, Goto
<1>11. ASSUME NEW p \in Proc, Crash(p) PROVE Owned'
    BY <1>11 DEF Crash, TypeInv, TypeOK
<1>12. CASE UNCHANGED vars
    BY <1>12 DEF vars
<1> QED
    BY <1>1, <1>2, <1>3, <1>4, <1>5, <1>6, <1>7, <1>8, <1>9, <1>10, <1>11, <1>12
       DEF Next, Work

\* The new contents of the file once a holder has written.
LEMMA Written ==
    ASSUME TypeInv, Ordered, NEW p \in Proc, Write(p)
    PROVE  /\ file' = Append(file, Current(p))
           /\ Range(file') = Range(file) \cup {Current(p)}
           /\ Current(p) \in Update
           /\ Current(p) \notin Range(file)
<1>1. pc[p] = "write" /\ copy[p] = file
    BY DEF Ordered, Write, Step
<1>2. file \in Seq(Update) /\ started[p] \in 1..MaxUpdates
    BY <1>1 DEF TypeInv, TypeOK, Begun, InUpdate, Holding
<1>3. Current(p) \in Update
    BY <1>2 DEF Current, Update
<1>4. file' = Append(file, Current(p))
    BY <1>1 DEF Write
<1>5. Range(Append(file, Current(p))) = Range(file) \cup {Current(p)}
    BY <1>2, <1>3, RangeOfAppend
<1> QED
    BY <1>1, <1>3, <1>4, <1>5 DEF Ordered, Unwritten, InUpdate, Holding

\* What the one holder has read is still the file when it writes.
LEMMA OrderedStep ==
    ASSUME MaxCrashes = 0, TypeInv, Owned, Ordered, [Next]_vars
    PROVE  Ordered'
<1> USE DEF Ordered, Current
<1>0. pc \in [Proc -> Location] /\ copy \in [Proc -> Seq(Update)]
        /\ started \in [Proc -> 0..MaxUpdates]
    BY DEF TypeInv, TypeOK
<1> USE <1>0 DEF Unwritten, InUpdate, Holding
<1>1. ASSUME NEW p \in Proc, Call(p) PROVE Ordered'
    <2>1. \A q \in Proc : pc'[q] = IF q = p THEN "open" ELSE pc[q]
        BY <1>1 DEF Call, Step, Goto
    <2>2. \A q \in Proc : started'[q] = IF q = p THEN started[p] + 1 ELSE started[q]
        BY <1>1 DEF Call
    <2>3. file' = file /\ copy' = copy /\ pc[p] = "idle" /\ started[p] + 1 \in 1..MaxUpdates
        BY <1>1, BoundAssumption DEF Call, Step
    <2>4. <<p, started[p] + 1>> \notin Range(file)
        BY <2>3
    <2>5. \A q \in Proc, n \in 1..MaxUpdates : n > started'[q] => n > started[q]
        <3>1. MaxUpdates \in Nat /\ \A q \in Proc : started[q] \in Nat
            BY BoundAssumption
        <3>2. ASSUME NEW q \in Proc, NEW n \in 1..MaxUpdates, n > started'[q]
              PROVE  n > started[q]
            <4>1. n \in Int /\ started[q] \in Int /\ started[p] \in Int
                BY <3>1
            <4>2. CASE q = p
                BY <2>2, <3>2, <4>1, <4>2
            <4>3. CASE q # p
                BY <2>2, <3>2, <4>3
            <4> QED
                BY <4>2, <4>3
        <3> QED
            BY <3>2
    <2>6. \A q \in Proc, n \in 1..MaxUpdates : n > started'[q] => <<q, n>> \notin Range(file)
        BY <2>5
    <2>7. \A q \in Proc : pc'[q] \in Unwritten => <<q, started'[q]>> \notin Range(file)
        BY <2>1, <2>2, <2>4
    <2>8. \A q \in Proc : pc'[q] = "release" => <<q, started'[q]>> \in Range(file)
        BY <2>1, <2>2
    <2>9. \A q \in Proc : pc'[q] = "write" => copy[q] = file
        BY <2>1
    <2> QED
        BY <2>3, <2>6, <2>7, <2>8, <2>9
<1>2. ASSUME NEW p \in Proc, Open(p) PROVE Ordered'
    BY <1>2 DEF Open, Goto, Data
<1>3. ASSUME NEW p \in Proc, Stamp(p) PROVE Ordered'
    BY <1>3 DEF Stamp, Step, Goto, Data
<1>4. ASSUME NEW p \in Proc, Inspect(p) PROVE Ordered'
    BY <1>4 DEF Inspect, Step, Goto, Data
<1>5. ASSUME NEW p \in Proc, Probe(p) PROVE Ordered'
    BY <1>5 DEF Probe, Step, Goto, Data
<1>6. ASSUME NEW p \in Proc, Unlink(p) PROVE Ordered'
    BY <1>6 DEF Unlink, Step, Goto, Data
<1>7. ASSUME NEW p \in Proc, Sleep(p) PROVE Ordered'
    BY <1>7 DEF Sleep, Step, Goto, Data
<1>8. ASSUME NEW p \in Proc, Read(p) PROVE Ordered'
    BY <1>8 DEF Read, Step, Goto
<1>9. ASSUME NEW p \in Proc, Write(p) PROVE Ordered'
    <2>1. Range(file') = Range(file) \cup {<<p, started[p]>>}
        BY <1>9, Written
    <2>2. \A q \in Proc : pc'[q] = IF q = p THEN "release" ELSE pc[q]
        BY <1>9 DEF Write, Step, Goto
    \* No other process holds the lock.
    <2>3. \A q \in Proc : pc'[q] # "write"
        <3>1. pc[p] = "write"
            BY <1>9 DEF Write, Step
        <3>2. \A q \in Proc : pc[q] = "write" => lock.by = q
            BY DEF Owned, Holding
        <3> QED
            BY <2>2, <3>1, <3>2
    <2>4. started' = started
        BY <1>9 DEF Write
    <2>5. \A q \in Proc, n \in 1..MaxUpdates :
             <<q, n>> \in Range(file') => <<q, n>> \in Range(file) \/ (q = p /\ n = started[p])
        BY <2>1
    <2>6. \A q \in Proc : pc'[q] \in Unwritten => started[q] \in 1..MaxUpdates
        BY <2>2 DEF TypeInv, TypeOK, Begun
    <2>7. \A q \in Proc : pc'[q] \in Unwritten => <<q, started[q]>> \notin Range(file')
        BY <2>2, <2>5, <2>6
    <2>8. \A q \in Proc : pc'[q] = "release" => <<q, started[q]>> \in Range(file')
        BY <2>1, <2>2
    <2> QED
        BY <2>3, <2>4, <2>5, <2>7, <2>8
<1>10. ASSUME NEW p \in Proc, Release(p) PROVE Ordered'
    BY <1>10 DEF Release, Step, Goto
<1>11. ASSUME NEW p \in Proc, Crash(p) PROVE Ordered'
    BY <1>11 DEF Crash, TypeInv, TypeOK
<1>12. CASE UNCHANGED vars
    BY <1>12 DEF vars
<1> QED
    BY <1>1, <1>2, <1>3, <1>4, <1>5, <1>6, <1>7, <1>8, <1>9, <1>10, <1>11, <1>12
       DEF Next, Work

\* While nobody dies, the lock file names its one holder, whose copy of the
\* journal is up to date: the invariant behind the two theorems below.
THEOREM LockInvariance ==
    ASSUME MaxCrashes = 0 PROVE Spec => []LockInv
<1>1. LockInv /\ [Next]_vars => LockInv'
    BY TypeStep, OwnedStep, OrderedStep DEF LockInv
<1> QED
    BY LockInit, <1>1, PTL DEF Spec

\* However many processes contend, and however their system calls interleave,
\* at most one is between taking and releasing the lock.
THEOREM LockExcludes ==
    ASSUME MaxCrashes = 0 PROVE Spec => []MutualExclusion
<1>1. LockInv => MutualExclusion
    BY DEF LockInv, Owned, MutualExclusion
<1> QED
    BY LockInvariance, <1>1, PTL

-----------------------------------------------------------------------------
(* Refinement.                                                             *)

\* The empty file is the empty journal.
LEMMA LockInitRefines == Init => Atomic!Init
BY DEF Init, Atomic!Init

\* Writing the file applies an update, an orderly release acknowledges it, and
\* nothing else changes the journal.
LEMMA LockStepRefines ==
    ASSUME MaxCrashes = 0, LockInv, [Next]_vars
    PROVE  [Atomic!Next]_(Atomic!vars)
<1> USE DEF Atomic!vars
<1>1. ASSUME NEW p \in Proc, Write(p) PROVE Atomic!Next
    BY <1>1, Written DEF LockInv, Write, Atomic!Next, Atomic!Apply, Atomic!Range, Range
<1>2. ASSUME NEW p \in Proc, Release(p) PROVE [Atomic!Next]_(Atomic!vars)
    <2>1. Current(p) \in Range(file) /\ Current(p) \in Update
        BY <1>2 DEF Release, Step, LockInv, Ordered, TypeInv, TypeOK, Begun, InUpdate, Holding,
            Current, Update
    <2>2. CASE acked' = acked
        BY <1>2, <2>2 DEF Release
    <2>3. CASE acked' # acked
        BY <1>2, <2>1, <2>3 DEF Release, Atomic!Next, Atomic!Acknowledge, Atomic!Range, Range
    <2> QED
        BY <2>2, <2>3
<1>3. ASSUME NEW p \in Proc,
             \/ Call(p) \/ Open(p) \/ Stamp(p) \/ Inspect(p) \/ Probe(p) \/ Unlink(p)
             \/ Sleep(p) \/ Read(p) \/ Crash(p)
      PROVE  UNCHANGED Atomic!vars
    BY <1>3 DEF Call, Open, Stamp, Inspect, Probe, Unlink, Sleep, Read, Crash, Data
<1>4. CASE UNCHANGED vars
    BY <1>4 DEF vars
<1> QED
    BY <1>1, <1>2, <1>3, <1>4 DEF Next, Work

\* The lock file makes the updates of the local journal atomic.
THEOREM LockIsAtomic ==
    ASSUME MaxCrashes = 0 PROVE Spec => IsAtomic
<1>1. LockInv /\ [Next]_vars => [Atomic!Next]_(Atomic!vars)
    BY LockStepRefines
<1> QED
    BY LockInvariance, LockInitRefines, <1>1, PTL DEF Spec, IsAtomic, Atomic!Spec
=============================================================================
