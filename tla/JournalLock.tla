---------------------------- MODULE JournalLock ----------------------------
(***************************************************************************)
(* The lock file of the local undo journal (createFsJournal of index.js):  *)
(* several stdio server processes of one user update one file.  A process  *)
(* creates the lock file exclusively, writes its pid into it, and removes  *)
(* it when its update is done; it removes the lock of a dead process.      *)
(* Every system call is a step: processes interleave and die between them. *)
(***************************************************************************)
EXTENDS Integers, Sequences, Functions

CONSTANTS
    Proc,           \* server processes, each with a pid of its own
    MaxAttempts,    \* attempts to take the lock (100 in the code)
    MaxUpdates,     \* bound on the updates of one process
    MaxCrashes,     \* bound on crashes
    CrashAt         \* where in an update a process may crash

ASSUME BoundAssumption ==
    {MaxAttempts, MaxUpdates, MaxCrashes} \subseteq Nat /\ MaxAttempts > 0

VARIABLES
    lock,       \* the lock file: its creator and the pid in it, or NoLock
    file,       \* the updates the journal file holds, oldest first
    pc,         \* where each process is
    tries,      \* attempts each process has made
    seen,       \* the pid each process has read from the lock file
    copy,       \* the updates each process has read from the journal file
    started,    \* the updates each process has begun
    acked,      \* updates whose mutate has returned to its caller
    crashes

vars == <<lock, file, pc, tries, seen, copy, started, acked, crashes>>

NoLock == [by |-> "nobody", pid |-> "none"]
Blank == "blank"            \* the lock file is there, its pid is not yet
Lock == [by : Proc, pid : Proc \cup {Blank}]

Update == Proc \X (1..MaxUpdates)
Current(p) == <<p, started[p]>>

Holding == {"stamp", "read", "write", "release"}
Location == Holding \cup {"idle", "open", "inspect", "probe", "unlink", "sleep", "dead"}

Alive(p) == pc[p] # "dead"

TypeOK ==
    /\ lock \in Lock \cup {NoLock}
    /\ file \in Seq(Update)
    /\ pc \in [Proc -> Location]
    /\ tries \in [Proc -> 0..MaxAttempts]
    /\ seen \in [Proc -> Proc \cup {Blank}]
    /\ copy \in [Proc -> Seq(Update)]
    /\ started \in [Proc -> 0..MaxUpdates]
    /\ acked \subseteq Update
    /\ crashes \in 0..MaxCrashes

Init ==
    /\ lock = NoLock
    /\ file = <<>>
    /\ pc = [p \in Proc |-> "idle"]
    /\ tries = [p \in Proc |-> 0]
    /\ seen = [p \in Proc |-> Blank]
    /\ copy = [p \in Proc |-> <<>>]
    /\ started = [p \in Proc |-> 0]
    /\ acked = {}
    /\ crashes = 0

Goto(p, l) == pc' = [pc EXCEPT ![p] = l]
Step(p, from, to) == pc[p] = from /\ Goto(p, to)
Data == <<file, copy, started, acked>>

\* mutate(transform) is called; the calls of one process are serialised.
Call(p) ==
    /\ started[p] < MaxUpdates
    /\ Step(p, "idle", "open")
    /\ started' = [started EXCEPT ![p] = @ + 1]
    /\ tries' = [tries EXCEPT ![p] = 0]
    /\ UNCHANGED <<lock, file, seen, copy, acked, crashes>>

\* Mutant: openSync(lockPath, "w") truncates the file of another process.
OpenShared(p) ==
    /\ Step(p, "open", "stamp")
    /\ lock' = [by |-> p, pid |-> Blank]
    /\ UNCHANGED <<tries, seen, Data, crashes>>

\* openSync(lockPath, "wx") creates the file or fails with EEXIST.
Open(p) ==
    /\ pc[p] = "open"
    /\ \/ lock = NoLock /\ lock' = [by |-> p, pid |-> Blank] /\ Goto(p, "stamp")
       \/ lock # NoLock /\ UNCHANGED lock /\ Goto(p, "inspect")
    /\ UNCHANGED <<tries, seen, Data, crashes>>

\* writeFileSync to the descriptor, whether or not the path still leads there.
Stamp(p) ==
    /\ Step(p, "stamp", "read")
    /\ lock' = IF lock.by = p THEN [lock EXCEPT !.pid = p] ELSE lock
    /\ UNCHANGED <<tries, seen, Data, crashes>>

\* Number(readFileSync(lockPath)): a blank or missing file names no owner.
Inspect(p) ==
    /\ \/ lock.pid \in Proc /\ Step(p, "inspect", "probe")
          /\ seen' = [seen EXCEPT ![p] = lock.pid]
       \/ lock.pid \notin Proc /\ Step(p, "inspect", "sleep") /\ UNCHANGED seen
    /\ UNCHANGED <<lock, tries, Data, crashes>>

\* Mutant: no failure of the probe counts as a dead owner.
ProbeIgnored(p) ==
    /\ Step(p, "probe", "sleep")
    /\ UNCHANGED <<lock, tries, seen, Data, crashes>>

\* process.kill(owner, 0) throws ESRCH when there is no such process.
Probe(p) ==
    /\ Step(p, "probe", IF Alive(seen[p]) THEN "sleep" ELSE "unlink")
    /\ UNCHANGED <<lock, tries, seen, Data, crashes>>

\* unlinkSync(lockPath) removes what the path leads to now, if anything.
Unlink(p) ==
    /\ Step(p, "unlink", "sleep")
    /\ lock' = NoLock
    /\ UNCHANGED <<tries, seen, Data, crashes>>

\* After 25 ms the next attempt, or "Undo journal is busy".
Sleep(p) ==
    /\ tries' = [tries EXCEPT ![p] = @ + 1]
    /\ Step(p, "sleep", IF tries'[p] < MaxAttempts THEN "open" ELSE "idle")
    /\ UNCHANGED <<lock, seen, Data, crashes>>

\* Mutant: the entries are read once and kept.
ReadOnce(p) ==
    /\ Step(p, "read", "write")
    /\ copy' = IF copy[p] = <<>> THEN [copy EXCEPT ![p] = file] ELSE copy
    /\ UNCHANGED <<lock, file, tries, seen, started, acked, crashes>>

\* read(), then the awaited transform, during which other processes run.
Read(p) ==
    /\ Step(p, "read", "write")
    /\ copy' = [copy EXCEPT ![p] = file]
    /\ UNCHANGED <<lock, file, tries, seen, started, acked, crashes>>

\* persist() writes a temporary file and renames it over the journal.
Write(p) ==
    /\ Step(p, "write", "release")
    /\ file' = Append(copy[p], Current(p))
    /\ UNCHANGED <<lock, tries, seen, copy, started, acked, crashes>>

\* closeSync, unlinkSync; if the lock is gone already unlinkSync throws and
\* the caller gets an error instead of the result.
Release(p) ==
    /\ Step(p, "release", "idle")
    /\ lock' = NoLock
    /\ acked' = IF lock = NoLock THEN acked ELSE acked \cup {Current(p)}
    /\ UNCHANGED <<file, tries, seen, copy, started, crashes>>

\* The process dies; the lock file stays as it is.
Crash(p) ==
    /\ crashes < MaxCrashes /\ crashes' = crashes + 1
    /\ pc[p] \in CrashAt /\ Goto(p, "dead")
    /\ UNCHANGED <<lock, tries, seen, Data>>

Work(p) ==
    \/ Open(p) \/ Stamp(p) \/ Inspect(p) \/ Probe(p) \/ Unlink(p) \/ Sleep(p)
    \/ Read(p) \/ Write(p) \/ Release(p)

Next == \E p \in Proc : Call(p) \/ Work(p) \/ Crash(p)

Spec == Init /\ [][Next]_vars

\* A process that lives goes on with the update it has begun.
FairSpec == Spec /\ \A p \in Proc : WF_vars(Work(p))

-----------------------------------------------------------------------------
(* Properties.                                                             *)

\* Two processes are never between taking and releasing the lock at once.
MutualExclusion ==
    \A p, q \in Proc : pc[p] \in Holding /\ pc[q] \in Holding => p = q

Atomic == INSTANCE AtomicJournal WITH content <- file

\* No update is lost, made twice or acknowledged before it is in the file: a
\* process never writes back a copy that another one has meanwhile extended.
IsAtomic == Atomic!Spec

\* "Recover only an abandoned writer's lock, never a live process's lock."
\* (the comment in withLock)
RecoversOnlyAbandoned ==
    [][\A p \in Proc : Unlink(p) /\ lock \in Lock => ~Alive(lock.by)]_vars

\* A lock left by a dead process is removed by the next process that wants it
\* ("abandoned-process detection", docs/write-recovery.md).
Abandoned == lock \in Lock /\ ~Alive(lock.by)
AbandonedLockIsRecovered ==
    \A p \in Proc : (pc[p] = "open" /\ Abandoned) ~> ~Abandoned

=============================================================================
