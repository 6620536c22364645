--------------------------- MODULE WriteRecovery ---------------------------
(***************************************************************************)
(* The durable operation runner of lib/write-recovery.mjs: exact-value,    *)
(* multi-step YNAB writes, each step journaled as an intent before it is   *)
(* sent and verified by a fresh read after it.                             *)
(*                                                                         *)
(* A runner is one server instance.  Its own calls are serialised by the   *)
(* journal queue (`serialized`), so it executes one call at a time;        *)
(* different instances share nothing but the durable journal, whose        *)
(* per-entry revision is compared and advanced in one atomic update.       *)
(* Every await of `execute` is a step of its own: a read of YNAB, a save,  *)
(* a write.  Between two of them other runners, the user of the YNAB app,  *)
(* a crash or a delayed request may act.                                   *)
(***************************************************************************)
EXTENDS Integers, Sequences

CONSTANTS
    Runner,     \* server instances; a runner is also its MCP session
    Tenant,     \* authenticated identities
    TenantOf,   \* TenantOf[r]: the tenant whose credential runner r holds
    OpId,       \* operation ids
    PlanId,     \* approved exact plans
    Plan,       \* Plan[p]: a sequence of [target, before, after]
    Target,     \* category months and transactions
    Main,       \* the field a write sets: a budgeted amount or a category id
    Rest,       \* the other compared fields of a target
    Start,      \* Start[t]: what YNAB holds when the first plan is approved
    MaxCalls,   \* bound on calls of run and resume
    MaxEdits,   \* bound on edits made outside the server
    MaxFaults   \* bound on crashes, failed reads, failed saves, lost writes

Value == [main : Main, rest : Rest]
User == "user"      \* whoever edits YNAB outside this server
PlanStep == [target : Target, before : Value, after : Value]
StepNo == UNION {DOMAIN Plan[p] : p \in PlanId}

\* A plan changes each target once and one field of it, and is approved with the
\* other fields as they stand (buildCategoryPlan makes "after" out of "before").
ASSUME PlanAssumption ==
    /\ Plan \in [PlanId -> Seq(PlanStep)]
    /\ \A p \in PlanId : \A i, j \in DOMAIN Plan[p] :
          Plan[p][i].target = Plan[p][j].target => i = j
    /\ \A p \in PlanId : \A j \in DOMAIN Plan[p] :
          Plan[p][j].before.rest = Plan[p][j].after.rest
    /\ TenantOf \in [Runner -> Tenant]
    /\ Start \in [Target -> Value]
    /\ User \notin OpId

ASSUME BoundAssumption == {MaxCalls, MaxEdits, MaxFaults} \subseteq Nat

VARIABLES
    journal,    \* journal[o]: the durable entry of operation o, or NoEntry
    ynab,       \* ynab[t]: what YNAB holds for target t
    late,       \* writes that timed out here and may still be applied there
    call,       \* call[r]: the call runner r executes, or NoCall
    calls, edits, faults,
    sent,       \* history: the requests sent to YNAB
    touched     \* history: who has changed target t

history == <<sent, touched>>
bounds == <<calls, edits, faults>>
vars == <<journal, ynab, late, call, bounds, history>>

-----------------------------------------------------------------------------
(* Entries, calls and requests.                                            *)

StepStatus == {"pending", "intent", "applied", "conflict", "unknown"}
EntryStatus == {"prepared", "running", "partial", "unknown", "conflict", "completed"}

StepState == [status   : StepStatus,
              attempts : Nat,
              verified : BOOLEAN]      \* verified_after is recorded

EntryOf(p) == [plan     : {p},
               tenant   : Tenant,
               session  : Runner,
               rebound  : SUBSET Runner,      \* recovery_sessions
               status   : EntryStatus,
               revision : Nat,
               steps    : [DOMAIN Plan[p] -> StepState]]
Entry == UNION {EntryOf(p) : p \in PlanId}
NoEntry == [status |-> "absent"]

NewEntry(r, p) ==
    [plan |-> p, tenant |-> TenantOf[r], session |-> r, rebound |-> {},
     status |-> "prepared", revision |-> 0,
     steps |-> [j \in DOMAIN Plan[p] |->
                  [status |-> "pending", attempts |-> 0, verified |-> FALSE]]]

Label == {"save", "verify", "check", "apply", "write", "readback", "return"}

\* A call of execute: where it stands, the step its loop has reached, where it
\* goes on once its save is durable, its copy of the entry, persistedRevision
\* (0 for null) and, as history, the steps it has seen in the expected state.
Call == [op : OpId, pc : Label, at : Nat, ret : [pc : Label, at : Nat],
         entry : Entry, known : Nat, fresh : SUBSET StepNo]
NoCall == [pc |-> "idle"]

\* A write request is one attempt at one step of an operation's plan.
Request == UNION {[op : OpId, plan : {p}, at : DOMAIN Plan[p], attempt : Nat] : p \in PlanId}

-----------------------------------------------------------------------------
(* What a call does with its copy c, between two awaits.                   *)

Here(c, j) == Plan[c.entry.plan][j]
Mine(c, j) == c.entry.steps[j]
Observed(c, j) == ynab[Here(c, j).target]
NoChange(c, j) == Here(c, j).before = Here(c, j).after
RequestOf(c, j) ==
    [op |-> c.op, plan |-> c.entry.plan, at |-> j, attempt |-> Mine(c, j).attempts]

Goto(c, p, i) == [c EXCEPT !.pc = p, !.at = i]
SaveThen(c, p, i) == [c EXCEPT !.pc = "save", !.ret = [pc |-> p, at |-> i]]
Sees(c, j) == [c EXCEPT !.fresh = @ \cup {j}]

\* Replace step j of the copy and set the status of the entry.
Put(c, j, step, entry) ==
    [c EXCEPT !.entry.steps[j] = step, !.entry.status = entry]
Mark(c, j, step, entry) == Put(c, j, [Mine(c, j) EXCEPT !.status = step], entry)
Applied(c, j, entry) ==
    Put(c, j, [status |-> "applied", attempts |-> Mine(c, j).attempts,
               verified |-> TRUE], entry)
Intent(c, j) ==
    Put(c, j, [status |-> "intent", attempts |-> Mine(c, j).attempts + 1,
               verified |-> Mine(c, j).verified], "running")

\* Save a final status for this call and return.
StopAt(c, j, step, entry) == SaveThen(Mark(c, j, step, entry), "return", 1)
Finish(c, entry) == SaveThen([c EXCEPT !.entry.status = entry], "return", 1)
Unavailable(c) == Finish(c, "unknown")

\* Mutant: the write adds the planned difference.
Incremented(v, step) == [v EXCEPT !.main = @ + step.after.main - step.before.main]

\* The write sets the recorded absolute value of one field (writeOperationStep
\* sends category_id or budgeted alone) and leaves the others as it finds them.
Written(v, step) == [v EXCEPT !.main = step.after.main]

\* The steps that are left for the loops of execute; a loop takes the first.
Ahead(c) == {j \in DOMAIN c.entry.steps : c.at <= j}
ToVerify(c) == {j \in Ahead(c) : Mine(c, j).status = "applied" \/ Mine(c, j).verified}
ToApply(c) == {j \in Ahead(c) : Mine(c, j).status # "applied"}
IsFirst(j, left) == j \in left /\ \A k \in left : j <= k

-----------------------------------------------------------------------------
Init ==
    /\ journal = [o \in OpId |-> NoEntry]
    /\ ynab = Start
    /\ late = {}
    /\ call = [r \in Runner |-> NoCall]
    /\ calls = 0 /\ edits = 0 /\ faults = 0
    /\ sent = {}
    /\ touched = [t \in Target |-> {}]

\* Bounds: the last call of a behaviour comes alone and meets no fault.
Last == calls = MaxCalls
Fault == ~Last /\ faults < MaxFaults /\ faults' = faults + 1

Becomes(r, c) == call' = [call EXCEPT ![r] = c]
At(r, p) == call[r].pc = p

\* A call starts with entry e, before anything has been read from YNAB.
Opened(o, e) ==
    [op |-> o, pc |-> "verify", at |-> 1, ret |-> [pc |-> "verify", at |-> 1],
     entry |-> e, known |-> e.revision, fresh |-> {}]

Opens(r, c) ==
    /\ At(r, "idle") /\ calls < MaxCalls
    /\ calls' = calls + 1
    /\ Last' => \A q \in Runner : At(q, "idle")
    /\ Becomes(r, c)
    /\ UNCHANGED <<journal, ynab, late, edits, faults, history>>

InScope(r, o) == journal[o] # NoEntry /\ journal[o].tenant = TenantOf[r]

\* run(input) for an id the journal does not hold: the whole plan is saved
\* before anything else.
RunNew(r, o, p) ==
    /\ journal[o] = NoEntry
    /\ Opens(r, SaveThen(Opened(o, NewEntry(r, p)), "verify", 1))

\* run(input) for an id the journal holds: the same tenant, session and plan,
\* or the call throws; a completed operation is replayed without a write.
RunAgain(r, o, p) ==
    /\ InScope(r, o)
    /\ journal[o].session = r /\ journal[o].plan = p
    /\ journal[o].status # "completed"
    /\ Opens(r, Opened(o, journal[o]))

\* resume(scope), with allowSessionRebind as the resume_operation tool sends
\* it; another session of the tenant is recorded before the recovery starts.
Resume(r, o) ==
    /\ InScope(r, o) /\ journal[o].status # "completed"
    /\ LET c == Opened(o, journal[o]) IN
       Opens(r, IF journal[o].session = r THEN c
                ELSE SaveThen([c EXCEPT !.entry.rebound = @ \cup {r}], "verify", 1))

Return(r) ==
    /\ At(r, "return")
    /\ Becomes(r, NoCall)
    /\ UNCHANGED <<journal, ynab, late, bounds, history>>

-----------------------------------------------------------------------------
(* save(): compare the revision of the durable entry and replace it.       *)

\* Mutant: the presence of the entry is compared, its revision is not.
PresenceMatches(c) == (c.known = 0) <=> (journal[c.op] = NoEntry)

RevisionMatches(c) ==
    IF c.known = 0 THEN journal[c.op] = NoEntry
    ELSE /\ journal[c.op] # NoEntry
         /\ journal[c.op].revision = c.known
         /\ journal[c.op].tenant = c.entry.tenant

NextEntry(c) == [c.entry EXCEPT !.revision = c.known + 1]
Acknowledged(c) == [c EXCEPT !.entry = NextEntry(c), !.known = c.known + 1]
Persist(c) == journal' = [journal EXCEPT ![c.op] = NextEntry(c)]

SaveDurable(r) ==
    LET c == call[r] IN
    /\ At(r, "save") /\ RevisionMatches(c)
    /\ Persist(c)
    /\ Becomes(r, Goto(Acknowledged(c), c.ret.pc, c.ret.at))
    /\ UNCHANGED <<ynab, late, bounds, history>>

\* OPERATION_CONCURRENT_CHANGE: the call throws and changes nothing.
SaveConflict(r) ==
    /\ At(r, "save") /\ ~RevisionMatches(call[r])
    /\ Becomes(r, NoCall)
    /\ UNCHANGED <<journal, ynab, late, bounds, history>>

\* JOURNAL_PERSIST_FAILED: the adapter failed, and the entry is either not
\* durable or durable with its acknowledgement lost.
SaveFailed(r) ==
    /\ At(r, "save") /\ Fault
    /\ \/ UNCHANGED journal
       \/ RevisionMatches(call[r]) /\ Persist(call[r])
    /\ Becomes(r, NoCall)
    /\ UNCHANGED <<ynab, late, calls, edits, history>>

-----------------------------------------------------------------------------
(* The three loops of execute.                                             *)

\* A step of a loop that reads YNAB, or fails to, and touches nothing else.
Loop(r, c) == Becomes(r, c) /\ UNCHANGED <<journal, ynab, late, calls, edits, history>>
Succeeds(r, c) == Loop(r, c) /\ UNCHANGED faults
ReadFails(r, c) == Fault /\ Loop(r, c)

\* Every verified step must still be in its after-state.
VerifyStep(r, j) ==
    LET c == call[r] IN
    /\ At(r, "verify") /\ IsFirst(j, ToVerify(c))
    /\ \/ ReadFails(r, Unavailable(c))
       \/ /\ Observed(c, j) # Here(c, j).after
          /\ Succeeds(r, StopAt(c, j, "conflict", "conflict"))
       \/ /\ Observed(c, j) = Here(c, j).after
          /\ Succeeds(r, IF Mine(c, j).status = "applied"
                         THEN Goto(Sees(c, j), "verify", j + 1)
                         ELSE SaveThen(Mark(Sees(c, j), j, "applied", c.entry.status),
                                       "verify", j + 1))

VerifyDone(r) ==
    /\ At(r, "verify") /\ ToVerify(call[r]) = {}
    /\ Succeeds(r, Goto(call[r], "check", 1))

\* Mutant: an after-state counts only without an attempt; see Reached.
ReachedNever(c, j) == Observed(c, j) = Here(c, j).after /\ NoChange(c, j)

\* The after-state was reached by an attempt of this operation, or needs none.
Reached(c, j) ==
    /\ Observed(c, j) = Here(c, j).after
    /\ Mine(c, j).attempts > 0 \/ NoChange(c, j)

AtBefore(c, j) == ~Reached(c, j) /\ Observed(c, j) = Here(c, j).before

\* What the second and the third loop do when the target is not before.
Recognise(r, j, loop) ==
    LET c == call[r] IN
    \/ /\ Reached(c, j)
       /\ Succeeds(r, SaveThen(Applied(Sees(c, j), j, "running"), loop, j + 1))
    \/ /\ ~Reached(c, j) /\ ~AtBefore(c, j)
       /\ Succeeds(r, StopAt(c, j, "conflict", "conflict"))

\* Every remaining target is checked before any of them is changed.
CheckStep(r, j) ==
    LET c == call[r] IN
    /\ At(r, "check") /\ IsFirst(j, ToApply(c))
    /\ \/ ReadFails(r, Unavailable(c))
       \/ Recognise(r, j, "check")
       \/ AtBefore(c, j) /\ Succeeds(r, Goto(Sees(c, j), "check", j + 1))

CheckDone(r) ==
    /\ At(r, "check") /\ ToApply(call[r]) = {}
    /\ Succeeds(r, Goto(call[r], "apply", 1))

\* Mutant: the write is sent before the intent is saved.
ApplyStepUnsaved(r, j) ==
    LET c == call[r] IN
    /\ At(r, "apply") /\ IsFirst(j, ToApply(c)) /\ AtBefore(c, j)
    /\ Succeeds(r, Goto(Intent(Sees(c, j), j), "write", j))

\* One more fresh read, then the intent is saved before the write is sent.
ApplyStep(r, j) ==
    LET c == call[r] IN
    /\ At(r, "apply") /\ IsFirst(j, ToApply(c))
    /\ \/ ReadFails(r, Unavailable(c))
       \/ Recognise(r, j, "apply")
       \/ AtBefore(c, j) /\ Succeeds(r, SaveThen(Intent(Sees(c, j), j), "write", j))

ApplyDone(r) ==
    /\ At(r, "apply") /\ ToApply(call[r]) = {}
    /\ Succeeds(r, Finish(call[r], "completed"))

Changed(t, v, who) ==
    /\ ynab' = [ynab EXCEPT ![t] = v]
    /\ touched' = [touched EXCEPT ![t] = @ \cup {who}]

\* writeStep: the request is applied, lost, or still under way when the caller
\* gives up; the code tells these apart only by the read that follows.
WriteStep(r) ==
    LET c == call[r]
        step == Here(c, c.at)
    IN
    /\ At(r, "write")
    /\ sent' = sent \cup {RequestOf(c, c.at)}
    /\ \/ /\ Changed(step.target, Written(ynab[step.target], step), c.op)
          /\ UNCHANGED <<late, faults>>
       \/ Fault /\ UNCHANGED <<late, ynab, touched>>
       \/ Fault /\ late' = late \cup {RequestOf(c, c.at)} /\ UNCHANGED <<ynab, touched>>
    /\ Becomes(r, Goto(c, "readback", c.at))
    /\ UNCHANGED <<journal, calls, edits>>

ReadBack(r) ==
    LET c == call[r]
        j == c.at
        isAfter == Observed(c, j) = Here(c, j).after
        isBefore == ~isAfter /\ Observed(c, j) = Here(c, j).before
    IN
    /\ At(r, "readback")
    /\ \/ ReadFails(r, StopAt(c, j, "unknown", "unknown"))
       \/ /\ isAfter
          /\ Succeeds(r, SaveThen(Applied(c, j, c.entry.status), "apply", j + 1))
       \/ isBefore /\ Succeeds(r, StopAt(c, j, "pending", "partial"))
       \/ ~isAfter /\ ~isBefore /\ Succeeds(r, StopAt(c, j, "conflict", "conflict"))

-----------------------------------------------------------------------------
(* The environment.                                                        *)

\* The process or Durable Object dies; what it held in memory is lost.
Crash(r) ==
    /\ ~At(r, "idle") /\ Fault
    /\ Becomes(r, NoCall)
    /\ UNCHANGED <<journal, ynab, late, calls, edits, history>>

\* A request that timed out here is applied after all.
LateWrite(w) ==
    LET step == Plan[w.plan][w.at] IN
    /\ Changed(step.target, Written(ynab[step.target], step), w.op)
    /\ late' = late \ {w}
    /\ UNCHANGED <<journal, call, bounds, sent>>

\* Somebody edits a target in YNAB.
ExternalEdit(t, v) ==
    /\ edits < MaxEdits /\ edits' = edits + 1
    /\ v # ynab[t]
    /\ Changed(t, v, User)
    /\ UNCHANGED <<journal, late, call, calls, faults, sent>>

Calls(r) ==
    \E o \in OpId :
        \/ Resume(r, o)
        \/ \E p \in PlanId : RunNew(r, o, p) \/ RunAgain(r, o, p)

\* The steps a call takes by itself once it has started.
Progress(r) ==
    \/ SaveDurable(r) \/ SaveConflict(r) \/ SaveFailed(r) \/ Return(r)
    \/ \E j \in StepNo : VerifyStep(r, j) \/ CheckStep(r, j) \/ ApplyStep(r, j)
    \/ VerifyDone(r) \/ CheckDone(r) \/ ApplyDone(r)
    \/ WriteStep(r) \/ ReadBack(r)

Environment ==
    \/ \E r \in Runner : Crash(r)
    \/ \E w \in late : LateWrite(w)
    \/ \E t \in Target, v \in Value : ExternalEdit(t, v)

Next == Environment \/ \E r \in Runner : Calls(r) \/ Progress(r)

Spec == Init /\ [][Next]_vars

-----------------------------------------------------------------------------
(* Properties.                                                             *)

\* Every variable keeps the shape the code gives it.
TypeOK ==
    /\ journal \in [OpId -> Entry \cup {NoEntry}]
    /\ ynab \in [Target -> Value]
    /\ late \subseteq Request
    /\ call \in [Runner -> Call \cup {NoCall}]
    /\ calls \in Nat /\ edits \in Nat /\ faults \in Nat
    /\ sent \subseteq Request
    /\ touched \in [Target -> SUBSET (OpId \cup {User})]

Exists(o) == journal[o] # NoEntry
StepsOf(o) == DOMAIN journal[o].steps
TargetOf(o, j) == Plan[journal[o].plan][j].target
ByOthers(o, t) == touched[t] \ {o}

Journaled(w) ==
    /\ Exists(w.op)
    /\ journal[w.op].plan = w.plan
    /\ w.at \in StepsOf(w.op)
    /\ w.attempt <= journal[w.op].steps[w.at].attempts

\* "Persist intent before every attempt" (write-recovery.mjs:290): whatever
\* crashes, fails or races, a request that YNAB has received or is about to
\* receive is accounted for in the durable entry, so a later recovery knows
\* that the after-state may be its own work.
IntentBeforeWrite ==
    /\ \A w \in sent : Journaled(w)
    /\ \A r \in Runner : At(r, "write") => Journaled(RequestOf(call[r], call[r].at))

\* No two requests are ever sent under one durable intent: of the instances
\* that recover an operation at the same time, the revision lets one attempt.
OneRequestPerIntent ==
    \A r \in Runner : At(r, "write") => RequestOf(call[r], call[r].at) \notin sent

\* A step counts as applied only on the evidence of a fresh read, and only if
\* the operation attempted it or it changes nothing: an after-state somebody
\* else produced is a stale plan (docs/write-recovery.md, "An unattempted
\* step already matching after-state is a stale plan").
AppliedOnEvidence ==
    \A o \in OpId : Exists(o) =>
        \A j \in StepsOf(o) :
            LET step == journal[o].steps[j]
                plan == Plan[journal[o].plan][j] IN
            /\ step.status = "applied" => step.verified
            /\ step.verified => step.attempts > 0 \/ plan.before = plan.after
            /\ journal[o].status = "completed" => step.status = "applied"

\* What the journal calls verified really holds in YNAB, as long as nobody
\* but the operation itself has changed the target; no late duplicate of its
\* own requests disturbs it, because a request sets an absolute value.
VerifiedHolds ==
    \A o \in OpId : Exists(o) =>
        \A j \in StepsOf(o) :
            /\ journal[o].steps[j].verified
            /\ ByOthers(o, TargetOf(o, j)) = {}
            => ynab[TargetOf(o, j)] = Plan[journal[o].plan][j].after

\* Lost replies, crashes and competing recoveries are never mistaken for an
\* external edit: a conflict is reported only if somebody else changed one of
\* the operation's targets, or its plan was already stale at the outset.
ConflictHasCause ==
    \A o \in OpId : Exists(o) /\ journal[o].status = "conflict" =>
        \E j \in StepsOf(o) :
            \/ ByOthers(o, TargetOf(o, j)) # {}
            \/ Start[TargetOf(o, j)] # Plan[journal[o].plan][j].before

\* What the journal says of an operation is so, of its steps and of its end.
OutcomeIsTrue == VerifiedHolds /\ ConflictHasCause

\* "Check every remaining independent target before changing any of them"
\* (write-recovery.mjs:254): a call that sends a write has itself seen every
\* step of the plan in its expected state.
CheckedBeforeWrite ==
    \A r \in Runner : At(r, "write") => call[r].fresh = DOMAIN call[r].entry.steps

-----------------------------------------------------------------------------
(* Liveness: a call that has started runs on by itself, and the client calls
   resume_operation as long as the operation is unfinished.              *)

FairSpec ==
    /\ Spec
    /\ \A r \in Runner : WF_vars(Progress(r))
    /\ \A r \in Runner, o \in OpId : WF_vars(Resume(r, o))

\* If nobody edits the targets meanwhile, an operation whose plan was once
\* recorded completes in the end: after each crash, lost write, failed save or
\* lost race with another recovery one more resume_operation is enough, and no
\* status is a dead end.
RecoveryConverges ==
    \A o \in OpId :
        Exists(o) ~> /\ Exists(o)
                     /\ \/ journal[o].status = "completed"
                        \/ \E j \in StepsOf(o) : ByOthers(o, TargetOf(o, j)) # {}

-----------------------------------------------------------------------------
(* The durable journal implements DurableOperation.                        *)

Abstract(e) ==
    IF e = NoEntry THEN [phase |-> "absent"]
    ELSE [phase    |-> IF e.status = "completed" THEN "completed" ELSE "open",
          owner    |-> <<e.tenant, e.session>>,
          plan     |-> e.plan,
          attempts |-> [j \in DOMAIN e.steps |-> e.steps[j].attempts],
          verified |-> {j \in DOMAIN e.steps : e.steps[j].verified}]

Promise == INSTANCE DurableOperation WITH
    Owner <- {<<TenantOf[r], r>> : r \in Runner},
    PlanSteps <- [p \in PlanId |-> DOMAIN Plan[p]],
    Changing <- [p \in PlanId |->
        {j \in DOMAIN Plan[p] : Plan[p][j].before # Plan[p][j].after}],
    op <- [o \in OpId |-> Abstract(journal[o])]

\* Every save of every runner is a step the abstract operation allows, or
\* none: plans, owners and verified steps are final, whatever interleaves.
KeepsPromise == Promise!Spec

=============================================================================
