---------------------------- MODULE GuardedWrite ----------------------------
(***************************************************************************)
(* Writes behind previews: preview_write_tool issues a single-use token    *)
(* for an exact plan (lib/write-previews.mjs), a guarded write tool claims *)
(* it, reads fresh state again and sends only requests of that plan        *)
(* (registerTool, secureFetch of index.js).  A call of either tool waits   *)
(* for the earlier calls of its server instance (serializeWrite) and then  *)
(* goes through its awaits one step at a time; calls of other instances,   *)
(* users of the YNAB app and the clock act between them.                   *)
(***************************************************************************)
EXTENDS Integers, Sequences, FiniteSets

CONSTANTS
    Session,        \* server instances, one per MCP session
    Consent,        \* the consent the sessions of a hosted server share
    Input,          \* tools with their arguments
    State,          \* what YNAB holds
    Start,          \* what it holds at first
    View(_, _),     \* View(i, s): what readWriteToolState reads in state s
    Requests(_, _), \* the requests the handler of i sends in state s
    Apply(_, _),    \* what a request makes of a state
    Edited(_),      \* the states a user's edit may lead to
    Ttl, MaxTime,   \* life of a preview; bound on the clock
    MaxStored,      \* previews kept for one owner (100 in the code)
    MaxRetries,     \* retries of one request (2 in the code)
    MaxCalls, MaxShared,        \* bounds on the calls of one session, of several
    MaxEdits, MaxFaults,        \* bounds
    MaxTotal        \* bound on calls, edits, faults and ticks together

Request == UNION {{Requests(i, s)[k] : k \in DOMAIN Requests(i, s)} : i \in Input, s \in State}

ASSUME GuardAssumption ==
    /\ {Ttl, MaxTime, MaxRetries, MaxCalls, MaxShared, MaxEdits, MaxFaults, MaxTotal} \subseteq Nat
    /\ MaxStored \in Nat \ {0} /\ MaxShared <= MaxCalls
    /\ Consent \notin Session
    /\ Start \in State
    /\ \A s \in State : Edited(s) \subseteq State /\ \A r \in Request : Apply(r, s) \in State
    /\ \A i \in Input, s \in State : Requests(i, s) \in Seq(Request)

VARIABLES
    hosted,     \* previews are kept in the Durable Object (never changes)
    world,      \* what YNAB holds
    late,       \* requests that timed out and are still on their way
    stored,     \* the previews kept: [token, owner, plan, expires]
    call,       \* the calls made: [session, kind, input, token]
    pc,         \* where each call is
    plan,       \* the plan each call has prepared
    grant,      \* the preview each write has claimed
    todo,       \* requests its handler has still to send
    used,       \* intents of its plan that are used up
    attempt,    \* retries of the request being sent
    now, edits, faults,
    approved,   \* history: the plan issued under each token
    processed,  \* history: the requests YNAB has processed for each call
    disturbed   \* history: calls during which something else changed YNAB

control == <<call, pc, plan, grant, todo, used, attempt>>
history == <<approved, processed, disturbed>>
vars == <<hosted, world, late, stored, control, now, edits, faults, history>>

CallNo == 1..MaxCalls
PlanSpace == [input : Input, before : {View(i, s) : i \in Input, s \in State}, intents : Seq(Request)]
NoPlan == [input |-> "none", before |-> <<>>, intents |-> <<>>]
Preview == [token : CallNo, owner : Session \cup {Consent}, plan : PlanSpace, expires : Nat]
NoPreview == [token |-> 0, owner |-> "none", plan |-> NoPlan, expires |-> 0]
Call == [session : Session, kind : {"preview", "write"}, input : Input, token : 0..MaxCalls]
Location == {"queued", "read", "capture", "handler", "send", "fetch", "ended", "done"}

Made == DOMAIN call
Active(c) == pc[c] \notin {"queued", "ended", "done"}

\* What previews are bound to: the session that asks, or the consent.
OwnerOf(s) == IF hosted THEN Consent ELSE s
Owner(c) == OwnerOf(call[c].session)

TypeOK ==
    /\ hosted \in BOOLEAN
    /\ world \in State
    /\ late \subseteq CallNo \X Request
    /\ stored \subseteq Preview
    /\ call \in Seq(Call) /\ Len(call) <= MaxCalls
    /\ pc \in [Made -> Location]
    /\ plan \in [Made -> PlanSpace \cup {NoPlan}]
    /\ grant \in [Made -> Preview \cup {NoPreview}]
    /\ todo \in [Made -> Seq(Request)]
    /\ \A c \in Made : used[c] \subseteq DOMAIN plan[c].intents
    /\ attempt \in [Made -> 0..MaxRetries]
    /\ now \in 0..MaxTime /\ edits \in 0..MaxEdits /\ faults \in 0..MaxFaults
    /\ \A p \in stored : Cardinality({q \in stored : q.owner = p.owner}) <= MaxStored

Init ==
    /\ hosted \in BOOLEAN
    /\ world = Start /\ late = {} /\ stored = {}
    /\ call = <<>> /\ pc = <<>> /\ plan = <<>> /\ grant = <<>>
    /\ todo = <<>> /\ used = <<>> /\ attempt = <<>>
    /\ now = 0 /\ edits = 0 /\ faults = 0
    /\ approved = <<>> /\ processed = <<>> /\ disturbed = {}

Room == Len(call) + now + edits + faults < MaxTotal

Goto(c, l) == pc' = [pc EXCEPT ![c] = l]
Fault == Room /\ faults < MaxFaults /\ faults' = faults + 1

-----------------------------------------------------------------------------
(* Calls.                                                                  *)

\* A client calls preview_write_tool, or a write tool with confirmed:true and
\* a token it has been given.
Submit(s, kind, i, t) ==
    /\ Room /\ Len(call) < IF \A d \in Made : call[d].session = s THEN MaxCalls ELSE MaxShared
    /\ IF kind = "preview" THEN t = 0 ELSE t \in DOMAIN approved
    /\ call' = Append(call, [session |-> s, kind |-> kind, input |-> i, token |-> t])
    /\ pc' = Append(pc, "queued")
    /\ plan' = Append(plan, NoPlan) /\ grant' = Append(grant, NoPreview)
    /\ todo' = Append(todo, <<>>) /\ used' = Append(used, {})
    /\ attempt' = Append(attempt, 0)
    /\ processed' = Append(processed, <<>>)
    /\ UNCHANGED <<hosted, world, late, stored, now, edits, faults, approved, disturbed>>

\* Mutant: a queue that a failed call blocks.
TurnOnSuccess(c) ==
    \A d \in 1..(c - 1) : call[d].session = call[c].session => pc[d] = "done"

\* serializeWrite: the earlier calls of this instance have ended, well or not.
Turn(c) ==
    \A d \in 1..(c - 1) : call[d].session = call[c].session => ~Active(d) /\ pc[d] # "queued"

StartPreview(c) ==
    /\ pc[c] = "queued" /\ call[c].kind = "preview" /\ Turn(c)
    /\ Goto(c, "read")
    /\ UNCHANGED <<hosted, world, late, stored, call, plan, grant, todo, used, attempt, now, edits, faults, history>>

\* A local store drops what has expired at every claim, the hosted one does not.
Purged(c) == {p \in stored : p.owner = Owner(c) /\ ~hosted => p.expires > now}

\* Mutant: previews are not bound to a session.
ClaimableByAnyone(c) == {p \in stored : p.token = call[c].token}

\* The preview a call can claim: a store holds the previews of one owner.
Claimable(c) == {p \in stored : p.token = call[c].token /\ p.owner = Owner(c)}

\* Mutant: the preview is read and stays.
ClaimKeeping(c) ==
    /\ pc[c] = "queued" /\ call[c].kind = "write" /\ Turn(c)
    /\ \E p \in Claimable(c) : p.expires > now /\ grant' = [grant EXCEPT ![c] = p]
    /\ Goto(c, "read")
    /\ UNCHANGED <<hosted, world, late, stored, call, plan, todo, used, attempt, now, edits, faults, history>>

\* previews.claim: the preview is taken out, whether or not it is still good.
Claim(c) ==
    /\ pc[c] = "queued" /\ call[c].kind = "write" /\ Turn(c)
    /\ \E p \in Claimable(c) :
        /\ stored' = Purged(c) \ {p}
        /\ IF p.expires > now
           THEN Goto(c, "read") /\ grant' = [grant EXCEPT ![c] = p]
           ELSE Goto(c, "ended") /\ UNCHANGED grant
    /\ UNCHANGED <<hosted, world, late, call, plan, todo, used, attempt, now, edits, faults, history>>

\* Missing, used, or of another session or consent.
ClaimMissing(c) ==
    /\ pc[c] = "queued" /\ call[c].kind = "write" /\ Turn(c) /\ Claimable(c) = {}
    /\ stored' = Purged(c)
    /\ Goto(c, "ended")
    /\ UNCHANGED <<hosted, world, late, call, plan, grant, todo, used, attempt, now, edits, faults, history>>

\* The store is out of reach; the claim may have been carried out.
ClaimLost(c) ==
    /\ pc[c] = "queued" /\ call[c].kind = "write" /\ Turn(c)
    /\ hosted /\ Fault
    /\ stored' \in {stored, stored \ Claimable(c)}
    /\ Goto(c, "ended")
    /\ UNCHANGED <<hosted, world, late, call, plan, grant, todo, used, attempt, now, edits, history>>

\* readWriteToolState: the arguments and a fresh read of what they concern.
Read(c) ==
    /\ pc[c] = "read" /\ Goto(c, "capture")
    /\ plan' = [plan EXCEPT ![c] = [input |-> call[c].input, before |-> View(call[c].input, world), intents |-> <<>>]]
    /\ UNCHANGED <<hosted, world, late, stored, call, grant, todo, used, attempt, now, edits, faults, history>>

\* The handler runs up to its writes, which are captured instead of sent.
Prepared(c) == [plan[c] EXCEPT !.intents = Requests(call[c].input, world)]

\* Space for one more: the expired go, then those that expire first (hosted) or
\* were issued first (local).
Before(p, q) == IF hosted THEN p.expires < q.expires ELSE p.token < q.token
Mine(c) == {p \in stored : p.owner = Owner(c) /\ p.expires > now}

\* Mutant: nothing is evicted.
EvictionsNone(c) == {{}}

Evictions(c) ==
    LET excess == Cardinality(Mine(c)) - (MaxStored - 1)
    IN  IF excess <= 0 THEN {{}}
        ELSE {E \in SUBSET Mine(c) : Cardinality(E) = excess
                 /\ \A p \in E, q \in Mine(c) \ E : ~Before(q, p)}

Store(c) ==
    \E E \in Evictions(c) :
        stored' = ({p \in stored : p.owner # Owner(c)} \cup (Mine(c) \ E)) \cup
            {[token |-> c, owner |-> Owner(c), plan |-> Prepared(c), expires |-> now + Ttl]}

\* previews.issue.
Issue(c) ==
    /\ pc[c] = "capture" /\ call[c].kind = "preview"
    /\ Store(c)
    /\ plan' = [plan EXCEPT ![c] = Prepared(c)]
    /\ approved' = [t \in DOMAIN approved \cup {c} |-> IF t = c THEN Prepared(c) ELSE approved[t]]
    /\ Goto(c, "done")
    /\ UNCHANGED <<hosted, world, late, call, grant, todo, used, attempt, now, edits, faults, processed, disturbed>>

\* Stored, but the answer is lost and nobody learns the token.
IssueLost(c) ==
    /\ pc[c] = "capture" /\ call[c].kind = "preview"
    /\ hosted /\ Fault
    /\ Store(c) /\ Goto(c, "ended")
    /\ UNCHANGED <<hosted, world, late, call, plan, grant, todo, used, attempt, now, edits, history>>

\* Mutant: the plan is not looked at again.
ValidAnyPlan(c) == grant[c].expires > now

\* validate: the preview has not expired meanwhile and its fingerprint is that
\* of the plan just prepared.
Valid(c) == grant[c].expires > now /\ grant[c].plan = Prepared(c)

Validate(c) ==
    /\ pc[c] = "capture" /\ call[c].kind = "write"
    /\ plan' = [plan EXCEPT ![c] = Prepared(c)]
    /\ Goto(c, IF Valid(c) THEN "handler" ELSE "ended")
    /\ UNCHANGED <<hosted, world, late, stored, call, grant, todo, used, attempt, now, edits, faults, history>>

\* The handler proper reads for itself and knows what to send.
Handler(c) ==
    /\ pc[c] = "handler" /\ Goto(c, "send")
    /\ todo' = [todo EXCEPT ![c] = Requests(call[c].input, world)]
    /\ UNCHANGED <<hosted, world, late, stored, call, plan, grant, used, attempt, now, edits, faults, history>>

-----------------------------------------------------------------------------
(* Requests: secureFetch.                                                  *)

\* The intents a request may use up.
Unused(c) == {k \in DOMAIN plan[c].intents \ used[c] : plan[c].intents[k] = Head(todo[c])}

Authorize(c) ==
    /\ pc[c] = "send" /\ todo[c] # <<>>
    /\ IF Unused(c) = {}
       THEN Goto(c, "ended") /\ UNCHANGED <<used, attempt>>
       ELSE /\ \E k \in Unused(c) : (\A j \in Unused(c) : k <= j) /\ used' = [used EXCEPT ![c] = @ \cup {k}]
            /\ Goto(c, "fetch") /\ attempt' = [attempt EXCEPT ![c] = 0]
    /\ UNCHANGED <<hosted, world, late, stored, call, plan, grant, todo, now, edits, faults, history>>

Finish(c) ==
    /\ pc[c] = "send" /\ todo[c] = <<>> /\ Goto(c, "done")
    /\ UNCHANGED <<hosted, world, late, stored, call, plan, grant, todo, used, attempt, now, edits, faults, history>>

\* YNAB carries out a request of call c.
Process(c, r) ==
    /\ world' = Apply(r, world)
    /\ processed' = [processed EXCEPT ![c] = Append(@, r)]

\* Other calls see a change that is not theirs; a request that comes late is
\* not expected by its own instance either.
Disturb(S) == disturbed' = disturbed \cup {d \in S : Active(d)}

\* 2xx: the next request.
Answer(c) ==
    /\ pc[c] = "fetch" /\ Goto(c, "send")
    /\ Process(c, Head(todo[c]))
    /\ todo' = [todo EXCEPT ![c] = Tail(@)]
    /\ Disturb({d \in Made : call[d].session # call[c].session})
    /\ UNCHANGED <<hosted, late, stored, call, plan, grant, used, attempt, now, edits, faults, approved>>

\* 429: rejected unprocessed, tried again a few times.
TooMany(c) ==
    /\ pc[c] = "fetch" /\ Fault
    /\ IF attempt[c] < MaxRetries
       THEN attempt' = [attempt EXCEPT ![c] = @ + 1] /\ UNCHANGED pc
       ELSE Goto(c, "ended") /\ UNCHANGED attempt
    /\ UNCHANGED <<hosted, world, late, stored, call, plan, grant, todo, used, now, edits, history>>

\* A timeout, a network failure, 5xx: carried out, or not, or later.  A write
\* is not tried again.
Unknown(c) ==
    /\ pc[c] = "fetch" /\ Fault /\ Goto(c, "ended")
    /\ \/ Process(c, Head(todo[c])) /\ UNCHANGED late
          /\ Disturb({d \in Made : call[d].session # call[c].session})
       \/ UNCHANGED <<world, processed, late, disturbed>>
       \/ late' = late \cup {<<c, Head(todo[c])>>} /\ UNCHANGED <<world, processed, disturbed>>
    /\ UNCHANGED <<hosted, stored, call, plan, grant, todo, used, attempt, now, edits, approved>>

\* A read fails, the handler refuses, the client goes away.
Fail(c) ==
    /\ pc[c] \in {"read", "capture", "handler"} /\ Fault /\ Goto(c, "ended")
    /\ UNCHANGED <<hosted, world, late, stored, call, plan, grant, todo, used, attempt, now, edits, history>>

-----------------------------------------------------------------------------
(* The rest of the world.                                                  *)

Late(c, r) ==
    /\ late' = late \ {<<c, r>>}
    /\ Process(c, r) /\ Disturb(Made)
    /\ UNCHANGED <<hosted, stored, control, now, edits, faults, approved>>

Edit ==
    /\ Room /\ edits < MaxEdits /\ edits' = edits + 1
    /\ world' \in Edited(world) /\ Disturb(Made)
    /\ UNCHANGED <<hosted, late, stored, control, now, faults, approved, processed>>

Tick ==
    /\ Room /\ now < MaxTime /\ now' = now + 1
    /\ UNCHANGED <<hosted, world, late, stored, control, edits, faults, history>>

Progress(c) ==
    \/ StartPreview(c) \/ Claim(c) \/ ClaimMissing(c) \/ Read(c) \/ Issue(c) \/ Validate(c)
    \/ Handler(c) \/ Authorize(c) \/ Finish(c) \/ Answer(c)

Trouble(c) == ClaimLost(c) \/ IssueLost(c) \/ TooMany(c) \/ Unknown(c) \/ Fail(c)

Next ==
    \/ \E s \in Session, kind \in {"preview", "write"}, i \in Input, t \in 0..MaxCalls : Submit(s, kind, i, t)
    \/ \E c \in Made : Progress(c) \/ Trouble(c)
    \/ \E q \in late : Late(q[1], q[2])
    \/ Edit \/ Tick

Spec == Init /\ [][Next]_vars

\* Every await ends: fetchOnce has a timeout, and the runtime runs what is due.
FairSpec == Spec /\ \A c \in CallNo : WF_vars(c \in Made /\ Progress(c))

-----------------------------------------------------------------------------
(* Properties.                                                             *)

Times(r, rs) == Cardinality({k \in DOMAIN rs : rs[k] = r})
WritesUnder(t) == {c \in Made : call[c].kind = "write" /\ call[c].token = t}

\* YNAB processes only what was approved, and each request of an approved plan
\* once: however often its token is presented, whatever is retried, times out
\* or comes late ("tokens are single-use", "no financial write is blindly
\* retried").
AsApproved ==
    \A c \in Made : \A k \in DOMAIN processed[c] :
        LET r == processed[c][k] IN
        /\ call[c].token \in DOMAIN approved
        /\ Times(r, approved[call[c].token].intents) >= Times(r, processed[c])
        /\ \A d \in WritesUnder(call[c].token) \ {c} : processed[d] = <<>>

\* The plan a write sends was approved for what its own instance still finds:
\* nothing this instance does comes between the fresh read and the write.
ReviewedStateHolds ==
    \A c \in Made :
        pc[c] = "fetch" /\ processed[c] = <<>> /\ c \notin disturbed =>
            View(call[c].input, world) = approved[call[c].token].before

\* A token works for the session (hosted: the consent) it was issued to, and
\* until it expires: no handler starts to write with another one.
GrantIsGood ==
    [][\A c \in Made : pc[c] = "capture" /\ pc'[c] = "handler" =>
            /\ Owner(c) = OwnerOf(call[call[c].token].session)
            /\ now < grant[c].expires]_vars

\* All calls come to an end, and a failed one does not block the others.
CallsEnd == <>[](\A c \in Made : pc[c] \in {"ended", "done"})

=============================================================================
