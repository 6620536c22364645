---------------------------- MODULE RateLimiter ----------------------------
(***************************************************************************)
(* The way of every request to YNAB (secureFetchRequest of index.js):      *)
(* tool calls that run side by side draw on one token bucket, wait on      *)
(* timers while it is empty, and send an attempt again after a reply that  *)
(* allows it.  YNAB may carry a request out and its reply be lost, or      *)
(* carry it out after the server has given up waiting.                     *)
(***************************************************************************)
EXTENDS Integers, Sequences

CONSTANTS
    Request,      \* the requests made of YNAB
    Reads,        \* those whose method is GET or HEAD
    Refill,       \* time in which the bucket gains a token: 3600000 / requestsPerHour
    Burst,        \* what it holds
    Hour,         \* the window of YNAB's own limit
    MaxRetries,   \* YNAB_HTTP_RETRIES
    RetryAfter,   \* delays YNAB may name in a reply
    Patience,     \* the longest delay it is granted
    Backoff(_),   \* the delay before a retry of which it has named none
    Arrivals,     \* when requests may be made
    Timeout,      \* YNAB_HTTP_TIMEOUT_MS
    Lateness,     \* how late a timer may fire: a bound for TLC
    MaxFaults     \* bound on the replies that are lost or refuse a request

ASSUME LimiterAssumption ==
    /\ {Burst, Refill} \subseteq Nat \ {0}
    /\ {Hour, MaxRetries, Patience, Timeout, Lateness, MaxFaults} \subseteq Nat
    /\ Reads \subseteq Request /\ RetryAfter \subseteq Nat /\ Arrivals \subseteq Nat
    /\ \A n \in 0..MaxRetries : Backoff(n) \in Nat

VARIABLES
    now,        \* Date.now()
    level,      \* tokens in the bucket, a token counted as Refill
    updatedAt,  \* when it was last computed
    pc,         \* where each request is: "new", "waits", "flies", "backs off", "ended"
    due,        \* when it is made, when its timer fires
    attempt,    \* its retries so far
    apiRequestTimes,  \* when requests were sent, those of the last hour
    abroad,     \* writes on their way to YNAB that it may still carry out
    applied,    \* how often it has carried each one out
    faults

bucket == <<level, updatedAt, apiRequestTimes>>
vars == <<now, bucket, pc, due, attempt, abroad, applied, faults>>

Full == Burst * Refill

TypeOK ==
    /\ now \in Nat /\ updatedAt \in 0..now
    /\ level \in 0..Full
    /\ pc \in [Request -> {"new", "waits", "flies", "backs off", "ended"}]
    /\ due \in [Request -> Nat]
    /\ attempt \in [Request -> 0..MaxRetries]
    /\ apiRequestTimes \in Seq(Nat)
    /\ abroad \in [Request -> 0..1] /\ applied \in [Request -> Nat]
    /\ faults \in 0..MaxFaults

Init ==
    /\ now = 0 /\ level = Full /\ updatedAt = 0 /\ apiRequestTimes = <<>>
    /\ pc = [r \in Request |-> "new"]
    /\ due \in [Request -> Arrivals] /\ attempt = [r \in Request |-> 0]
    /\ abroad = [r \in Request |-> 0] /\ applied = [r \in Request |-> 0]
    /\ faults = 0

Goto(r, l) == pc' = [pc EXCEPT ![r] = l]

-----------------------------------------------------------------------------
(* The bucket.                                                             *)

\* Mutant: the bucket has no bottom to its capacity.
RefilledUnbounded == level + (now - updatedAt)

\* What it holds now.
Refilled ==
    LET tokens == level + (now - updatedAt) IN IF tokens <= Full THEN tokens ELSE Full

\* Mutant: one that slept does not ask again.
AsksOnce(r) == pc[r] \in {"new", "backs off"} /\ now >= due[r]

\* A request asks for its turn: at first, when the timer of its wait fires,
\* and for each retry when its delay is over.
Asks(r) == pc[r] \in {"new", "waits", "backs off"} /\ now >= due[r]

\* recordApiRequest: what is an hour old is dropped at the next request.
Record ==
    LET times == Append(apiRequestTimes, now)
    IN  \E k \in 1..Len(times) :
            /\ times[k] >= now - Hour /\ \A j \in 1..(k - 1) : times[j] < now - Hour
            /\ apiRequestTimes' = SubSeq(times, k, Len(times))

\* There is a token: the attempt is counted and sent.
Send(r) ==
    /\ Asks(r) /\ Refilled >= Refill
    /\ level' = Refilled - Refill /\ updatedAt' = now
    /\ Record
    /\ Goto(r, "flies") /\ due' = [due EXCEPT ![r] = now + Timeout]
    /\ abroad' = IF r \in Reads THEN abroad ELSE [abroad EXCEPT ![r] = 1]
    /\ UNCHANGED <<now, attempt, applied, faults>>

\* There is none: it sleeps until one will be there, and asks again.
Wait(r) ==
    /\ Asks(r) /\ Refilled < Refill
    /\ level' = Refilled /\ updatedAt' = now
    /\ Goto(r, "waits") /\ due' = [due EXCEPT ![r] = now + (Refill - Refilled)]
    /\ UNCHANGED <<now, apiRequestTimes, attempt, abroad, applied, faults>>

-----------------------------------------------------------------------------
(* Replies.                                                                *)

Fault == faults < MaxFaults /\ faults' = faults + 1

Retries(r, delay) ==
    /\ attempt[r] < MaxRetries
    /\ attempt' = [attempt EXCEPT ![r] = @ + 1]
    /\ Goto(r, "backs off") /\ due' = [due EXCEPT ![r] = now + delay]

\* retryDelayMs: what YNAB asks for, within reason, or a delay of its own.
Delays(r) ==
    {Backoff(attempt[r])} \cup {IF t <= Patience THEN t ELSE Patience : t \in RetryAfter}

End(r) ==
    /\ Goto(r, "ended")
    /\ due' = [due EXCEPT ![r] = 0] /\ attempt' = [attempt EXCEPT ![r] = 0]

Retry(r, delays) ==
    \/ \E delay \in delays : Retries(r, delay)
    \/ attempt[r] = MaxRetries /\ End(r)

\* YNAB carries a write out, whoever still waits for its reply.
Apply(r) ==
    /\ abroad[r] = 1
    /\ abroad' = [abroad EXCEPT ![r] = 0] /\ applied' = [applied EXCEPT ![r] = @ + 1]
    /\ UNCHANGED <<now, bucket, pc, due, attempt, faults>>

\* The reply to a request that was carried out, or will never be.
Reply(r) ==
    /\ pc[r] = "flies" /\ abroad[r] = 0 /\ End(r)
    /\ UNCHANGED <<now, bucket, abroad, applied, faults>>

\* 429: not carried out, so that any method may be sent again.
Limited(r) ==
    /\ pc[r] = "flies" /\ Fault /\ (r \in Reads \/ abroad[r] = 1)
    /\ abroad' = [abroad EXCEPT ![r] = 0]
    /\ Retry(r, Delays(r))
    /\ UNCHANGED <<now, bucket, applied>>

\* Mutant: 502, 503 and 504 are retried whatever the method.
UnavailableAny(r) ==
    /\ pc[r] = "flies" /\ Fault /\ Retry(r, Delays(r))
    /\ UNCHANGED <<now, bucket, abroad, applied>>

\* 502, 503 and 504 say nothing of what became of the request.
Unavailable(r) ==
    /\ pc[r] = "flies" /\ Fault
    /\ IF r \in Reads THEN Retry(r, Delays(r)) ELSE End(r)
    /\ UNCHANGED <<now, bucket, abroad, applied>>

\* No reply in time, or none that arrives: fetchOnce throws.
Lost(r) ==
    /\ pc[r] = "flies" /\ ((now >= due[r] /\ UNCHANGED faults) \/ Fault)
    /\ IF r \in Reads THEN Retry(r, {Backoff(attempt[r])}) ELSE End(r)
    /\ UNCHANGED <<now, bucket, abroad, applied>>

\* Time passes, but no timer fires later than Lateness.
Tick ==
    /\ \E r \in Request : pc[r] # "ended"
    /\ \A r \in Request : pc[r] # "ended" => now < due[r] + Lateness
    /\ now' = now + 1
    /\ UNCHANGED <<bucket, pc, due, attempt, abroad, applied, faults>>

Step(r) ==
    Send(r) \/ Wait(r) \/ Reply(r) \/ Limited(r) \/ Unavailable(r) \/ Lost(r)

Next == Tick \/ \E r \in Request : Step(r) \/ Apply(r)

Spec == Init /\ [][Next]_vars

\* Timers fire, a request in flight is answered or times out, time passes.
Fairness == WF_vars(Tick) /\ \A r \in Request : WF_vars(Step(r))

FairSpec == Spec /\ Fairness

-----------------------------------------------------------------------------
(* Properties.                                                             *)

\* No hour, wherever it begins, sees more requests than the bucket holds and
\* gains in it: 10 and 190 by default, which is YNAB's limit of 200, retries
\* and all (README.md, "Rate Limiting").
HourlyLimit ==
    \A i, j \in DOMAIN apiRequestTimes :
        i <= j /\ apiRequestTimes[j] - apiRequestTimes[i] <= Hour =>
            (j - i + 1) * Refill <= Full + Hour

\* A write is carried out at most once, whatever is retried, lost or late.
AppliedAtMostOnce == \A r \in Request \ Reads : applied[r] <= 1

\* Every request comes to an end: none starves at the bucket, however many
\* are woken for one token.
RequestsEnd == \A r \in Request : <>(pc[r] = "ended")
=============================================================================
