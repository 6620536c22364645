--------------------------- MODULE CredentialStore ---------------------------
(***************************************************************************)
(* The Durable Object that keeps one user's credentials (credential-store- *)
(* core.js): its queue of requests, and the refresh of an access token     *)
(* that leaves it for YNAB's token endpoint (ynab-oauth.js).  YNAB may     *)
(* rotate the refresh token or leave it; replies get lost, storage fails,  *)
(* the object restarts and forgets its queue, requests it no longer waits  *)
(* for are carried out late.                                               *)
(***************************************************************************)
EXTENDS Naturals, Sequences, SequencesExt

CONSTANTS
    Consent,     \* credential bindings of one user
    Call,        \* requests to the object
    Path(_),     \* "create", "exists", "token", "remove" or "delete-all"
    Of(_),       \* the consent a call is about
    Life,        \* expires_in
    Window,      \* REFRESH_SAFETY_WINDOW_MS
    Latency,     \* how long a token reply may take: a bound the code lacks
    MaxTime, MaxFaults   \* bounds

VARIABLES
    store,       \* storage: the token record of each consent
    generation,  \* storage: deletion_generation
    queue,       \* the object's promise chain: calls in order, first is served
    asks,        \* the generation a creation was prepared in
    answer,      \* "none" until a call is answered
    sent,        \* the refresh a call has sent YNAB
    valid,       \* YNAB: the refresh token it accepts, by consent
    now, faults,
    harmed       \* history: consents whose refresh met a failure

object == <<store, generation, queue, asks, answer>>
vars == <<object, sent, valid, now, faults, harmed>>

Empty == [refresh |-> 0, expiresAt |-> 0, ends |-> 0]
\* Token records: the number of the refresh token, when the access token is taken
\* to expire, and (history) when it does.
Records == [refresh : Nat, expiresAt : Nat, ends : Nat]
\* A refresh: what became of it, the refresh token it carries, and when it was
\* sent or YNAB carried it out.
NotSent == [state |-> "unsent", refresh |-> 0, at |-> 0]
Refreshes ==
    [state : {"unsent", "sent", "rotated", "kept", "denied"}, refresh : Nat, at : Nat]

TypeOK ==
    /\ store \in [Consent -> Records] /\ valid \in [Consent -> Nat] /\ harmed \subseteq Consent
    /\ generation \in Nat /\ asks \in [Call -> Nat]
    /\ queue \in Seq(Call) /\ IsInjective(queue)
    /\ answer \in [Call -> {"none", "done", "refused", "failed"}]
    /\ \A c \in Call : answer[c] # "none" => ~Contains(queue, c)
    /\ sent \in [Call -> Refreshes]
    /\ now \in 0..MaxTime /\ faults \in 0..MaxFaults

Init ==
    /\ store \in [Consent -> {Empty, [refresh |-> 1, expiresAt |-> 0, ends |-> 0]}]
    /\ generation = 0 /\ queue = <<>>
    /\ asks = [c \in Call |-> 0] /\ answer = [c \in Call |-> "none"]
    /\ sent = [c \in Call |-> NotSent] /\ valid = [b \in Consent |-> 1]
    /\ now = 0 /\ faults = 0 /\ harmed = {}

Record(b) == store[Of(b)]
Waiting(c) == sent[c].state # "unsent"
\* Mutant: calls are handled as they come.
TurnAnytime(c) == Contains(queue, c)
\* this.queue.then(...): the call whose predecessors have been answered.
Turn(c) == queue # <<>> /\ Head(queue) = c
Serve(c) == Turn(c) /\ ~Waiting(c)

Answer(c, a) ==
    /\ answer' = [answer EXCEPT ![c] = a]
    /\ \E i \in DOMAIN queue : queue[i] = c /\ queue' = RemoveAt(queue, i)
Calm == UNCHANGED <<faults, harmed>>

-----------------------------------------------------------------------------
(* A creation is prepared, and later a request arrives.                    *)

Prepare(c) ==
    /\ Path(c) = "create" /\ answer[c] = "none" /\ ~Contains(queue, c)
    /\ asks[c] # generation /\ asks' = [asks EXCEPT ![c] = generation]
    /\ UNCHANGED <<store, generation, queue, answer, sent, valid, now>> /\ Calm

Arrive(c) ==
    /\ answer[c] = "none" /\ ~Contains(queue, c)
    /\ queue' = Append(queue, c)
    /\ UNCHANGED <<store, generation, asks, answer, sent, valid, now>> /\ Calm

Creatable(c) == asks[c] = generation /\ Record(c) = Empty

Create(c) ==
    /\ Serve(c) /\ Path(c) = "create"
    /\ IF Creatable(c)
       THEN /\ store' = [store EXCEPT ![Of(c)] =
                    [refresh |-> valid[Of(c)], expiresAt |-> now + Life, ends |-> now + Life]]
            /\ Answer(c, "done")
       ELSE UNCHANGED store /\ Answer(c, "refused")
    /\ UNCHANGED <<generation, asks, sent, valid, now>> /\ Calm

DeleteAll(c) ==
    /\ Serve(c) /\ Path(c) = "delete-all" /\ Answer(c, "done")
    /\ store' = [b \in Consent |-> Empty] /\ generation' = generation + 1
    /\ UNCHANGED <<asks, sent, valid, now>> /\ Calm

\* Mutant: no safety window.
FreshToTheLast(c) == now < Record(c).expiresAt
Fresh(c) == now + Window < Record(c).expiresAt

\* The requests that need a record: /exists, /remove, and /token while the
\* access token is fresh.
Exists(c) ==
    /\ Serve(c) /\ Path(c) \in {"exists", "remove", "token"}
    /\ \/ Record(c) = Empty /\ Answer(c, "refused") /\ UNCHANGED store
       \/ /\ Record(c) # Empty /\ (Path(c) = "token" => Fresh(c)) /\ Answer(c, "done")
          /\ store' = IF Path(c) = "remove" THEN [store EXCEPT ![Of(c)] = Empty] ELSE store
    /\ UNCHANGED <<generation, asks, sent, valid, now>> /\ Calm

-----------------------------------------------------------------------------
(* refreshStoredCredential.                                                *)

Send(c) ==
    /\ Serve(c) /\ Path(c) = "token" /\ Record(c) # Empty /\ ~Fresh(c)
    /\ sent' = [sent EXCEPT ![c] = [state |-> "sent", refresh |-> Record(c).refresh, at |-> now]]
    /\ UNCHANGED <<object, valid, now>> /\ Calm

\* YNAB's token endpoint, also for a request nobody waits for any more.
Exchange(c) ==
    /\ sent[c].state = "sent"
    /\ \/ /\ sent[c].refresh = valid[Of(c)]
          /\ \/ valid' = [valid EXCEPT ![Of(c)] = @ + 1] /\ sent' = [sent EXCEPT ![c] = [@ EXCEPT !.state = "rotated", !.at = now]]
             \/ UNCHANGED valid /\ sent' = [sent EXCEPT ![c] = [@ EXCEPT !.state = "kept", !.at = now]]
       \/ sent[c].refresh # valid[Of(c)] /\ sent' = [sent EXCEPT ![c].state = "denied"] /\ UNCHANGED valid
    /\ UNCHANGED <<object, now>> /\ Calm

\* Mutant: the old refresh token stays.
RefreshedOld(c) ==
    [refresh |-> sent[c].refresh, expiresAt |-> now + Life, ends |-> sent[c].at + Life]
\* refreshTokens: a replacement if there is one, and an expiry counted from
\* the arrival of the reply.
Refreshed(c) ==
    [refresh |-> IF sent[c].state = "rotated" THEN sent[c].refresh + 1 ELSE sent[c].refresh,
     expiresAt |-> now + Life, ends |-> sent[c].at + Life]

\* Mutant: an answer other than success leaves the call in its place.
ReceiveGranted(c) ==
    /\ Turn(c) /\ sent[c].state \in {"rotated", "kept"}
    /\ Answer(c, "done") /\ store' = [store EXCEPT ![Of(c)] = Refreshed(c)]
    /\ UNCHANGED <<generation, asks, sent, valid, now>> /\ Calm
Receive(c) ==
    /\ Turn(c) /\ sent[c].state \in {"rotated", "kept", "denied"}
    /\ IF sent[c].state = "denied" THEN Answer(c, "refused") /\ UNCHANGED store
       ELSE Answer(c, "done") /\ store' = [store EXCEPT ![Of(c)] = Refreshed(c)]
    /\ UNCHANGED <<generation, asks, sent, valid, now>> /\ Calm

-----------------------------------------------------------------------------
(* Failures and time.                                                      *)

Fault == faults < MaxFaults /\ faults' = faults + 1
Refreshing(C) == {Of(c) : c \in {d \in C : Waiting(d)}}

\* The request or its reply is lost, or storage fails: the record is kept.
Fails(c) ==
    /\ Fault /\ Turn(c) /\ Answer(c, "failed") /\ harmed' = harmed \cup Refreshing({c})
    /\ UNCHANGED <<store, generation, asks, sent, valid, now>>

Restart ==
    /\ Fault /\ queue # <<>> /\ queue' = <<>>
    /\ answer' = [c \in Call |-> IF Contains(queue, c) THEN "failed" ELSE answer[c]]
    /\ harmed' = harmed \cup Refreshing(ToSet(queue))
    /\ UNCHANGED <<store, generation, asks, sent, valid, now>>

Tick ==
    /\ now < MaxTime /\ now' = now + 1
    /\ \A c \in Call : Turn(c) /\ sent[c].state \in {"rotated", "kept"} => now < sent[c].at + Latency
    /\ UNCHANGED <<object, sent, valid>> /\ Calm

Handle(c) == Create(c) \/ DeleteAll(c) \/ Exists(c) \/ Send(c) \/ Receive(c)
Next ==
    \/ \E c \in Call : Prepare(c) \/ Arrive(c) \/ Handle(c) \/ Exchange(c) \/ Fails(c)
    \/ Restart \/ Tick

Spec == Init /\ [][Next]_vars
\* The object handles what it can; YNAB answers, or the platform gives up.
FairSpec == Spec /\ \A c \in Call : WF_vars(Handle(c)) /\ WF_vars(Exchange(c))

-----------------------------------------------------------------------------
(* Properties.                                                             *)

\* A consent whose refreshes met no failure keeps the refresh token YNAB
\* accepts, whatever sessions, removals and restarts do: "concurrent MCP
\* sessions cannot send the same rotating refresh token together"
\* (docs/hosted-oauth-connector.md).
StillAuthorized ==
    \A b \in Consent \ harmed :
        \/ store[b] = Empty \/ store[b].refresh = valid[b]
        \/ \E c \in Call : Of(c) = b /\ Turn(c) /\ sent[c].state = "rotated"

\* The access token a session is given has not expired, though its expiry is
\* counted from the arrival of YNAB's reply, as long as that took no longer
\* than the safety window.
TokenIsAlive ==
    [][\A c \in Call : Path(c) = "token" /\ answer[c] = "none" /\ answer'[c] = "done" =>
        now < store'[Of(c)].ends]_vars

\* Every request is answered, failed ones before it or not.
CallsAnswered == <>[](queue = <<>>)

\* The store carries out each request at once.  A rotation YNAB has made
\* counts from the moment its reply is stored, or is lost.
Stored == [b \in Consent |-> store[b].refresh]
Accepted ==
    [b \in Consent |->
        IF \E c \in Call : Of(c) = b /\ Turn(c) /\ sent[c].state = "rotated"
        THEN valid[b] - 1 ELSE valid[b]]
Atomic == INSTANCE AtomicCredentials WITH stored <- Stored, valid <- Accepted
IsAtomic == Atomic!Spec
=============================================================================
