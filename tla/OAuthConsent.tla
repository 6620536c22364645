---------------------------- MODULE OAuthConsent ----------------------------
(***************************************************************************)
(* The hosted connector's consents for one YNAB user                       *)
(* (worker/src/ynab-handler.js): an authorization goes through a consent   *)
(* form, YNAB's sign-in and a final form before it stores a credential in  *)
(* the user's Durable Object and completes a grant at the OAuth provider;  *)
(* a deletion goes through a sign-in and a final form too, then revokes    *)
(* the grants and wipes the credentials.  Flows interleave at every await, *)
(* fail and stop anywhere.  Each request to the Durable Object is one step *)
(* here: its queue makes it one.                                           *)
(***************************************************************************)
EXTENDS Integers, FiniteSets

CONSTANTS
    Flow,        \* authorizations and deletions, each started once
    Purpose(_),  \* "authorize" or "delete"
    Party(_),    \* the client and connector origin a flow is for
    MaxFaults    \* bound on failures

ASSUME ConsentAssumption ==
    /\ MaxFaults \in Nat
    /\ \A f \in Flow : Purpose(f) \in {"authorize", "delete"}

VARIABLES
    loc,         \* where each flow is
    gen,         \* credentialGeneration of its stored record
    generation,  \* deletion_generation of the Durable Object
    creds,       \* flows whose credential is stored
    grants,      \* flows whose grant the provider holds
    captured,    \* grants a flow has still to revoke
    faults,
    rank, completed,   \* history: the order in which grants were completed
    outdated,    \* history: forms prepared before a wipe
    wiped,       \* history: flows past their check when a wipe came
    touched      \* history: parties whose grants a deletion has reached

store == <<generation, creds>>
marks == <<outdated, wiped, touched>>
history == <<rank, completed, marks>>
vars == <<loc, gen, store, grants, captured, faults, history>>

Location ==
    {"none", "consent", "state", "callback", "put", "final", "create", "capture", "complete",
     "exists", "revoke", "remove", "cleanup", "list", "purge", "wipe", "done", "failed"}
Ended(f) == loc[f] \in {"done", "failed"}

TypeOK ==
    /\ loc \in [Flow -> Location]
    /\ gen \in [Flow -> Nat] /\ generation \in Nat
    /\ creds \subseteq Flow /\ grants \subseteq Flow
    /\ captured \in [Flow -> SUBSET Flow]
    /\ faults \in 0..MaxFaults
    /\ rank \in [Flow -> Nat] /\ completed \in Nat
    /\ outdated \subseteq Flow /\ wiped \subseteq Flow /\ touched \subseteq {Party(f) : f \in Flow}

Init ==
    /\ loc = [f \in Flow |-> "none"] /\ gen = [f \in Flow |-> 0]
    /\ generation = 0 /\ creds = {} /\ grants = {}
    /\ captured = [f \in Flow |-> {}] /\ faults = 0
    /\ rank = [f \in Flow |-> 0] /\ completed = 0
    /\ outdated = {} /\ wiped = {} /\ touched = {}

Goto(f, l) == loc' = [loc EXCEPT ![f] = l]
Fault == faults < MaxFaults /\ faults' = faults + 1

-----------------------------------------------------------------------------
(* Forms.  Their records are read and removed in one transaction.          *)

\* GET /authorize, or GET and POST /delete.
Ask(f) ==
    /\ loc[f] = "none"
    /\ Goto(f, IF Purpose(f) = "authorize" THEN "consent" ELSE "state")
    /\ UNCHANGED <<gen, store, grants, captured, faults, history>>

\* POST /authorize: on to YNAB's sign-in.
Agree(f) ==
    /\ loc[f] = "consent" /\ Goto(f, "state")
    /\ UNCHANGED <<gen, store, grants, captured, faults, history>>

\* GET /callback: the code is exchanged and the user looked up.
Callback(f) ==
    /\ loc[f] = "state" /\ Goto(f, IF Purpose(f) = "authorize" THEN "callback" ELSE "put")
    /\ UNCHANGED <<gen, store, grants, captured, faults, history>>

\* credentialGeneration.
ReadGeneration(f) ==
    /\ loc[f] = "callback" /\ Goto(f, "put")
    /\ gen' = [gen EXCEPT ![f] = generation]
    /\ UNCHANGED <<store, grants, captured, faults, history>>

\* The final form is stored and shown.
Show(f) ==
    /\ loc[f] = "put" /\ Goto(f, "final")
    /\ UNCHANGED <<gen, store, grants, captured, faults, history>>

\* POST /callback.
Confirm(f) ==
    /\ loc[f] = "final" /\ Goto(f, IF Purpose(f) = "authorize" THEN "create" ELSE "list")
    /\ UNCHANGED <<gen, store, grants, captured, faults, history>>

-----------------------------------------------------------------------------
(* persistTokensAndAuthorize.                                              *)

\* Mutant: the generation is not compared.
CurrentAlways(f) == TRUE

Current(f) == gen[f] = generation

\* /create.
Create(f) ==
    /\ loc[f] = "create"
    /\ IF Current(f) THEN creds' = creds \cup {f} /\ Goto(f, "capture")
       ELSE UNCHANGED creds /\ Goto(f, "failed")
    /\ UNCHANGED <<gen, generation, grants, captured, faults, history>>

\* The credential is stored and the answer lost: nothing cleans up.
CreateLost(f) ==
    /\ loc[f] = "create" /\ Fault /\ Current(f)
    /\ creds' = creds \cup {f} /\ Goto(f, "failed")
    /\ UNCHANGED <<gen, generation, grants, captured, history>>

Peers(f) == {g \in grants : Party(g) = Party(f)}

\* Mutant: the grant is completed first and the others listed then.
CaptureAfter(f) ==
    /\ loc[f] = "capture" /\ Goto(f, "exists")
    /\ grants' = grants \cup {f}
    /\ captured' = [captured EXCEPT ![f] = {g \in Flow : Party(g) = Party(f) /\ loc[g] \in {"capture", "exists", "revoke", "done"}} \ {f}]
    /\ UNCHANGED <<gen, store, faults, history>>

\* captureSameOriginGrantIds: the provider's list may lag behind.
Capture(f) ==
    /\ loc[f] = "capture" /\ Goto(f, "complete")
    /\ \E S \in SUBSET Peers(f) : captured' = [captured EXCEPT ![f] = S]
    /\ UNCHANGED <<gen, store, grants, faults, history>>

\* completeAuthorization.
Complete(f) ==
    /\ loc[f] = "complete" /\ Goto(f, "exists")
    /\ grants' = grants \cup {f}
    /\ completed' = completed + 1 /\ rank' = [rank EXCEPT ![f] = completed + 1]
    /\ UNCHANGED <<gen, store, captured, faults, marks>>

\* Capture or completion fails, the latter perhaps after it has stored.
AuthorizeFails(f) ==
    /\ loc[f] \in {"capture", "complete"} /\ Fault /\ Goto(f, "remove")
    /\ \/ UNCHANGED grants
       \/ loc[f] = "complete" /\ grants' = grants \cup {f}
    /\ UNCHANGED <<gen, store, captured, history>>

\* /exists: a deletion may have come in between.
Exists(f) ==
    /\ loc[f] = "exists" /\ Goto(f, IF f \in creds THEN "revoke" ELSE "remove")
    /\ UNCHANGED <<gen, store, grants, captured, faults, history>>

ExistsFails(f) ==
    /\ loc[f] = "exists" /\ Fault /\ Goto(f, "remove")
    /\ UNCHANGED <<gen, store, grants, captured, history>>

\* revokeCapturedGrants: a failure leaves the grant; then the redirect.
Revoke(f) ==
    /\ loc[f] = "revoke"
    /\ \/ captured[f] = {} /\ Goto(f, "done") /\ UNCHANGED <<grants, captured, faults>>
       \/ \E g \in captured[f] :
            /\ captured' = [captured EXCEPT ![f] = @ \ {g}]
            /\ \/ grants' = grants \ {g} /\ UNCHANGED faults
               \/ Fault /\ UNCHANGED grants
            /\ UNCHANGED loc
    /\ UNCHANGED <<gen, store, history>>

\* The rollback: /remove of this consent's credential,
Remove(f) ==
    /\ loc[f] = "remove" /\ creds' = creds \ {f}
    /\ \/ Goto(f, "cleanup") /\ UNCHANGED faults
       \/ Goto(f, "failed") /\ Fault
    /\ UNCHANGED <<gen, generation, grants, captured, history>>

\* A refusal is not looked at; a failed call ends the rollback.
RemoveFails(f) ==
    /\ loc[f] = "remove" /\ Fault /\ \E l \in {"cleanup", "failed"} : Goto(f, l)
    /\ UNCHANGED <<gen, store, grants, captured, history>>

\* and of its grant if the provider lists it.
Cleanup(f) ==
    /\ loc[f] = "cleanup" /\ Goto(f, "failed")
    /\ grants' \in {grants, grants \ {f}}
    /\ UNCHANGED <<gen, store, captured, faults, history>>

-----------------------------------------------------------------------------
(* Deletion.                                                               *)

\* revokeAllUserGrants: list,
List(f) ==
    /\ loc[f] = "list" /\ Goto(f, "purge")
    /\ \E S \in SUBSET grants : captured' = [captured EXCEPT ![f] = S]
    /\ UNCHANGED <<gen, store, grants, faults, history>>

\* and revoke one after the other.
Purge(f) ==
    /\ loc[f] = "purge"
    /\ \/ captured[f] = {} /\ Goto(f, "wipe") /\ UNCHANGED <<grants, captured, touched>>
       \/ \E g \in captured[f] :
            /\ captured' = [captured EXCEPT ![f] = @ \ {g}]
            /\ grants' = grants \ {g} /\ touched' = touched \cup {Party(g)}
            /\ UNCHANGED loc
    /\ UNCHANGED <<gen, store, faults, rank, completed, outdated, wiped>>

NextGeneration == generation + 1

\* A form is prepared once its flow has read the generation.
Prepared(f) == Purpose(f) = "authorize" /\ loc[f] \notin {"none", "consent", "state", "callback"}

\* /delete-all: credentials go and the generation advances in one transaction.
WipeAll ==
    /\ creds' = {} /\ generation' = NextGeneration
    /\ outdated' = outdated \cup {g \in Flow : Prepared(g)}
    /\ wiped' = wiped \cup {g \in Flow : Purpose(g) = "authorize" /\ loc[g] \in {"revoke", "done"}}
    /\ touched' = touched \cup {Party(g) : g \in creds}

Wipe(f) ==
    /\ loc[f] = "wipe" /\ Goto(f, "done") /\ WipeAll
    /\ UNCHANGED <<gen, grants, captured, faults, rank, completed>>

\* Wiped, and the answer or the removal of older records is lost.
WipeLost(f) ==
    /\ loc[f] = "wipe" /\ Fault /\ Goto(f, "failed") /\ WipeAll
    /\ UNCHANGED <<gen, grants, captured, rank, completed>>

-----------------------------------------------------------------------------

\* A record expires, a request fails without effect, the worker is stopped.
Stop(f) ==
    /\ loc[f] # "none" /\ ~Ended(f) /\ Fault /\ Goto(f, "failed")
    /\ UNCHANGED <<gen, store, grants, captured, history>>

Step(f) ==
    \/ Agree(f) \/ Callback(f) \/ ReadGeneration(f) \/ Show(f) \/ Confirm(f)
    \/ Create(f) \/ Capture(f) \/ Complete(f) \/ Exists(f) \/ Revoke(f)
    \/ Remove(f) \/ Cleanup(f) \/ List(f) \/ Purge(f) \/ Wipe(f)

Trouble(f) ==
    \/ CreateLost(f) \/ AuthorizeFails(f) \/ ExistsFails(f) \/ RemoveFails(f)
    \/ WipeLost(f) \/ Stop(f)

Next == \E f \in Flow : Ask(f) \/ Step(f) \/ Trouble(f)

Spec == Init /\ [][Next]_vars

-----------------------------------------------------------------------------
(* Properties.                                                             *)

\* A final form prepared before a deletion never yields a credential after it,
\* whichever of its steps the deletion falls between.
NoResurrection == creds \cap outdated = {}

\* A client is redirected only to a grant whose credential is there, unless
\* it was wiped after the last look at it.
RedirectHasCredential ==
    \A f \in Flow : Purpose(f) = "authorize" /\ loc[f] = "done" => f \in creds \cup wiped

\* Authorizations of one client never revoke each other: once one has been
\* redirected, and no deletion has come, the client has a grant that works.
StaysConnected ==
    \A f \in Flow :
        Purpose(f) = "authorize" /\ loc[f] = "done" /\ Party(f) \notin touched =>
            \E g \in grants \cap creds : Party(g) = Party(f)

=============================================================================
