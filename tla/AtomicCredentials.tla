-------------------------- MODULE AtomicCredentials --------------------------
(***************************************************************************)
(* What the private store of one user's YNAB credentials promises: each    *)
(* request is carried out at once or fails, whatever happens at YNAB's     *)
(* token endpoint meanwhile.  A refresh token that YNAB rotates is either  *)
(* replaced in the same step, or lost through a failure.                   *)
(***************************************************************************)
EXTENDS Naturals

CONSTANTS Consent, Call, Path(_), Of(_)

VARIABLES
    stored,      \* by consent: the number of the refresh token, or Empty
    valid,       \* the one YNAB accepts
    generation,  \* advanced by every deletion of everything
    asks,        \* the generation a creation was prepared in
    answer       \* what each call was told

vars == <<stored, valid, generation, asks, answer>>

Empty == 0
Paths == {"create", "exists", "token", "remove", "delete-all"}

Init ==
    /\ stored \in [Consent -> {1, Empty}] /\ valid = [b \in Consent |-> 1]
    /\ generation = 0 /\ asks = [c \in Call |-> 0] /\ answer = [c \in Call |-> "none"]

Tell(c, a) == answer[c] = "none" /\ answer' = [answer EXCEPT ![c] = a]

Prepare(c) ==
    /\ answer[c] = "none" /\ asks' = [asks EXCEPT ![c] = generation]
    /\ UNCHANGED <<stored, valid, generation, answer>>

Create(c) ==
    /\ Path(c) = "create" /\ asks[c] = generation /\ stored[Of(c)] = Empty
    /\ stored' = [stored EXCEPT ![Of(c)] = valid[Of(c)]] /\ Tell(c, "done")
    /\ UNCHANGED <<valid, generation, asks>>

Exists(c) ==
    /\ Path(c) \in {"exists", "token"} /\ stored[Of(c)] # Empty /\ Tell(c, "done")
    /\ UNCHANGED <<stored, valid, generation, asks>>

Refresh(c) ==
    /\ Path(c) = "token" /\ stored[Of(c)] = valid[Of(c)]
    /\ valid' = [valid EXCEPT ![Of(c)] = @ + 1] /\ stored' = [stored EXCEPT ![Of(c)] = valid'[Of(c)]]
    /\ Tell(c, "done") /\ UNCHANGED <<generation, asks>>

Remove(c) ==
    /\ Path(c) = "remove" /\ stored[Of(c)] # Empty
    /\ stored' = [stored EXCEPT ![Of(c)] = Empty] /\ Tell(c, "done")
    /\ UNCHANGED <<valid, generation, asks>>

DeleteAll(c) ==
    /\ Path(c) = "delete-all" /\ generation' = generation + 1
    /\ stored' = [b \in Consent |-> Empty] /\ Tell(c, "done")
    /\ UNCHANGED <<valid, asks>>

\* Nothing is there, or what is there is no longer accepted.
Refuse(c) ==
    /\ CASE Path(c) = "create" -> asks[c] # generation \/ stored[Of(c)] # Empty
         [] Path(c) = "token" -> stored[Of(c)] # valid[Of(c)]
         [] OTHER -> Path(c) # "delete-all" /\ stored[Of(c)] = Empty
    /\ Tell(c, "refused") /\ UNCHANGED <<stored, valid, generation, asks>>

\* Calls fail, and a rotation may be lost with them or later.
Fail ==
    /\ \E C \in SUBSET {c \in Call : answer[c] = "none"} :
        answer' = [c \in Call |-> IF c \in C THEN "failed" ELSE answer[c]]
    /\ valid' = valid \/ \E b \in Consent : valid' = [valid EXCEPT ![b] = @ + 1]
    /\ UNCHANGED <<stored, generation, asks>>

Next ==
    \/ \E c \in Call :
        Prepare(c) \/ Create(c) \/ Exists(c) \/ Refresh(c) \/ Remove(c) \/ DeleteAll(c) \/ Refuse(c)
    \/ Fail

Spec == Init /\ [][Next]_vars
=============================================================================
