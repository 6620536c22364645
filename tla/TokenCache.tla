----------------------------- MODULE TokenCache -----------------------------
(***************************************************************************)
(* How a local process finds its YNAB token when it starts                 *)
(* (resolveYnabRuntimeConfig of index.js): from the settings it inherits   *)
(* and those of the agents, from a token file, or from 1Password by way of *)
(* a cache file that processes share (op-token-cache.mjs).  Processes      *)
(* start side by side and without a lock, so that each read, unlink and    *)
(* rename is a step of its own; a step may fail and a process may die; the *)
(* item in 1Password is rotated.                                           *)
(***************************************************************************)
EXTENDS Naturals, Sequences, FiniteSetsExt

CONSTANTS
    Process,
    Settings,     \* what a process may find: for each source, the keys it gives a value
    Ttl,          \* OP_TOKEN_CACHE_TTL_MS
    OpTime,       \* the timeout of `op read`
    MaxTime,      \* bound
    MaxFaults     \* bound on the steps that fail and the processes that die

VARIABLES
    now,
    item,      \* 1Password: the version of the token in the item
    retired,   \* history: when each version was replaced
    settings, agent,   \* of each process; agent: detectAgentRuntime()
    pc,        \* "new", "cache", "unlink", "asks", "writes", "token", "discovery", "dead"
    got,       \* the token of each process and when it came by it
    file,      \* the cache file of each reference
    faults

vars == <<now, item, retired, settings, agent, pc, got, file, faults>>

Reference == {"op://a", "op://b"}
Key == {"YNAB_API_TOKEN", "YNAB_API_TOKEN_FILE", "YNAB_OP_PATH"}
Token == [of : Reference \cup {"settings", "file", "none"}, version : Nat, at : Nat]
Missing == [of |-> "none", version |-> 0, at |-> 0]

TypeOK ==
    /\ now \in 0..MaxTime /\ faults \in 0..MaxFaults /\ item \in Nat
    /\ retired \in Seq(0..MaxTime) /\ Len(retired) = item
    /\ settings \in [Process -> Settings] /\ agent \in [Process -> {"codex", "claude", "unknown"}]
    /\ pc \in [Process -> {"new", "cache", "unlink", "asks", "writes", "token", "discovery", "dead"}]
    /\ got \in [Process -> Token] /\ file \in [Reference -> Token]

Init ==
    /\ now = 0 /\ item = 0 /\ retired = <<>> /\ faults = 0
    /\ settings \in [Process -> Settings] /\ agent \in [Process -> {"codex", "claude"}]
    /\ pc = [p \in Process |-> "new"] /\ got = [p \in Process |-> Missing]
    /\ file = [r \in Reference |-> Missing]

Goto(p, l) == pc' = [pc EXCEPT ![p] = l]
Fault == faults < MaxFaults /\ faults' = faults + 1

-----------------------------------------------------------------------------
(* The settings.                                                           *)

\* The host's own settings before those of the other agent.
Sources(p) ==
    IF agent[p] = "claude" THEN <<"env", "claude", "codex shell", "codex mcp">>
                           ELSE <<"env", "codex shell", "codex mcp", "claude">>

\* Each key has the value of the first source that gives it one.
Value(p, key) ==
    LET giving == {i \in DOMAIN Sources(p) : key \in DOMAIN settings[p][Sources(p)[i]]}
    IN  IF giving = {} THEN "none" ELSE settings[p][Sources(p)[Min(giving)]][key]

Has(p, key) == Value(p, key) # "none"
OpPath(p) == Value(p, "YNAB_OP_PATH")

Found(p, of, version) ==
    Goto(p, "token") /\ got' = [got EXCEPT ![p] = [of |-> of, version |-> version, at |-> now]]

\* A token that was set is used; a token file that cannot be read is passed over.
Start(p) ==
    /\ pc[p] = "new"
    /\ \/ Has(p, "YNAB_API_TOKEN") /\ Found(p, "settings", 0) /\ UNCHANGED faults
       \/ ~Has(p, "YNAB_API_TOKEN") /\ Has(p, "YNAB_API_TOKEN_FILE") /\ Found(p, "file", 0) /\ UNCHANGED faults
       \/ /\ ~Has(p, "YNAB_API_TOKEN")
          /\ IF Has(p, "YNAB_API_TOKEN_FILE") THEN Fault ELSE UNCHANGED faults
          /\ Goto(p, IF Has(p, "YNAB_OP_PATH") THEN "cache" ELSE "discovery")
          /\ UNCHANGED got
    /\ UNCHANGED <<now, item, retired, settings, agent, file>>

-----------------------------------------------------------------------------
(* The cache.                                                              *)

\* Mutant: a token is stale a moment too late.
FreshToTheLast(f) == now - f.at <= Ttl

Fresh(f) == now - f.at < Ttl

\* readCachedOpToken: no file, or one that is not to be trusted, is a miss.
ReadCache(p) ==
    LET f == file[OpPath(p)]
    IN  /\ pc[p] = "cache"
        /\ \/ /\ f # Missing /\ Fresh(f) /\ UNCHANGED faults
              /\ Found(p, f.of, f.version)
           \/ f # Missing /\ ~Fresh(f) /\ Goto(p, "unlink") /\ UNCHANGED <<got, faults>>
           \/ /\ IF f # Missing THEN Fault ELSE UNCHANGED faults
              /\ Goto(p, "asks") /\ got' = [got EXCEPT ![p] = [Missing EXCEPT !.at = now]]
        /\ UNCHANGED <<now, item, retired, settings, agent, file>>

\* The file it found stale is removed by name: another process may have put a
\* fresh one in its place.
UnlinkStale(p) ==
    /\ pc[p] = "unlink"
    /\ file' = [file EXCEPT ![OpPath(p)] = Missing]
    /\ Goto(p, "asks") /\ got' = [got EXCEPT ![p] = [Missing EXCEPT !.at = now]]
    /\ UNCHANGED <<now, item, retired, settings, agent, faults>>

\* 1Password reads the item for `op read`.
OpReads(p) ==
    /\ pc[p] = "asks" /\ got[p].of = "none"
    /\ got' = [got EXCEPT ![p] = [of |-> OpPath(p), version |-> item, at |-> @.at]]
    /\ UNCHANGED <<now, item, retired, settings, agent, pc, file, faults>>

\* `op read` returns, which is when the lookup is dated, or it fails and the
\* process knows no other source.
OpReturns(p) ==
    /\ pc[p] = "asks" /\ got[p].of # "none"
    /\ Goto(p, "writes") /\ got' = [got EXCEPT ![p].at = now]
    /\ UNCHANGED <<now, item, retired, settings, agent, file, faults>>

OpFails(p) ==
    /\ pc[p] = "asks" /\ ((now - got[p].at >= OpTime /\ UNCHANGED faults) \/ Fault)
    /\ Goto(p, "discovery") /\ got' = [got EXCEPT ![p] = Missing]
    /\ UNCHANGED <<now, item, retired, settings, agent, file>>

\* writeCachedOpToken: the temporary file is renamed, or its failure ignored.
WriteCache(p) ==
    /\ pc[p] = "writes" /\ Goto(p, "token")
    /\ \/ file' = [file EXCEPT ![OpPath(p)] = got[p]] /\ UNCHANGED faults
       \/ Fault /\ UNCHANGED file
    /\ UNCHANGED <<now, item, retired, settings, agent, got>>

-----------------------------------------------------------------------------

Dies(p) ==
    /\ pc[p] \in {"unlink", "asks", "writes"} /\ Fault /\ Goto(p, "dead")
    /\ UNCHANGED <<now, item, retired, settings, agent, got, file>>

Rotate ==
    /\ item = 0 /\ item' = item + 1 /\ retired' = Append(retired, now)
    /\ UNCHANGED <<now, settings, agent, pc, got, file, faults>>

\* `op read` is given up in time, and the write that follows it is short.
Tick ==
    /\ now < MaxTime /\ now' = now + 1
    /\ \A p \in Process : pc[p] # "writes" /\ (pc[p] = "asks" => now - got[p].at < OpTime)
    /\ UNCHANGED <<item, retired, settings, agent, pc, got, file, faults>>

Step(p) ==
    \/ Start(p) \/ ReadCache(p) \/ UnlinkStale(p)
    \/ OpReads(p) \/ OpReturns(p) \/ OpFails(p) \/ WriteCache(p) \/ Dies(p)

Next == Rotate \/ Tick \/ \E p \in Process : Step(p)

Spec == Init /\ [][Next]_vars

-----------------------------------------------------------------------------
(* Properties.                                                             *)

\* A process never starts with a token that 1Password has not held for longer
\* than the cache may keep it and `op read` may take, nor with another item's:
\* "a cached copy keeps working for up to 10 minutes" (README.md:691).
TokenIsRecent ==
    \A p \in Process :
        pc[p] \in {"writes", "token"} /\ got[p].of \in Reference =>
            /\ got[p].of = OpPath(p)
            /\ got[p].version < item =>
                   got[p].at < retired[got[p].version + 1] + Ttl + OpTime

\* "processes that start inside that window read the cache instead of calling
\* `op`" (README.md:686): no step takes a lookup away that is still fresh.
WindowIsKept ==
    [][\A r \in Reference :
          file[r] # Missing /\ Fresh(file[r]) => file'[r] # Missing]_vars
=============================================================================
