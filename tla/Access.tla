------------------------------- MODULE Access -------------------------------
(* What stands between a tool call and YNAB: the hosted credential store, the  *)
(* storage under it, the token cache of local processes, the way of requests.  *)
(* They keep to themselves, so that each behaviour is one of a single part,    *)
(* under the clock and the bound on faults they share.                         *)
EXTENDS RateLimiter

CONSTANTS
    Consent, Call, Path(_), Of(_), Life, Window, Latency,   \* of CredentialStore
    Process, Settings, Ttl, OpTime,                         \* of TokenCache
    MaxTime, MaxStart,                                      \* the bounds of both
    MaxChunks, MaxRevision                                  \* of JournalStorage

\* A call is about one of the consents, YNAB's tokens live longer than a reply
\* takes to arrive, and that takes no longer than the safety window; an item of
\* 1Password is named by a reference to it.
ASSUME AccessAssumption ==
    /\ \A c \in Call : Of(c) \in Consent
    /\ {Life, Window, Latency, OpTime, MaxTime, MaxStart, MaxChunks, MaxRevision} \subseteq Nat
    /\ Latency <= Window /\ Latency < Life /\ Ttl \in Nat \ {0}
    /\ \A s \in Settings, source \in {"env", "claude", "codex shell", "codex mcp"} :
          "YNAB_OP_PATH" \in DOMAIN s[source] => s[source]["YNAB_OP_PATH"] \in {"op://a", "op://b"}

VARIABLES
    part,
    store, generation, queue, asks, answer, sent, valid, harmed,
    tokens, manifest, chunk, journal,
    item, retired, settings, agent, at, got, file

kept == <<store, generation, queue, asks, answer, sent, valid, harmed>>
disk == <<tokens, manifest, chunk, journal>>
found == <<item, retired, settings, agent, at, got, file>>
carried == <<bucket, pc, due, attempt, abroad, applied>>
all == <<part, kept, disk, found, now, faults, carried>>

Store == INSTANCE CredentialStore
Disk == INSTANCE JournalStorage WITH Binding <- Consent
Local == INSTANCE TokenCache WITH MaxTime <- MaxStart, pc <- at

\* The parts at rest.
NoCalls == Store!Init /\ store = [b \in Consent |-> Store!Empty]
NoDisk == Disk!Init /\ tokens = {}
NoStart ==
    /\ item = 0 /\ retired = <<>> /\ settings = <<>> /\ agent = <<>>
    /\ at = [p \in Process |-> "new"] /\ got = <<>>
    /\ file = [r \in Local!Reference |-> Local!Missing]
NoRequests ==
    /\ level = Full /\ updatedAt = 0 /\ apiRequestTimes = <<>>
    /\ pc = [r \in Request |-> "ended"] /\ due = [r \in Request |-> 0]
    /\ attempt = [r \in Request |-> 0]
    /\ abroad = [r \in Request |-> 0] /\ applied = [r \in Request |-> 0]

AccessInit ==
    \/ part = "store" /\ Store!Init /\ NoDisk /\ NoStart /\ NoRequests
    \/ part = "disk" /\ Disk!Init /\ NoCalls /\ NoStart /\ NoRequests
    \/ part = "start" /\ Local!Init /\ NoCalls /\ NoDisk /\ NoRequests
    \/ part = "requests" /\ Init /\ NoCalls /\ NoDisk /\ NoStart

Stores == part = "store" /\ Store!Next /\ UNCHANGED <<part, disk, found, carried>>
Disks == part = "disk" /\ Disk!Next /\ UNCHANGED <<part, kept, found, now, faults, carried>>
Starts == part = "start" /\ Local!Next /\ UNCHANGED <<part, kept, disk, carried>>
Requests == part = "requests" /\ Next /\ UNCHANGED <<part, kept, disk, found>>

AccessNext == Stores \/ Disks \/ Starts \/ Requests

Handles(c) == part = "store" /\ Store!Handle(c) /\ UNCHANGED <<part, disk, found, carried>>
Exchanges(c) == part = "store" /\ Store!Exchange(c) /\ UNCHANGED <<part, disk, found, carried>>
Steps(r) == part = "requests" /\ Step(r) /\ UNCHANGED <<part, kept, disk, found>>
Ticks == part = "requests" /\ Tick /\ UNCHANGED <<part, kept, disk, found>>

\* The fairness of CredentialStore and of RateLimiter.
AccessSpec ==
    /\ AccessInit /\ [][AccessNext]_all
    /\ \A c \in Call : WF_all(Handles(c)) /\ WF_all(Exchanges(c))
    /\ WF_all(Ticks) /\ \A r \in Request : WF_all(Steps(r))

-----------------------------------------------------------------------------
(* The properties of the parts, which state what they are about.             *)

\* The refresh token kept is the one YNAB accepts.
StillAuthorized == Store!StillAuthorized
\* The access token a session is given has not expired.
TokenIsAlive == Store!TokenIsAlive
\* The store carries out each request at once: it implements AtomicCredentials.
IsAtomic == Store!IsAtomic
\* Every call to the store is answered, every request to YNAB comes to an end.
CallsEnd == Store!CallsAnswered /\ RequestsEnd
\* A journal is read back as it was persisted, and removed without remains.
StorageHolds == Disk!StorageHolds
\* A local process starts with a token 1Password held not long ago.
TokenIsRecent == Local!TokenIsRecent
\* A lookup is there for others as long as it is fresh.
WindowIsKept == Local!WindowIsKept
=============================================================================
