---------------------------- MODULE EntityCache ----------------------------
(***************************************************************************)
(* The read cache of a server instance (lib/entity-cache.mjs) as the       *)
(* cached reads of index.js use it: a read hits an entry within its TTL,   *)
(* joins a read under way, waits for one that covers too little, or loads  *)
(* a baseline or a delta through secureFetch.  Writes of the instance and  *)
(* a changed credential invalidate everything while loads are on their     *)
(* way; other clients change YNAB at any time, and YNAB may restart its    *)
(* knowledge counter.                                                      *)
(***************************************************************************)
EXTENDS Integers, FiniteSets, SequencesExt

CONSTANTS
    Reader,          \* reads that may be under way at once
    Nobody,
    Key,             \* cache keys: budget, resource and scope
    Row, Value,      \* entity ids; values, 0 being deleted
    Old,             \* rows before the default start of history (1970)
    Member(_, _),    \* Member(k, v): a row of value v belongs to the scope of k
    Delta(_),        \* deltaSupported
    Ttl,             \* life of an entry
    MaxEntries, MaxBytes,   \* limits of the cache (32 entries, 16 MiB)
    Knowledge,       \* YNAB's counter at first
    MaxReads, MaxTime, MaxChanges, MaxWrites,   \* bounds on each kind of event
    MaxResets, MaxRotations, MaxFaults,
    MaxEvents        \* and on all together, some counted twice (Upset)

ASSUME CacheAssumption ==
    /\ {Ttl, MaxReads, MaxTime, MaxBytes, MaxChanges, MaxWrites, MaxResets, MaxRotations, MaxFaults, MaxEvents, Knowledge} \subseteq Nat
    /\ MaxEntries \in Nat \ {0}
    /\ Nobody \notin Reader
    /\ IsFiniteSet(Row) /\ Old \subseteq Row /\ 0 \in Value /\ Key # {}
    /\ \A k \in Key : ~Member(k, 0)
    \* Lists that change their scope with a row's contents are read without deltas.
    /\ \A k \in Key, v \in Value \ {0} : Delta(k) => Member(k, v)

VARIABLES
    server,      \* what YNAB holds: rows, when each changed, knowledge, epoch
    past,        \* history: the rows after each change
    cred,        \* the credential in force: a number that grows
    currentToken,\* the credential last seen, 0 at first
    generation, entries, storedBytes, pending,   \* the cache
    read,        \* what each reader is doing
    flight,      \* the load each reader performs
    write,       \* the instance's write under way
    acked,       \* history: where in the past its last finished write is
    answer,      \* the answer just given, and the reads it is for
    now, count   \* clock; events so far

cache == <<currentToken, generation, entries, storedBytes, pending>>
vars == <<server, past, cred, cache, read, flight, write, acked, answer, now, count>>

NoCursor == -1
Since == {0, 1}      \* from the oldest row, or from the default start

Contents == UNION {[S -> Value] : S \in SUBSET Row}
Reply == [rows : Contents, know : Nat \cup {NoCursor}, pos : Nat, epoch : Nat]
NoReply == [rows |-> <<>>, know |-> NoCursor, pos |-> 0, epoch |-> 0]
EntryType == [key : Key, since : Since, rows : Contents, cursor : Nat \cup {NoCursor},
              fetchedAt : Nat, bytes : Nat, pos : Nat, epoch : Nat, token : Nat]
ReadType == [state : {"idle", "joined", "waits", "retry", "send", "serve", "back"},
             key : Key, since : Since, saw : Nat, floor : Nat, on : Reader \cup {Nobody}]
FlightType == [base : SUBSET EntryType, since : Since, cursor : Nat \cup {NoCursor},
               gen : Nat, token : Nat, reply : Reply]
NoFlight == [base |-> {}, since |-> 1, cursor |-> NoCursor, gen |-> 0, token |-> 0, reply |-> NoReply]
NoAnswer == [readers |-> {}, rows |-> <<>>, pos |-> 0, token |-> 0, complete |-> FALSE]

Position == Len(past)
Loading(r) == read[r].state \in {"send", "serve", "back"}
Upset == {"write", "reset", "rotation", "fault"}
Happens(what, max) ==
    /\ count[what] < max
    /\ count' = [count EXCEPT ![what] = @ + 1]
    /\ FoldFunction(+, 0, count') + FoldFunctionOnSet(+, 0, count', Upset) <= MaxEvents
Idle == [state |-> "idle", key |-> CHOOSE k \in Key : TRUE, since |-> 1, saw |-> 0, floor |-> 0, on |-> Nobody]

Size(rows) == 1 + Cardinality(DOMAIN rows)
SumBytes(es) == FoldSeq(LAMBDA e, n : e.bytes + n, 0, es)

Counted == {"read", "tick", "change", "write", "reset", "rotation", "fault"}

TypeOK ==
    /\ server \in [rows : [Row -> Value], changed : [Row -> Nat], know : Nat, epoch : Nat]
    /\ past \in Seq([Row -> Value]) /\ acked \in Nat
    /\ {cred, currentToken, generation, now} \subseteq Nat
    /\ entries \in Seq(EntryType)
    /\ pending \in [Key -> Reader \cup {Nobody}]
    /\ read \in [Reader -> ReadType] /\ flight \in [Reader -> FlightType]
    /\ write \in {"idle", "begun", "sent", "applied"}
    /\ count \in [Counted -> Nat]

Init ==
    /\ \E v \in Value \ {0} : server = [rows |-> [x \in Row |-> v], changed |-> [x \in Row |-> 0], know |-> Knowledge, epoch |-> 0]
    /\ past = <<server.rows>>
    /\ cred = 1 /\ currentToken = 0
    /\ generation = 0 /\ entries = <<>> /\ storedBytes = 0
    /\ pending = [k \in Key |-> Nobody]
    /\ read = [r \in Reader |-> Idle] /\ flight = [r \in Reader |-> NoFlight]
    /\ write = "idle" /\ acked = 1
    /\ answer = NoAnswer /\ now = 0
    /\ count = [what \in Counted |-> 0]

-----------------------------------------------------------------------------
(* The cache.                                                              *)

\* Mutant: loads under way stay in the map.
InvalidateEntries ==
    /\ entries' = <<>> /\ storedBytes' = 0 /\ generation' = generation + 1
    /\ UNCHANGED pending

Invalidate ==
    /\ entries' = <<>> /\ storedBytes' = 0 /\ pending' = [k \in Key |-> Nobody]
    /\ generation' = generation + 1

\* A credential other than the last one seen clears the cache.
Rotated == currentToken \notin {0, cred}

Credential ==
    /\ currentToken' = cred
    /\ IF Rotated THEN Invalidate ELSE UNCHANGED <<generation, entries, storedBytes, pending>>

Covers(existing, requested) == existing <= requested

Existing(es, k) == {e \in Range(es) : e.key = k}
Fresh(es, q) == {e \in Existing(es, q.key) : Covers(e.since, q.since) /\ now - e.fetchedAt < Ttl}

\* The cursor a load starts from.
Cursor(b, q) ==
    IF Delta(q.key) /\ \E e \in b : Covers(e.since, q.since) THEN (CHOOSE e \in b : TRUE).cursor ELSE NoCursor

\* A narrower request keeps the boundary of the entry it refreshes.
Boundary(b, q) == IF \E e \in b : e.since < q.since THEN 0 ELSE q.since

Load(b, q, gen) ==
    [base |-> b, since |-> Boundary(b, q), cursor |-> Cursor(b, q), gen |-> gen, token |-> 0, reply |-> NoReply]

Told(readers, e, complete) ==
    [readers |-> readers, rows |-> e.rows, pos |-> e.pos, token |-> e.token, complete |-> complete]

\* read, from its first line to its first await, with the entries, loads under
\* way and generation it finds.
Enter(r, q, es, under, gen) ==
    \/ /\ Fresh(es, q) # {}
       /\ \E e \in Fresh(es, q) : answer' = Told({q}, e, TRUE)
       /\ read' = [read EXCEPT ![r] = Idle]
       /\ pending' = under /\ UNCHANGED flight
    \/ /\ Fresh(es, q) = {} /\ under[q.key] # Nobody
       /\ LET owner == under[q.key]
              kind == IF Covers(flight[owner].since, q.since) THEN "joined" ELSE "waits"
          IN  read' = [read EXCEPT ![r] = [q EXCEPT !.state = kind, !.on = owner]]
       /\ pending' = under /\ answer' = NoAnswer /\ UNCHANGED flight
    \/ /\ Fresh(es, q) = {} /\ under[q.key] = Nobody
       /\ flight' = [flight EXCEPT ![r] = Load(Existing(es, q.key), q, gen)]
       /\ read' = [read EXCEPT ![r] = [q EXCEPT !.state = "send"]]
       /\ pending' = [under EXCEPT ![q.key] = r] /\ answer' = NoAnswer

\* Reads woken by the end of a load run before anything else comes in.
NobodyWoken == \A r \in Reader : read[r].state # "retry"

\* A tool call with freshness "cached": ensureCacheCredentials, then read.
Begin(r, k, since) ==
    /\ read[r].state = "idle" /\ NobodyWoken /\ Happens("read", MaxReads)
    /\ currentToken' = cred
    /\ LET q == [state |-> "idle", key |-> k, since |-> since, saw |-> cred, floor |-> acked, on |-> Nobody]
       IN  IF Rotated
           THEN /\ Enter(r, q, <<>>, [x \in Key |-> Nobody], generation + 1)
                /\ generation' = generation + 1 /\ entries' = <<>> /\ storedBytes' = 0
           ELSE Enter(r, q, entries, pending, generation) /\ UNCHANGED <<generation, entries, storedBytes>>
    /\ UNCHANGED <<server, past, cred, write, acked, now>>

\* The load it waited for has ended: read from the start.
Retry(r) ==
    /\ read[r].state = "retry"
    /\ Enter(r, read[r], entries, pending, generation)
    /\ UNCHANGED <<server, past, cred, currentToken, generation, entries, storedBytes, write, acked, now, count>>

\* secureFetch takes the credential in force and sends the request.
Send(r) ==
    /\ read[r].state = "send" /\ NobodyWoken
    /\ Credential
    /\ flight' = [flight EXCEPT ![r].token = cred]
    /\ read' = [read EXCEPT ![r].state = "serve"]
    /\ answer' = NoAnswer
    /\ UNCHANGED <<server, past, cred, write, acked, now, count>>

-----------------------------------------------------------------------------
(* YNAB.                                                                   *)

Visible(x, since) == x \in Old => since = 0
Held(k, since, rows) == {x \in Row : Member(k, rows[x]) /\ Visible(x, since)}

\* What a list endpoint returns: all rows of the scope, or those changed after
\* the cursor, deleted ones included; a row that has left the scope is omitted.
Listed(k, since, cursor) ==
    IF cursor = NoCursor THEN Held(k, since, server.rows)
    ELSE {x \in Row : /\ server.changed[x] > cursor /\ Visible(x, since)
                      /\ (server.rows[x] = 0 \/ Member(k, server.rows[x]))}

\* The answer may come without server_knowledge.
Serve(r) ==
    /\ read[r].state = "serve" /\ NobodyWoken
    /\ LET f == flight[r]
           rows == [x \in Listed(read[r].key, f.since, f.cursor) |-> server.rows[x]]
       IN  \/ /\ flight' = [flight EXCEPT ![r].reply =
                    [rows |-> rows, know |-> server.know, pos |-> Position, epoch |-> server.epoch]]
              /\ UNCHANGED count
           \/ /\ Happens("fault", MaxFaults)
              /\ flight' = [flight EXCEPT ![r].reply =
                    [rows |-> rows, know |-> NoCursor, pos |-> Position, epoch |-> server.epoch]]
    /\ read' = [read EXCEPT ![r].state = "back"]
    /\ answer' = NoAnswer
    /\ UNCHANGED <<server, past, cred, cache, write, acked, now>>

\* A cursor of an older epoch is noticed only while the new counter is below
\* it: the counter stays there until the instance has dropped the cursor.
ResetIsVisible(know, epoch) ==
    LET cursors == {<<e.epoch, e.cursor>> : e \in Range(entries) \cup UNION {flight[r].base : r \in Reader}}
                   \cup {<<flight[r].reply.epoch, flight[r].reply.know>> : r \in Reader}
    IN  \A c \in cursors : c[1] < epoch /\ c[2] # NoCursor => know < c[2]

Becomes(x, v) ==
    /\ v # server.rows[x]
    /\ ResetIsVisible(server.know + 1, server.epoch)
    /\ server' = [server EXCEPT !.rows[x] = v, !.changed[x] = server.know + 1, !.know = @ + 1]
    /\ past' = Append(past, server'.rows)

\* Somebody else changes a row.
Change(x, v) ==
    /\ NobodyWoken /\ Happens("change", MaxChanges) /\ Becomes(x, v)
    /\ answer' = NoAnswer
    /\ UNCHANGED <<cred, cache, read, flight, write, acked, now>>

\* YNAB starts a new knowledge counter.
Reset ==
    /\ NobodyWoken /\ ResetIsVisible(0, server.epoch + 1) /\ Happens("reset", MaxResets)
    /\ server' = [server EXCEPT !.know = 0, !.changed = [x \in Row |-> 0], !.epoch = @ + 1]
    /\ answer' = NoAnswer
    /\ UNCHANGED <<past, cred, cache, read, flight, write, acked, now>>

-----------------------------------------------------------------------------
(* The end of a load.                                                      *)

\* Mutant: a delta is merged whatever its counter says.
ReloadNever(f) == FALSE

Reload(f) == f.cursor # NoCursor /\ f.reply.know < f.cursor

\* A reset or missing counter on a delta: load the baseline after all.
LoadAgain(r) ==
    /\ read[r].state = "back" /\ NobodyWoken /\ Reload(flight[r])
    /\ flight' = [flight EXCEPT ![r].cursor = NoCursor, ![r].reply = NoReply]
    /\ read' = [read EXCEPT ![r].state = "send"]
    /\ answer' = NoAnswer
    /\ UNCHANGED <<server, past, cred, cache, write, acked, now, count>>

\* merge: a baseline replaces the rows, a delta changes and deletes some.
Merged(f) ==
    LET before == IF f.cursor = NoCursor THEN <<>> ELSE (CHOOSE e \in f.base : TRUE).rows
        told == DOMAIN f.reply.rows
        kept == {x \in DOMAIN before \cup told : x \in told => f.reply.rows[x] # 0}
    IN  [x \in kept |-> IF x \in told THEN f.reply.rows[x] ELSE before[x]]

NewEntry(r) ==
    LET f == flight[r] IN
    [key |-> read[r].key, since |-> f.since, rows |-> Merged(f), cursor |-> f.reply.know,
     fetchedAt |-> now, bytes |-> Size(Merged(f)), pos |-> f.reply.pos, epoch |-> f.reply.epoch, token |-> f.token]

\* Mutant: only the number of entries is limited.
FitsByNumber(es) == Len(es) <= MaxEntries

Fits(es) == Len(es) <= MaxEntries /\ SumBytes(es) <= MaxBytes

\* remove: a key has one entry at most.
Without(k) ==
    LET at == {i \in DOMAIN entries : entries[i].key = k}
    IN  IF at = {} THEN entries ELSE RemoveAt(entries, CHOOSE i \in at : TRUE)

\* The oldest entries go until the rest fits.
Put(e) ==
    LET es == Append(Without(e.key), e)
    IN  \E i \in 1..(Len(es) + 1) :
            /\ Fits(SubSeq(es, i, Len(es)))
            /\ \A j \in 1..(i - 1) : ~Fits(SubSeq(es, j, Len(es)))
            /\ entries' = SubSeq(es, i, Len(es))
            /\ storedBytes' = storedBytes + SumBytes(entries') - SumBytes(entries)

Answered(r) == {r} \cup {q \in Reader : read[q].state = "joined" /\ read[q].on = r}

\* Mutant: those who waited are forgotten.
ReleasedAnswered(r) == [q \in Reader |-> IF q \in Answered(r) THEN Idle ELSE read[q]]

\* The load of r is over: its reader and those who joined have their answer,
\* those who waited read again.
Released(r) ==
    [q \in Reader |->
        IF q \in Answered(r) THEN Idle
        ELSE IF read[q].state = "waits" /\ read[q].on = r THEN [read[q] EXCEPT !.state = "retry", !.on = Nobody]
        ELSE read[q]]

Cleared(r) == [k \in Key |-> IF pending[k] = r THEN Nobody ELSE pending[k]]

Finish(r) ==
    /\ read[r].state = "back" /\ NobodyWoken /\ ~Reload(flight[r])
    /\ IF flight[r].gen = generation THEN Put(NewEntry(r)) ELSE UNCHANGED <<entries, storedBytes>>
    /\ answer' = Told({read[q] : q \in Answered(r)}, NewEntry(r), flight[r].gen = generation)
    /\ read' = Released(r) /\ pending' = Cleared(r)
    /\ flight' = [flight EXCEPT ![r] = NoFlight]
    /\ UNCHANGED <<server, past, cred, currentToken, generation, write, acked, now, count>>

\* The load fails: so do its reader and those who joined.
Fail(r) ==
    /\ Loading(r) /\ NobodyWoken /\ Happens("fault", MaxFaults)
    /\ read' = Released(r) /\ pending' = Cleared(r)
    /\ flight' = [flight EXCEPT ![r] = NoFlight]
    /\ answer' = NoAnswer
    /\ UNCHANGED <<server, past, cred, currentToken, generation, entries, storedBytes, write, acked, now>>

-----------------------------------------------------------------------------
(* Writes of the instance, credentials, time.                              *)

BeginWrite ==
    /\ write = "idle" /\ NobodyWoken /\ Happens("write", MaxWrites)
    /\ write' = "begun" /\ Invalidate /\ answer' = NoAnswer
    /\ UNCHANGED <<server, past, cred, currentToken, read, flight, acked, now>>

SendWrite ==
    /\ write = "begun" /\ NobodyWoken
    /\ write' = "sent" /\ Credential /\ answer' = NoAnswer
    /\ UNCHANGED <<server, past, cred, read, flight, acked, now, count>>

Process(x, v) ==
    /\ write = "sent" /\ NobodyWoken
    /\ write' = "applied" /\ Becomes(x, v) /\ answer' = NoAnswer
    /\ UNCHANGED <<cred, cache, read, flight, acked, now, count>>

\* Answered or failed; what a failed write still does later is a Change.
EndWrite ==
    /\ write # "idle" /\ NobodyWoken
    /\ write' = "idle" /\ Invalidate /\ answer' = NoAnswer
    /\ acked' = IF write = "applied" THEN Position ELSE acked
    /\ UNCHANGED <<server, past, cred, currentToken, read, flight, now, count>>

Rotate ==
    /\ NobodyWoken /\ Happens("rotation", MaxRotations) /\ cred' = cred + 1 /\ answer' = NoAnswer
    /\ UNCHANGED <<server, past, cache, read, flight, write, acked, now>>

Tick ==
    /\ NobodyWoken /\ Happens("tick", MaxTime) /\ now' = now + 1 /\ answer' = NoAnswer
    /\ UNCHANGED <<server, past, cred, cache, read, flight, write, acked>>

Next ==
    \/ \E r \in Reader :
        \/ Retry(r) \/ Send(r) \/ Serve(r) \/ LoadAgain(r) \/ Finish(r) \/ Fail(r)
        \/ \E k \in Key, since \in Since : Begin(r, k, since)
    \/ \E x \in Row, v \in Value : Change(x, v) \/ Process(x, v)
    \/ BeginWrite \/ SendWrite \/ EndWrite \/ Reset \/ Rotate \/ Tick

Spec == Init /\ [][Next]_vars

-----------------------------------------------------------------------------
(* Properties.                                                             *)

\* What a baseline read at a point of the past would have returned.
Truth(k, since, pos) == [x \in Held(k, since, past[pos]) |-> past[pos][x]]

\* However it came about - baseline, a chain of deltas, a reset, an expanded
\* history - the one entry of a key is what one full read would have returned
\* at one time.
StoredIsTrue ==
    /\ \A i, j \in DOMAIN entries : entries[i].key = entries[j].key => i = j
    /\ \A e \in Range(entries) : e.rows = Truth(e.key, e.since, e.pos)

\* An answer covers what its reader asked for, whosever load it comes from.
AnswersAreTrue ==
    \A q \in answer.readers :
        LET asked == {x \in DOMAIN answer.rows : Visible(x, q.since)}
        IN  [x \in asked |-> answer.rows[x]] = Truth(q.key, q.since, answer.pos)

CacheIsTrue == StoredIsTrue /\ AnswersAreTrue

\* The bytes that evictions go by are those of the entries, through removals
\* and invalidations, and within the limits.
WithinLimits ==
    /\ TypeOK
    /\ storedBytes = SumBytes(entries) /\ storedBytes <= MaxBytes /\ Len(entries) <= MaxEntries

\* A read that begins after a write of the instance has ended never returns
\* data from before that write.
ReadYourWrites == \A q \in answer.readers : answer.pos >= q.floor

\* An answer called complete has every write that had ended when it was given.
CompleteIsCurrent == answer.complete => answer.pos >= acked

\* No answer has data read under a credential older than the reader's.
CredentialHolds == \A q \in answer.readers : answer.token >= q.saw

\* No answer is older than its reader may expect, whichever load it shares.
AnswersAreFresh == ReadYourWrites /\ CompleteIsCurrent /\ CredentialHolds

\* Whoever waits for a load waits for one that is under way: its end wakes
\* them, and no read is left waiting for good.  Nor does the map hold a load
\* that is over, for others to wait for.
NobodyIsStranded ==
    /\ \A q \in Reader : read[q].state \in {"joined", "waits"} =>
            Loading(read[q].on) /\ read[read[q].on].key = read[q].key
    /\ \A k \in Key : pending[k] # Nobody => Loading(pending[k]) /\ read[pending[k]].key = k

=============================================================================
