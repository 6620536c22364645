# Formal models of the YNAB MCP server

This directory holds TLA+ models of the server in this repository, TLC
configurations that model-check them on small instances, and theorems about
them that the TLAPS proof system checks for every value of the constants. The
repository's code is the reference: every definition that models code is listed
in `PROJECT.json` (`map`) with the lines it stands for.

    tlc -workers 2 -config recovery_race.cfg MCWriteRecovery    # one run
    tlapm KvJournalProofs.tla                                   # one module's proofs

Contents: [the system](#the-system), [modules](#modules-and-how-they-correspond-to-the-code),
[runs](#what-the-runs-check), [findings](#findings), [limits the runs stay
within](#known-limits), [fairness](#fairness), [proofs](#what-is-proved),
[not modelled](#what-is-not-modelled), [plan](#plan).

## The system

The server exposes a YNAB budget to an MCP client. It runs either as a local
stdio process (one per MCP session, several at once on one journal file) or as
a Cloudflare Worker with one Durable Object per YNAB user. YNAB's API has
neither transactions nor conditional writes. Requests get lost or arrive late,
sessions race, processes die, and users edit the budget meanwhile; the parts
below exist because of that.

| Component | State | Operations | Interacts with |
| --- | --- | --- | --- |
| Durable operation runner (`lib/write-recovery.mjs`) | journal entries: plan, step statuses, attempts, verified state, revision | `run`, `resume` | journal (`mutate`), YNAB (`readStep`, `writeStep`) |
| Local journal file (`createFsJournal`) | journal file, lock file | `read`, `mutate` | other processes through the file system |
| Hosted journal (`createKvJournal`) | revision and entries in the Durable Object | `read`, `mutate` | Durable Object requests |
| Undo history (`appendUndoEntry`, `undo_operation`) | journal entries and `undo_status` | record, undo, prune | journal, previews, YNAB |
| Write previews (`lib/write-previews.mjs`, `registerTool`) | tokens with fingerprint and expiry | `issue`, `claim`, validate | guarded handlers, Durable Object |
| Guarded request path (`secureFetch`) | token bucket, times of the last hour's requests, authorised intents, retries | every HTTP request | YNAB, read cache |
| Transaction writes (`update_transaction` and its siblings) | rows read before and after, journal entry | update, approve, reassign, create, delete, undo | YNAB, undo history |
| Read cache (`lib/entity-cache.mjs`) | entries with cursor and coverage, pending reads, generation | `read`, `invalidate` | YNAB, `secureFetch` |
| Credential store (`credential-store-core.js`) | generation, credentials, journals, previews | create, exists, token, remove, delete-all | OAuth flows, sessions, YNAB's token endpoint |
| OAuth consent and deletion (`ynab-handler.js`) | transient records, grants | authorize, callback, final form, delete | credential store, OAuth provider |
| Category plans (`buildCategoryPlan`) | none: YNAB's rows in, steps out | merge, retire, move | the runner carries the steps out |
| Read tools (`lib/analytics.mjs`, `modules/category-suggestions.mjs`, `index.js`) | none: answers are functions of what was read; a client keeps the offset of the next page | forecast, summary, trends, recurring charges, suggestions, lists and searches by pages, review of unapproved rows, category search, budget health and audits | YNAB, read cache |
| Start of a local process (`resolveYnabRuntimeConfig`, `lib/op-token-cache.mjs`) | settings it inherits, a cache file of the token | resolve, read, unlink, write | other processes, 1Password |
| Tool registry (`registerTool`, `ynab_tool_index`, the executors) | what is registered in a session | list, execute, preview | every tool |

How they meet: a guarded write is previewed, queued behind earlier writes of
its session (`serializeWrite`), claims its preview, reads fresh state, sends
requests through `secureFetch` (which spends the preview's intents and
invalidates the read cache), verifies by reading back and journals an undo
entry. Multi-step exact-value plans go through the runner, whose intents are
durable before they are sent. Both use the journal, which is a locked file
locally and a compare-and-swap in the Durable Object when hosted. The Durable
Object also keeps the credential every hosted request needs and is where OAuth
flows and deletions meet. A local process takes its token from its settings or
from 1Password, once, when it starts.

What makes it hard, and what correctness means for each part, is the list
`hazards` in `PROJECT.json`: each names a source line, what can go wrong there
and the properties that would show it.

## Modules and how they correspond to the code

Every `await` at which somebody else may act is a boundary between two steps
of a model, and what happens between two awaits is one action.

### `WriteRecovery` (implements `DurableOperation`)

`execute` of `lib/write-recovery.mjs`, behind `run` and `resume`. `call[r]` is
the copy a server instance works on, `call[r].pc` the await it stands at
(`save`, `verify`, `check`, `apply`, `write`, `readback`, `return`);
`journal[o]` is the durable entry with its revision; a save compares the
revision and replaces the entry in one step (`mutate`'s transform). `ynab` is
what YNAB holds, `late` the writes that timed out here. `Environment` is the
user's edits and late writes; crashes, failed reads and saves and lost replies
are counted by `MaxFaults`. `DurableOperation` is the promise: one plan per
operation, a step is attempted until a fresh read has verified it and never
after, a completed operation does not change.

Simplifications: the journal is below its retention limit here (retention is
in `UndoJournal`). `RecoveryConverges` is about a behaviour's last call, which
runs alone and without faults (bound `Last`). The run has one tenant; the
model keeps the identity check.

### `JournalLock`, `KvJournal` (both implement `AtomicJournal`)

`JournalLock` is `createFsJournal`: one action per system call (`Open` with
`O_EXCL`, `Stamp` the pid, `Inspect`, `Probe`, `Unlink`, `Sleep`, `Read`,
`Write` with its rename, `Release`), processes that die at the places
`CrashAt` names. `KvJournal` is `createKvJournal.mutate` against the journal
routes of the Durable Object: a read of revision and entries, a conditional
persist, five attempts on a 409, lost and late requests. An update is an
append of its own identity, so the file's content is the history of updates.
`AtomicJournal` says every update is made at most once, on top of all earlier
ones, and is durable before its caller is told. Everything else that uses the
journal treats `mutate` as one step on the strength of these two.
Pids are not reused. The journal stays below its limit.

### `UndoJournal`

What the journal holds over time: `Record` (`appendUndoEntry`),
`StartOperation`/`FinishOperation` (entries of the runner),
`retainJournalEntries` at the end of each update (`Save`, `Retained`), and
`undo_operation` from its preview (`Prepare`) through `Claim`, `Handler`,
`Send`, `Complete`, `Audit`, with crashes and lost replies between them, by
several sessions of one tenant. Serial numbers stand for positions in the list.

### `GuardedWrite`

`preview_write_tool` and every guarded write tool: a call waits for the
earlier calls of its session (`Turn`), prepares or reads fresh state, claims
and validates the preview, runs the handler, whose requests go through
`secureFetch` with its intents (`used`), retries (`attempt`) and timeouts
(`late`). The tool is a constant: `View` is what it reads, `Requests` what its
handler sends in a state. `hosted`, chosen at the start, decides whether
previews belong to the session (a `Map`) or to the consent (the Durable
Object). A preview's capture stops at the first write, so a plan has at most
the first request, except for the undo of a creation; that is in `MCRequests`.
The undo's journal claim is in `UndoJournal`, writes authorised by a recorded
step in `WriteRecovery`.

### `TransactionWrites`

What the transaction tools do between their requests: `ReadBefore`, the
`Write...` actions, `Readback`, `Record` and then the undo (`UBegin`, `UCheck`
row by row, `UClaim`, `USend`, `UVerify`, `UComplete`). `truth`, `disturbed`,
`byUser` and `late` are history: what the rows really were just before the
write, and who has changed which field since. YNAB may leave one row of a
batch out; a batch that names a deleted row is refused as a whole. Splits,
import ids and composite ids are abstracted; the single list request with
which approve and reassign read their rows is modelled row by row; the undo's
verification is one step. `Undo` puts it beside `UndoJournal`: a behaviour of
`UndoSpec` is one of either; `MCUndo` gives it the values of the runs. What the
tools' schemas let through (known fields with values these may have) is
`WritesAssumption`. A value that the user has set and that equals the write's own
cannot be told from it, in an updated row or in a created one: `EditsSurvive`
excepts both (`Wrote`), the second since a user may change a created row and
change it back before it is read back.

### `Lookups`

How a name becomes an id: `FindTransferAccount` and `ResolveTransferPayees`
(the account a transfer goes to, refused unless the name means one) and
`MatchCategoriesByQuery`, the scores of `search_categories`. Words are atomic: a
query's word that is only a part of a name's word is left out.

### `EntityCache`, `CategoryMerge`

`EntityCache` is one instance's cache with several reads at once. `Begin` is
`ensureCacheCredentials` and `read` up to its first await (hit, join, wait or
load), `Send`/`Serve`/`LoadAgain`/`Finish`/`Fail` the load through
`secureFetch`, `Retry` the waiter's loop. `BeginWrite`, `SendWrite`, `EndWrite`
are the instance's own writes with their two invalidations, `Rotate` a new
credential, `Reset` a restart of YNAB's counter, `Change` everybody else. `past`
records the contents after each change: an entry or answer is judged against
the state it claims to be of. Assumptions: rows keep their date; waiters woken
by the end of a load run before anything else comes in (`NobodyWoken`: they
run as microtasks); YNAB's counter after a reset stays below older cursors
until these are dropped (`ResetIsVisible`) — the code compares counters and
could not notice otherwise.
`CategoryMerge` is the merge of `category_groups`, whose rows carry only those
categories that changed; groups are finitely many, and no group has the id of a
category.

### `Calendar`, `Forecast`, `Recurring`, `Spending`, `Health`, `Suggestions`, `Paging`, `Review`, `CategoryPlan`, `ToolIndex`

The algorithms behind the read tools and the plans, one operator per function
or loop of the code: scheduled dates and projected balances, the summary and
the trends, recurring charges, the state of a budget in the health report and
the two audits, category suggestions, the pages of lists and searches, the review of
unapproved transactions, the steps of a category workflow, and what a session
with or without writes and credentials is told of its tools and can call. Dates are
day numbers in a real calendar (2024 to 2099); amounts are small integers; a
suggestion's weights `2 ** -(age / 90)` are exact because ages are multiples of
the half-life. `MCReadTools` holds the budgets they are run on and what their
answers should be: dates by YNAB's cadence counted from the first date (the
code counts from the next one), balances as sums over the days (the code pairs
the legs of transfers one after the other), a plan's outcome as the budget the
request asks for. `occurrences` and the other values of `tool` choose what a
behaviour is about; rows arrive one at a time, so `EvidenceIsMonotone` can
compare a suggestion before and after. Assumed of YNAB: a schedule's
`date_next` lies on its cadence.

`Paging` is stateless like the code, so `MCReadTools` adds the client that
follows `next_offset` and the user who edits the list between two pages. In
`Review` the queue, the approved history and the category name YNAB gives a
split are inputs; the history is what the tool fetched, a year or its fallback
of 60 days. Left out: percentages, observations of unusual
months, the grouping of payees that have no id by their name.

`Recurring` compares sums of gaps instead of averages and leaves out costs per
year and their order. In `ToolIndex` a tool is a record of the two facts the
code asks of its name, and a request one of whether its schema accepts it and
whether it brings a preview's token; `Handle` is how far a call gets.

### `RateLimiter`

`secureFetchRequest` from the token bucket on. A token counts as `Refill` units
of time, so the level is a natural number (the code keeps a fraction of a token
and rounds delays up to a millisecond). `Send` and `Wait` are the loop of
`createYnabRateLimiter` from one `await` to the next, run by every request
that is woken (`Asks`); several may be woken for one token. `Record` is
`recordApiRequest`. `Limited` (429), `Unavailable` (502 to 504), `Lost`
(a timeout or a failed connection) and `Reply` are what `fetchOnce` gives back,
with the retries each allows; `Apply` is YNAB carrying out a write, before,
after or without a reply. Timers may fire up to `Lateness` late.

### `TokenCache`

How a local process comes by its token. `Value` looks a setting up in the
sources' order, which depends on the agent that started the process; `Start`
prefers a token that was set, then a token file, then 1Password's reference.
`ReadCache`, `UnlinkStale`, `OpReads`, `OpReturns`, `OpFails` and `WriteCache`
are the system calls and the wait between which other processes run; a lookup
is dated when `op` has returned, while the item may be rotated before. A file
that is not to be trusted (mode, owner, size, content) is a failed read. Clocks
do not step back.

### `JournalStorage`

The keys under which the Durable Object keeps journals: a manifest and
chunks, one value in older records. `Persist`, `RemoveRecord` and
`DeleteEverything` are transactions of the object and so one step each. A
chunk's content is the revision it is a piece of.

### `Access`

`RateLimiter`, `CredentialStore`, `JournalStorage` and `TokenCache` beside each
other: they run in different processes and share no state, so each behaviour is
one of a single part (`part`) while the others rest. It states the assumptions
about YNAB and 1Password they need (`AccessAssumption`). `MCAccess` gives it consents,
calls and settings.

### `OAuthConsent`, `CredentialStore` (implements `AtomicCredentials`)

`OAuthConsent` follows `/authorize`, `/callback`, the final form,
`persistTokensAndAuthorize` with its rollback, and the deletion flow; `loc[f]`
is where a flow stands, `gen[f]` the generation in its stored record. A request
to the Durable Object is one step here, which `CredentialStore` justifies: it
models the object's promise queue, the refresh of an access token that leaves
the object for YNAB, the rotation of refresh tokens, restarts, and late
exchanges, and implements `AtomicCredentials`, where each request happens at
once. One user. The provider's listing of grants may lag. A creation whose reply was lost
leaves a credential nobody uses until the next deletion, and so do revoked
grants. In `CredentialStore` a "failed" call and a "refused" one are told apart although
`/token` answers both with 401; the record of a new consent always has a refresh
token and its life is counted from its creation.

## What the runs check

| Run | Instance and bounds | Shows |
| --- | --- | --- |
| `recovery_race` | two instances, one plan of two steps (debit, credit), 3 calls, 1 edit, 2 faults | a request needs a durable intent (`IntentBeforeWrite`), one request per intent, a verified step was what the plan wants and a conflict has a cause outside the operation (`OutcomeIsTrue`), the promise of `DurableOperation`, recovery converges |
| `lock_crash` | two processes, 2 updates each, 3 attempts, 1 death while holding the lock | exclusion, no lost or repeated update, a dead owner's lock is recovered |
| `lock_double_recovery` (violation) | three processes, 1 death | the second of two recoverers removes a live process's lock |
| `kv_contention` | two sessions, 3 updates each, 2 attempts, 2 faults | atomic updates, for all that is lost, late or refused |
| `undo` | two sessions, retention limit 2, 4 entries, one durable operation, 2 faults; or an update of two rows and an overlapping reassignment, or an update, a creation and a deletion, each with its undo, 1 edit, 1 failure | one undo request per entry, unfinished operations are never pruned; an undo restores what was there (`UndoRestores`), a reported success is one and newly approved rows are the call's own doing (`ReportIsTrue`), no undo overwrites a user's edit (`EditsSurvive`) |
| `preview` | two sessions, local or of one consent; `approve` and the undo of two creations; up to 4 calls of one session or 3 of both, 5 events together (2 faults, 1 edit, 1 tick), 1 retry, 2 stored previews | YNAB gets only what was approved and each request once (`AsApproved`), a granted preview is the owner's, live and matches (`GrantIsGood`), an undisturbed write acts on the reviewed state (`ReviewedStateHolds`), calls end |
| `cache` | two readers, a full (delta) and a filtered list, one row, history boundary, at most one each of change, write, reset, rotation, fault and tick, three reads; weight 6 in all, a write, reset, rotation or fault counting as two | read-your-writes, completeness, credentials (`AnswersAreFresh`), every stored entry and every answer is what one full read would have returned at one time, the limits of bytes and entries hold, no reader is left waiting |
| `read_tools` | three groups, two categories, 3 changes between 2 refreshes, rows in any order; schedules of all 13 frequencies from 8 first dates; up to 3 schedules on two accounts; up to 3 transactions; 7 histories and 2 further rows; lists of up to 4 rows, pages of 1 to 3, 2 edits between pages; queues of up to 3 rows, caps 1, 2 and 400; budgets of 4 months; up to 3 charges on each cadence's edges; two cards and their categories; all sessions and kinds of tools; up to 3 accounts or categories, names and queries of up to 3 letters or words | merged lists are YNAB's tree; forecasts come true if all goes as scheduled and say what they leave out; recurring charges are those a cadence explains; summary and trends agree and account for all that moved, health report and audits agree, the tool index tells what a session can really call (`ReportsAgree`); a transfer goes to the one account its name means, and a search's order follows what was named (`LookupsAreTrue`); pages add up to the list, and an edit between two costs at most the row edited; a review says the same in every mode, and of its rows the same as `approve_transactions`; plans run through to the requested budget (what `WriteRecovery` assumes of a plan); evidence counts once and never against what it supports |
| `consent` | three authorizations of one client and a deletion, 2 failures anywhere | no credential from a form older than a deletion, the client keeps a working grant |
| `access` | one part at a time. Requests: two reads and a write, a bucket of one token that refills in 2 units, an hour of 4, 1 retry, delays up to 2, a reply lost or refusing. Store: two refreshes of one consent, a creation of another, a removal and a delete-all; time 0..2, 1 fault. Start: two processes, two settings each, TTL 2, `op` up to 1, time 0..3 (a cached value expires), a rotation, 1 fault. Storage: two consents, up to 3 chunks, 4 revisions | no hour has more requests than the bucket allows, a write is carried out once at most (`AppliedAtMostOnce`), every request ends and none starves (`CallsEnd`); the stored refresh token stays the valid one, tokens handed out are alive, atomicity, every call is answered; a process starts with a token that 1Password held within TTL and `op`'s time (`TokenIsRecent`); a journal is read back whole and unmixed and removed without remains (`StorageHolds`) |
| `cache_unlink` (violation) | three processes that start at once or later | a fresh lookup is unlinked by a process that read the stale one before |
| `writes_unjournaled` (violation) | one update of two rows, 1 failure, no edits | YNAB has answered the write, its readback fails, and it has no journal entry |

The bounds are the smallest in which the races happen: two actors are needed
and suffice for the two-party races listed under `hazards` (three where a third
is the point: lock recovery, grant replacement); two faults allow a failure and
the failure of its repair; the limits of attempts, previews, entries and bytes
are scaled down to 2 or 3 so that they are reached. The protocols are uniform in the
actors, and where the number matters most the theorems below remove the bound.
In `preview` and `cache` the total of events is bounded too, because the
product of all single bounds is too large; each event meets each other one.
`read_tools` enumerates inputs: at least one on each side of every comparison
in the code (days 28 to 31, overdue or not, refunds or not, the thresholds of
counts, ages and shares), and three rows where pairs compete for a third.

`CHECK_DEADLOCK FALSE` is in every configuration: when the bounds are used up
and all calls have ended, a behaviour stops. Where stopping early would be
the error, a property says so (`RecoveryConverges`, `AbandonedLockIsRecovered`,
`CallsEnd`, `NobodyIsStranded`).

Where a run holds several parts (`access`, `undo`, `read_tools`), each behaviour
is one of a single part, chosen at the start: the parts share no state in the
code either, and their properties are stated by their own modules.

Each property of a passing run has a mutant: a changed definition (a dropped
check, a swapped order, a missing invalidation) under which TLC finds it
violated (`PROJECT.json`, `mutants`; the mutated operators carry "Mutant:"
comments in the modules).

## Findings

- **A live process's lock can be removed** (`lock_double_recovery`,
  `RecoversOnlyAbandoned`). `withLock` (`index.js:531-541`) reads the pid,
  probes it and unlinks the path in three steps. Two processes that probe the
  same dead owner both unlink; the second unlink removes the lock a third has
  taken in between. The comment at `index.js:534` says "never a live process's
  lock". It needs a crash and three processes; without a crash exclusion is
  proved.
- **A write that was carried out may have no journal entry**
  (`writes_unjournaled`, `WritesAreJournaled`). The entry is written after the
  verification readback. The run's trace: a batch update reads its two rows, YNAB
  carries the PATCH out and answers, a row's verification GET fails, and the
  exception leaves the handler before `journalTransactionUpdates`
  (`index.js:1044`; `update_transaction` has the same order at `2987`), against
  `README.md:376`, "every transaction write is journaled locally with
  before-state". The property counts only writes of which YNAB's answer has
  arrived (`Answered`): of one whose reply is lost the server cannot know.
  `Readback` has the same for a creation or deletion, whose entry
  `appendUndoEntry` drops (`index.js:3904`); the run leaves these out.

- **A fresh lookup can be removed from the token cache** (`cache_unlink`,
  `WindowIsKept`). `readCachedOpToken` judges the file it read and unlinks the
  path (`op-token-cache.mjs:61-64`). Of two processes that find it stale, the
  slower one may unlink what the faster one has fetched and renamed into place
  since, and the next process calls `op` again. `README.md:686` says that a
  lookup "is kept for 10 minutes" and that "processes that start inside that
  window read the cache instead of calling `op`". It costs an authorization,
  never a wrong token (`TokenIsRecent`).

## Known limits

Situations the runs stay out of, by a constant or by the instance, because the
code does not handle them; a team should know them.

- *A lock without a pid.* A process that dies between creating the lock file
  and writing its pid leaves an empty lock that nobody recovers
  (`CrashAt` without `"stamp"`); `docs/write-recovery.md:65` describes recovery
  of abandoned locks.
- *A reused operation id.* A completed operation may be pruned; its id then
  starts a new one, although `docs/write-recovery.md:39-40` reads as if the id
  stayed taken. `UndoJournal` has the case (`StartOperation` of an id no entry
  has); no property forbids it.
- *A category that arrives in a group deleted before the next refresh*
  (`KeepsArrivals = FALSE`): its tombstone comes inside the deleted group's
  row, which the merge does not open, so the old row stays cached where it was
  (`docs/read-cache.md:44-45`). This rests on how YNAB lists deleted groups,
  which the repository does not show.
- *Token latency.* `ynabTokenRequest` has no timeout; `TokenIsAlive` assumes
  a reply takes at most `Latency <= Window`, the safety window.
- *Split rows without a category.* `review_unapproved` lists them as ready
  (`index.js:3677`), while `approve_transactions` by filter leaves them out
  (`index.js:3158`); `ReviewAgrees` allows for exactly this difference.
- *Length of the payee history.* `README.md:371` and `488` say that flags are
  computed against 60 days; the code reads a year, and 60 days only if that
  read fails (`index.js:3615-3627`).
- *A token read before its turn.* `secureFetchRequest` takes the access token
  before it waits at the bucket (`index.js:1494`, `1506`) and keeps it for its
  retries, so that a long wait may outlive the token; the request then fails.
- *A payee name given for a scheduled row.* `update_scheduled_transaction`
  called with `payeeName` alone sends the new name beside the payee id it has
  just read (`index.js:3394-3395`); no run tells which of the two YNAB takes.
- *A cached token at rest.* `README.md:688` speaks of up to 10 minutes; a stale
  file stays until the next process reads it.
- *Underfunded cards.* `get_budget_health` promises card funding in its
  description, but grades any card debt yellow and looks at no payment category
  (`index.js:4446-4449`); `HealthAgrees` is about what it does grade. Two cards of
  one name share a payment category (`index.js:4187-4193`).
- *Open items.* `audit_account_reconciliation` lists rows since the last
  reconciliation; an older uncleared row is in the balance and not in the list.
- *Ranks of a search.* The comment at `index.js:3426-3429` puts a name hit above a
  group hit: with four words in the query, four hits in the group outweigh one
  in the name. `MatchesAreRanked` is about queries of up to three.
- *Scheduled transactions.* `update_scheduled_transaction` (`index.js:3367-3408`)
  sends back fields it has read, so that an edit in between is lost; it has no
  undo and no model.
- *Changes between the fresh read and the write.* The docs disclaim these, and
  delayed requests; `ReviewedStateHolds` and `UndoRestores` therefore speak of
  undisturbed calls, where "undisturbed" is a history variable of what really
  happened, and exclude nothing else.

## Fairness

Weak fairness of the steps a call takes by itself, and nothing more: a started
call of a live process runs on, because JavaScript resumes it when its awaited
promise settles, and every awaited request settles (`secureFetch` and the
Worker platform time out; a file-system call returns). No fairness for faults,
edits, late requests, new calls or users, and for the clock only in
`RateLimiter`, where a wait is one for time: timers fire, and a request in
flight is answered or times out. One exception:
`WriteRecovery`'s `FairSpec` adds weak fairness of `Resume`, for the client
that calls `resume_operation` while an operation is unfinished, as the tool's
answer tells it to; `RecoveryConverges` is what that client can rely on. In `JournalLock` the
locked file system is shared, and a process out of attempts gives up, so
`AbandonedLockIsRecovered` is about the lock and not about any one process.

## What is proved

All theorems are machine-checked for every value of the constants that
satisfies the named assumptions, which are bounds being naturals, plans being
well formed (no target twice, one field of each changed) and the like. Of the
world outside the code one is assumed: that a refresh YNAB carries out is
answered before its token expires and within the safety window
(`AccessAssumption`: `Latency < Life`, `Latency <= Window`; see "Token latency"
above), and that 1Password's items are set by reference.

- **`WriteRecoveryProofs`**: `TypeCorrect`, `IntentIsDurable`,
  `IntentIsSpentOnce`, `AppliedNeedsEvidence`. `IntentBeforeWrite` alone is not
  inductive: it needs that a call's copy, if its revision is still the
  journal's, has the journal's attempts (`Based`, `Agrees`), counting an
  attempt whose save is under way (`Pending`). Then a save that succeeds proves
  that nobody has sent for this attempt number, and two calls about to send
  cannot hold the same request (`RequestsDiffer`). `EntriesEvident` carries the
  evidence of applied steps through saves and reloads. `ChecksComeFirst`: a call
  writes only after it has itself read every target of the plan in its expected
  state. Each of the three loops leaves nothing unseen behind it (`SeenAt`), and
  a save that stands between two of its steps keeps that for where it goes on
  (`Seen`).
  `OutcomesAreTrue` (`OutcomeIsTrue`) rests on a second invariant, `Truth`. As
  long as nobody but the operation has changed a target (`Alone`), the target is
  as the plan found it until a request of the operation has been sent
  (`Untouched`) and before or after its step since (`OwnWork`); who has touched a
  target has sent for it (`TouchedBySent`), and what was sent is counted in the
  journal (`SentCounted`). So a call that finds neither value has a cause for its
  conflict, or has missed an attempt; in that case it is behind the journal
  (`Stale`) and its save is refused. It is here that the plan must leave the
  other fields of a target as they stood: otherwise a write that sets one field
  would not produce the after-state (`PlanAssumption`, from `buildCategoryPlan`).
  `PromiseIsKept` is the refinement of `DurableOperation`, initial states and
  every step. Its invariant `CallsLinked` says of each copy how far it is from
  the durable entry of its revision: not at all between two saves, by one allowed
  step before one (`Linked`, `Allowed`); and where a call stands tells which
  steps it may still attempt (`Settled`): behind the verify loop a verified step
  is applied, so no later loop comes to it. The refused saves of the copies that
  are behind are what makes a concurrent recovery stutter.
- **`GuardedWriteProofs`**: `GuardTypeCorrect` (with the limit of previews of each
  owner), `OnlyAsApproved`, `ReviewHolds`, `GrantsAreGood`, for any tool, sessions,
  retries, expiries and late requests. A token's preview is in the store or with
  one call that has claimed it, never both (`Issued`, `Granted`); what YNAB has
  carried out for that call, what is being sent and what is still on its way are
  paid for by different intents of the approved plan (`Spending`); calls of one
  instance do not overlap (`InTurn`), so that only others come between a fresh
  read and the write it allows (`Reviewed`).
- **`EntityCacheProofs`**: `ReadsAreFresh`, `ReadsAreTrue`,
  `NobodyWaitsForNothing`, `CacheTypeCorrect`, for any number of readers, keys,
  rows, writes, credentials and resets. An entry is dated by the place in the
  past it shows and the credential it was read with. A load of the cache's own
  generation has been sent under the credential last seen and read after the
  last finished write (`Recent`); whoever joins it may expect no more than that
  (`Noticed`, `Shared`), and the map holds only such loads (`Mapped`). A cursor of
  the present epoch has everything that changed since above it, one of an
  earlier epoch is above YNAB's counter, which shows (`CursorGood`): so a delta
  that is merged makes the entry what a full read would bring (`Stored`, `Loads`).
  `EvictionsKeepLimits` (`WithinLimits`): the bytes of any list of entries are a
  number, and each step empties the count, leaves it, or changes it by what `Put`
  adds and evicts. `DeltasMakeTheTree` (`MergedIsTree`), of the behaviours
  of `CategoryMerge` (`MergeSpec`), with any groups, categories and bounds: since
  the last refresh the cache differs from YNAB's tree only in what the next delta names
  (`Behind`), and each row brings one group up to date, whatever rows came before
  (`Partial`), so their order does not matter. Its hypothesis is
  `KeepsArrivals`, as in the run; without it the case under Known limits comes in, and
  `Behind` is where the proof would need it. Both fold over sequences. The
  induction theorems of the library take an operator as a parameter, which the
  provers cannot instantiate, so the induction is done on a set: `Induction`
  follows from the least-element principle (`WFMin`), and with it whatever holds of
  the empty part of a finite set and, with every part, of those of one more
  member, holds of the whole (`TotalExists`, `FoldIsPartial`).
- **`JournalLockProofs`**: `LockTypeCorrect` always; `LockExcludes` and
  `LockIsAtomic` for `MaxCrashes = 0` and any number of processes. The lock
  file's creator is the only process past `Open` (`Owned`), so a probed pid is
  alive or the lock is gone, and the copy a holder has read is still the file
  (`Ordered`). With a crash the first finding breaks this.
- **`KvJournalProofs`**: `KvIsAtomic` for any number of sessions, attempts and
  faults: a revision determines the entries (`CopiesTrue`, `LateTrue`), so an
  accepted request extends what is stored, and an update being worked on is in
  no second place (`CurrentNew`, `Past`). `GivesUpOnlyIfOvertaken` counts.
- **`UndoProofs`**, of both parts of `Undo`. *Journal*: `UndoIsSentOnce`,
  `UndoneMeansApplied`, `UncertainStaysBlocked`, `UnfinishedStays` for any limit,
  sessions and entries: what is being sent was claimed, by one session (`Claimed`),
  a claimed entry is not open again (`Blocked`), and a pruned serial number does
  not return (`Numbered`). `JournalIsSafe` says it of `UndoSpec`, whose
  behaviours the run checks.
  *Transactions*: `WritesTypeCorrect`, `UndoBringsBack`, `ReportsAreTrue`,
  `EditsAreKept`, for any rows, fields, values, calls (also many at once), edits and
  failures. The properties speak of what YNAB held when the write was sent, which no
  step after it can see; the invariant links it to what a call did see. What a
  call has read is, where nobody has interfered, what it replaced (`Replaced`); what
  it has read back stays until its undo is sent (`ReadBack`); its entry is of just
  these (`Journaled`); a row the undo has compared is as journaled, where the user
  changed it last and not since (`Compared`), and nobody has touched a row that does
  not exist (`Unborn`). Each of these is about one call, and a step of anybody else
  keeps it, because every change of a row the call holds is noticed in `disturbed`
  and `late` (`Noticed`, `NoticedKeeps`): so calls that overlap need no case of their
  own.
- **`OAuthConsentProofs`**: `DeletionIsFinal` (a form prepared before a wipe
  has an older generation), `RedirectsHaveCredentials`, and
  `ClientsStayConnected`: grants are revoked only by flows completed later
  (`Captures`, `Ranks`), so of any set of racing authorizations the last
  completed one survives (`Superseded`).
- **`AccessProofs`**, of the parts that `Access` puts beside each other, each for
  the specification of its own component and, as `AccessIsSafe` and
  `AccessKeepsTokens`, for `AccessSpec`, whose behaviours the runs check.
  *Requests*: `LimiterInvariant`, `HourIsLimited`, `WritesApplyOnce`, for every
  rate, burst, number of requests and pattern of retries. `HourlyLimit` alone says
  nothing of the bucket: what makes it inductive is that the requests since any
  one of them, with what the bucket still holds, are paid for by a full bucket and
  the time since (`Paid`), and those between two stay so (`PaidBetween`). A write is
  abroad or carried out, once in all, and then not to be sent (`SentOnce`).
  *Store*: `StoreInvariance`, `StaysAuthorized`, `TokensAreAlive` and the refinement
  `StoreIsAtomic`, for any consents, calls and faults. A refresh that is waited for
  is of the call at the queue's head (`Attended`), so the record is still the one
  it read (`AtHead`, `Served`); YNAB has rotated no further than the record or one
  step beyond it (`Counted`); where no refresh has come to harm, no other one is on
  its way (`Unharmed`); and a reply is stored within the latency of its exchange
  (`Timely`). For the refinement a rotation counts when its reply is stored or
  lost: between the two the record lags behind YNAB, and only the call at the
  head may close the gap.
  *Storage*: `JournalsAreWhole`. Under a consent's keys lie the chunks the manifest
  counts, all of the last revision, and nothing else (`Filed`).
  *Start*: `TokensAreRecent`. What a process has in hand bounds how long ago the
  item was rotated away (`Hand`, `Held`): nothing when `op` reads it, `OpTime` when
  it is written, and less than the cache's time more when another one reads it.

Each proof has the same shape: a lemma that the initial states satisfy the
invariant, one step per action of the next-state relation for its preservation, and a
temporal step that combines them.

Only model-checked: liveness (`RecoveryConverges`, `AbandonedLockIsRecovered`,
`CallsEnd`), which is out of this prover's reach; and the algorithms of the read
tools and plans, whose properties are about the budgets, lists and requests that
`MCReadTools` enumerates. The type invariants of the modules with proofs are
theorems and not repeated in the runs; neither are `AppliedOnEvidence`,
`CheckedBeforeWrite`, `OvertakenOnly`, `UndoneIsTrue` and `RedirectHasCredential`,
which are proved for every instance.

## What is not modelled

Pages, brand assets, headers and origins (stateless), error reporting (output
only), build scripts; formatting, exports and single reads, which shape one
answer of YNAB each; the observations of unusual months, and the choice of an
income category; the parsing of settings files and the settings beside the
token; the host check and the size caps of `secureFetch`, which end one request with an
error; the writes of accounts, categories, payees, scheduled transactions and
money movements, which are single guarded requests without undo and instances
of `GuardedWrite`; splits, import ids and `prepare_split_for_matching` of the
transaction writes. CSRF values, encryption and identity checks are not
modelled: the models assume a request comes from who it says.

## Plan

In order of importance; all of it is done.

1. `WriteRecovery`, refinement of `DurableOperation`, proofs of its safety core.
2. `JournalLock` and `KvJournal`, refinement of `AtomicJournal`, with proofs.
3. `UndoJournal`, with proofs.
4. `GuardedWrite`.
5. `EntityCache` and `CategoryMerge`.
6. `OAuthConsent` with proofs; `CredentialStore`, refinement of `AtomicCredentials`.
7. `TransactionWrites`.
8. `Forecast`, `Spending`, `Suggestions`, `CategoryPlan`, `Paging`, `Review`
   against reference definitions.
9. `RateLimiter` with proofs; `TokenCache`; `JournalStorage`; their composition
   with `CredentialStore` in `Access`, checked in `MCAccess`.
10. `Lookups`, `Recurring`, `Health`, `ToolIndex`.
11. The runs of what writes and undoes transactions together (`MCUndo`).
12. Proofs of `GuardedWrite` and `EntityCache`.
13. Proofs of `OutcomeIsTrue` and of the refinement of `DurableOperation`.
14. Proofs of `CredentialStore` and the refinement of `AtomicCredentials`, of
    `JournalStorage` and `TokenCache`, and of all parts of `Access` together.
15. Proofs of `TransactionWrites`: `UndoRestores`, `ReportIsTrue` and `EditsSurvive`,
    with `Undo`, which composes it with `UndoJournal` as `Access` does its parts.
