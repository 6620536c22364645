---------------------------- MODULE MCReadTools ----------------------------
(***************************************************************************)
(* The algorithms of the read tools, each checked against a definition of  *)
(* what its answer should be.  A behaviour is about one tool, chosen at    *)
(* the start: "list_categories" is CategoryMerge's behaviour, under the    *)
(* other tools a budget grows one row at a time.                           *)
(***************************************************************************)
EXTENDS MCCategoryMerge, Forecast

CONSTANTS
    Tool,          \* the tools a run is about
    MaxSchedules,  \* bound on the scheduled transactions of a budget
    MaxEntries,    \* bound on the transactions of a report
    MaxRows,       \* bound on the rows that are added to a history
    MaxNames,      \* bound on the accounts and categories that are looked up
    MaxQueue,      \* bound on the rows that wait for approval
    MaxEdits       \* bound on the changes while a list is read page by page

VARIABLES tool, input

unmerged == <<groups, home, listed, value, changed, changes, refreshes, cached>>

-----------------------------------------------------------------------------
(* Schedules: one of every frequency from days at which months differ,     *)
(* forecast before, on and after its next date.                            *)

\* 1, 15, 16, 29, 30, 31 January, 29 February and 31 December 2024.
FirstDates == {0, 14, 15, 28, 29, 30, 59, 365}

Frequencies == {"never", "twiceAMonth"} \cup DOMAIN DayFrequencies \cup DOMAIN MonthFrequencies

\* YNAB's cadence: the dates it counts from the first one.
OnCadence(s, d) ==
    /\ d >= s.first
    /\ CASE s.frequency = "never" -> d = s.first
         [] s.frequency \in DOMAIN DayFrequencies ->
              (d - s.first) % DayFrequencies[s.frequency] = 0
         [] s.frequency \in DOMAIN MonthFrequencies ->
              /\ (MonthOf(d) - MonthOf(s.first)) % MonthFrequencies[s.frequency] = 0
              /\ d = CalendarMonthDate(MonthOf(d), DayOf(s.first))
         [] s.frequency = "twiceAMonth" ->
              \E half \in {0, 15} : d = CalendarMonthDate(MonthOf(d), DayOf(s.first) + half)

\* The first dates of a schedule's cadence, and one much later.
NextDates(s) ==
    LET dates == {d \in s.first..(s.first + 800) : OnCadence(s, d)}
    IN  {d \in dates : Cardinality({e \in dates : e < d}) \in {0, 1, 2, 13}}

Questions ==
    UNION {LET s == [frequency |-> frequency, first |-> first]
           IN  [frequency : {frequency}, first : {first}, next : NextDates(s),
                wait : {-1, 0, 45}, days : {1, 31, 365}] :
           frequency \in Frequencies, first \in FirstDates}

\* The dates of a schedule's cadence from its next one, after today and up to
\* the horizon.
OccurrencesAreDates ==
    Supported(input) =>
        LET asOf == input.next + input.wait
            through == asOf + input.days
        IN  Occurrences(input, asOf, through)
            = {d \in (asOf + 1)..through : d >= input.next /\ OnCadence(input, d)}

-----------------------------------------------------------------------------
(* Forecasts, from day 10 through day 25.                                  *)

Today == 10
Horizon == 25
Balance == [checking |-> 4, savings |-> 3]

Scheduled(account, to, amount, next, split) ==
    [account |-> account, to |-> to, amount |-> amount, frequency |-> "weekly",
     first |-> next, next |-> next, split |-> split]

Part(to, amount, deleted) == [to |-> to, amount |-> amount, deleted |-> deleted]

\* Transfers that may be each other's counterparts, one of them overdue or part
\* of a split; a payment and an income; a split that does not add up; transfers
\* from and to an account that is closed.
Schedules == {
    Scheduled("checking", "savings", -5, 12, <<>>),
    Scheduled("savings", "checking", 5, 12, <<>>),
    Scheduled("savings", "checking", 5, 5, <<>>),
    Scheduled("checking", None, -7, 12,
              <<Part("savings", -5, FALSE), Part(None, -2, FALSE), Part("savings", -5, TRUE)>>),
    Scheduled("checking", None, -7, 12, <<Part("savings", -5, FALSE), Part(None, -2, TRUE)>>),
    Scheduled("checking", None, 6, 12, <<>>),
    Scheduled("savings", None, -3, 14, <<>>),
    Scheduled("checking", "closed", -5, 12, <<>>),
    Scheduled("closed", "checking", -5, 12, <<>>)}

\* What the projected schedules say on a date: the legs of transfers by the
\* schedule and the part they come from.
LegsOn(schedules, d) ==
    {leg \in UNION {{[schedule |-> i, part |-> p, account |-> schedules[i].account,
                      to |-> Legs(schedules[i])[p].to, amount |-> Legs(schedules[i])[p].amount] :
                     p \in DOMAIN Legs(schedules[i])} :
                    i \in {i \in DOMAIN schedules : /\ Projected(schedules[i], Balance)
                                                    /\ d \in Occurrences(schedules[i], Today, Horizon)}} :
     leg.to # None}

Count(legs, from, to, amount) ==
    Cardinality({leg \in legs : leg.account = from /\ leg.to = to /\ leg.amount = amount})

\* The change of an account on a date: its own schedules, and of the transfers
\* others have scheduled to it those it has not scheduled itself.
Change(schedules, account, d) ==
    LET own == {i \in DOMAIN schedules : /\ Projected(schedules[i], Balance) /\ schedules[i].account = account
                                         /\ d \in Occurrences(schedules[i], Today, Horizon)}
        legs == LegsOn(schedules, d)
        Missing(from, amount) ==
            Max({0, Count(legs, from, account, amount) - Count(legs, account, from, -amount)})
    IN  MapThenSumSet(LAMBDA i : schedules[i].amount, own)
        + MapThenSumSet(LAMBDA t : -t[2] * Missing(t[1], t[2]), {<<leg.account, leg.amount>> : leg \in legs})

BalanceOn(schedules, account, d) ==
    Balance[account] + MapThenSumSet(LAMBDA e : Change(schedules, account, e), (Today + 1)..d)

BalancesAreTrue ==
    LET forecast == Forecast(input, Balance, Today, Horizon)
    IN  /\ \A a \in DOMAIN Balance :
             LET on == [d \in Today..Horizon |-> BalanceOn(input, a, d)]
                 account == forecast.accounts[a]
             IN  /\ account.ending = on[Horizon]
                 /\ account.minimum = Min({on[d] : d \in Today..Horizon})
                 /\ account.minimumDate = Min({d \in Today..Horizon : on[d] = account.minimum})
        /\ forecast.complete <=>
             \A i \in DOMAIN input :
                /\ input[i].account \in DOMAIN Balance /\ input[i].next > Today
                /\ Projected(input[i], Balance)
                /\ \A p \in DOMAIN Legs(input[i]) : Legs(input[i])[p].to \in DOMAIN Balance \cup {None}

\* A charge that comes by itself on the dates of a schedule, with charges and
\* refunds of other payees and amounts between.
Charged == INSTANCE Recurring

Subscriptions == [frequency : Frequencies, first : FirstDates, times : {3, 5}]

CadenceOf(frequency) ==
    CASE frequency \in {"weekly", "yearly"} -> frequency
      [] frequency \in {"everyOtherWeek", "twiceAMonth"} -> "biweekly"
      [] frequency \in {"every4Weeks", "monthly"} -> "monthly"
      [] frequency = "every3Months" -> "quarterly"
      [] OTHER -> None

SubscriptionsAreFound ==
    LET s == [frequency |-> input.frequency, first |-> input.first, next |-> input.first]
        dates == Occurrences(s, s.first - 1, s.first + 1500)
        charged == InOrder({d \in dates : Cardinality({e \in dates : e < d}) < input.times})
        Charge(d) == [date |-> d, amount |-> -5, payee |-> "club", transfer |-> FALSE, deleted |-> FALSE]
        others == <<[Charge(s.first + 3) EXCEPT !.payee = "shop"], [Charge(s.first + 3) EXCEPT !.amount = -6],
                    [Charge(s.first + 3) EXCEPT !.transfer = TRUE],
                    [Charge(s.first + 3) EXCEPT !.deleted = TRUE]>>
        rows == [i \in DOMAIN charged |-> Charge(charged[i])] \o others
                \o [i \in DOMAIN charged |-> [Charge(charged[i]) EXCEPT !.amount = 5]]
    IN  Supported(s) =>
            Charged!Recurring(rows, 3) =
                IF CadenceOf(s.frequency) = None THEN {}
                ELSE {[payee |-> "club", amount |-> -5, cadence |-> CadenceOf(s.frequency),
                       occurrences |-> input.times, first |-> s.first, last |-> Last(charged)]}

\* A forecast is what comes true if all goes as scheduled.  The dates of a
\* schedule are those of YNAB's cadence: none skipped, none before the next
\* one, no drift after a short month.  The balances are those of accounts on
\* which each entry happens on its date and each transfer once, whether it is
\* scheduled in one account or in both; the minimum is the lowest end-of-day
\* balance, its date the first with it.  A forecast that claims to cover
\* everything has left out no schedule, no overdue date and no end of a
\* transfer.  And what has come true on such dates is recognised: its cadence,
\* despite months of different lengths, or that it has none of those the tool
\* names (scheduledOccurrenceDates, forecastScheduledBalances,
\* detectRecurringFromTransactions).
ForecastIsTrue ==
    /\ tool = "occurrences" => OccurrencesAreDates
    /\ tool = "forecast_scheduled_balances" => BalancesAreTrue
    /\ tool = "detect_recurring_charges" => SubscriptionsAreFound

AddSchedule ==
    /\ tool = "forecast_scheduled_balances" /\ Len(input) < MaxSchedules
    /\ \E s \in Schedules : input' = Append(input, s)
    /\ UNCHANGED <<tool, unmerged>>

-----------------------------------------------------------------------------
(* Suggestions for transaction 1; the schedules stay as they are.          *)

Suggesting == INSTANCE Suggestions WITH Active <- {1, 2}, MaxAge <- 3

Expense(id, category, age) ==
    [id |-> id, payee |-> "shop", category |-> category, age |-> age, approved |-> TRUE,
     expense |-> TRUE, transfer |-> FALSE, split |-> FALSE, deleted |-> FALSE]

\* The uncategorized expense, and reviewed histories it may have.
Histories ==
    LET target == [Expense(1, None, 0) EXCEPT !.approved = FALSE]
        Of(category, ages) == <<target>> \o [i \in DOMAIN ages |-> Expense(i + 1, category, ages[i])]
    IN  {Of(1, <<>>), Of(1, <<0, 1, 2>>), Of(1, <<2, 3, 3>>), Of(1, <<0, 0, 0, 3>>), Of(1, <<0, 0, 0, 0, 0>>), Of(2, <<2, 2, 3>>), Of(1, <<3, 3>>)}

Near(category, split) ==
    [category |-> category, split |-> split, transfer |-> FALSE, deleted |-> FALSE, near |-> TRUE]

Nearby == {{}, {Near(1, FALSE)}, {Near(2, FALSE)}, {Near(1, FALSE), Near(2, FALSE)}, {Near(1, TRUE)},
           {[Near(1, FALSE) EXCEPT !.deleted = TRUE], [Near(1, FALSE) EXCEPT !.near = FALSE], Near(3, FALSE)}}

\* Further rows: for or against, old, split, unreviewed, in the future, of a
\* hidden category, of another payee, a refund, a transfer.
NewRows(id) ==
    {Expense(id, category, age) : category \in {1, 2}, age \in {0, 3}}
    \cup {[Expense(id, 1, 0) EXCEPT !.split = TRUE], [Expense(id, 2, 3) EXCEPT !.split = TRUE],
          [Expense(id, 2, 0) EXCEPT !.approved = FALSE], Expense(id, 2, -1), Expense(id, 3, 0),
          [Expense(id, 2, 0) EXCEPT !.payee = "other"], [Expense(id, 2, 0) EXCEPT !.expense = FALSE],
          [Expense(id, 2, 0) EXCEPT !.transfer = TRUE]}

\* YNAB returns a row more: a new one, one again, a tombstone.
AddRow ==
    /\ tool = "suggest_transaction_categories" /\ input.left > 0
    /\ \E row \in NewRows(Len(input.rows) + 1) \cup Range(input.rows)
                  \cup {[row EXCEPT !.deleted = TRUE] : row \in Range(input.rows)} :
          input' = [input EXCEPT !.rows = Append(@, row), !.left = @ - 1]
    /\ UNCHANGED <<tool, unmerged>>

\* Evidence counts as evidence, and once: a row returned again changes
\* nothing; a reviewed expense of the suggested category, or the deletion of
\* one of another category, never takes the suggestion or its confidence
\* away; a row that is no reviewed expense of the payee changes nothing
\* unless it is split or a tombstone (computeCategorySuggestions).
EvidenceIsMonotone ==
    [][AddRow =>
        LET row == Last(input'.rows)
            seen == {i \in DOMAIN input.rows : input.rows[i].id = row.id}
            before == Suggesting!Suggest(1, input.rows, input.schedules)
            after == Suggesting!Suggest(1, input'.rows, input.schedules)
            counts == /\ row.approved /\ row.expense /\ ~row.transfer /\ row.payee = "shop"
                      /\ row.age >= 0 /\ row.category \in {1, 2}
            agrees == counts /\ ~row.split /\ (row.deleted <=> row.category # before.category)
        IN  /\ row \in Range(input.rows) => after = before
            /\ seen = {} /\ ~counts => after = before
            /\ (seen = {} \/ row.deleted) /\ agrees /\ before.status = "suggested" =>
                 /\ after.status = "suggested" /\ after.category = before.category
                 /\ before.level = "high" => after.level = "high"]_<<tool, input>>

-----------------------------------------------------------------------------
(* Reports from 15 January, over three calendar months.                    *)

Reports == INSTANCE Spending WITH Income <- {"income"}

\* 15 January, until 10 March 2024.
Since == 14
Until == 69

Entry(date, amount, category, transfer) ==
    [date |-> date, amount |-> amount, category |-> category, payee |-> "shop",
     transfer |-> transfer, split |-> <<>>, deleted |-> FALSE]

Of(amount, category, payee, transfer) ==
    [amount |-> amount, category |-> category, payee |-> payee, transfer |-> transfer, deleted |-> FALSE]

Split(date, amount, split) == [Entry(date, amount, None, None) EXCEPT !.split = split]

\* Spending, refunds, income and its reversal, with and without category, at
\* both ends of the window and outside; transfers; splits with a refund, an
\* income, a transfer or an uncategorized part, one not adding up.
Entries == {
    Entry(13, -8, "food", None), Entry(14, -8, "food", None), Entry(69, 5, "food", None),
    Entry(70, -8, "food", None), Entry(40, -3, None, None), Entry(40, 3, None, None),
    Entry(40, 20, "income", None), Entry(59, -20, "income", None), Entry(40, -8, None, "savings"),
    [Entry(40, -8, "food", None) EXCEPT !.deleted = TRUE],
    Split(40, -9, <<Of(-8, "food", None, None), Of(2, "fun", "other", None), Of(-3, None, None, "savings")>>),
    Split(59, 10, <<Of(20, "income", None, None), Of(-8, None, "other", None), Of(-2, "fun", None, None),
                    [Of(5, "food", None, None) EXCEPT !.deleted = TRUE]>>),
    Split(40, -9, <<Of(-8, "food", None, None)>>)}

AddEntry ==
    /\ tool = "spending" /\ Len(input) < MaxEntries
    /\ \E t \in Entries : input' = Append(input, t)
    /\ UNCHANGED <<tool, unmerged>>

Over(S, Amount(_)) == MapThenSumSet(Amount, S)

\* The summary and the trends of the same window: what the trends show for all
\* categories, or for all payees, is month by month what the summary calls
\* spending, and what the summary calls income, spending and unclassified is
\* all that moved but transfers, each split counted once.
SpendingAgrees ==
    {t \in Range(input) : Reports!Unbalanced(t)} = {} =>
        LET summary == Reports!Summary(input, Since, Until)
            Moved(t) ==
              IF t.deleted \/ t.date \notin Since..Until \/ t.transfer # None THEN 0
              ELSE t.amount - Over({i \in DOMAIN t.split : ~t.split[i].deleted /\ t.split[i].transfer # None},
                                   LAMBDA i : t.split[i].amount)
        IN  /\ \A groupBy \in {"category", "payee"}, m \in MonthOf(Since)..MonthOf(Until) :
                 LET trends == Reports!Trends(input, groupBy, Since, Until, Until)
                 IN  Over(DOMAIN trends, LAMBDA key : trends[key][m].net)
                     = IF m \in DOMAIN summary.months THEN summary.months[m].spending ELSE 0
            /\ Over(DOMAIN summary.months, LAMBDA m : summary.months[m].income - summary.months[m].spending)
                   + summary.unclassified
               = Over(DOMAIN input, LAMBDA i : Moved(input[i]))

-----------------------------------------------------------------------------
(* A client reads a list page by page while the user edits it.  It has been *)
(* told the rows in seen, the next page starts at offset; rows in steady    *)
(* have been in the list, unmoved, from the first page on.                  *)

Pages == INSTANCE Paging WITH DefaultLimit <- 3

\* YNAB's list: in the order of dates; a search is given tombstones as well.
Listed(kinds) ==
    [i \in 1..4 |-> [id |-> i, date |-> (i + 1) \div 2, amount |-> IF i = 2 THEN 7 ELSE -7,
                     words |-> IF kinds[i] = "other" THEN {} ELSE {"shop"}, deleted |-> kinds[i] = "deleted"]]

Reads ==
    UNION {[tool : {"get_transactions"}, limit : {1, 2, None}, rows : {Listed([i \in 1..4 |-> "match"])}],
           [tool : {"search_transactions"}, limit : {1, 2},
            rows : {Listed(kinds) : kinds \in [1..4 -> {"match", "other", "deleted"}]}]}

\* The rows a client wants, whatever their order.
Wanted(read, row) == read.tool = "get_transactions" \/ (~row.deleted /\ row.words # {})

Ids(read) == {row.id : row \in {row \in Range(read.rows) : Wanted(read, row)}}

Start(read) ==
    [tool |-> read.tool, limit |-> read.limit, rows |-> read.rows, offset |-> 0, seen |-> <<>>,
     steady |-> Ids(read), arrived |-> 0, left |-> 0]

ReadPage ==
    /\ tool = "pages" /\ input.offset # None
    /\ LET page == IF input.tool = "get_transactions"
                   THEN Pages!CapRows(input.rows, input.limit, IF input.seen = <<>> THEN None ELSE input.offset)
                   ELSE Pages!SearchTransactionsPage(input.rows, "shop", 7, input.limit, input.offset)
       IN  input' = [input EXCEPT !.seen = @ \o page.rows, !.offset = page.next]
    /\ UNCHANGED <<tool, unmerged>>

\* A row may stand at place n: the list stays in the order of dates.
Fits(rows, n, row) ==
    /\ n > 1 => rows[n - 1].date <= row.date
    /\ n <= Len(rows) => row.date <= rows[n].date

\* What a list is once a row has been put at one of the places it may have.
With(rows, row) == {InsertAt(rows, n, row) : n \in {n \in 1..(Len(rows) + 1) : Fits(rows, n, row)}}

\* Between two pages the user adds a row,
Arrive(read) ==
    \E date \in {1, 2} :
    \E rows \in With(read.rows, [id |-> 5 + read.arrived, date |-> date, amount |-> -7,
                                 words |-> {"shop"}, deleted |-> FALSE]) :
       input' = [read EXCEPT !.rows = rows, !.arrived = @ + 1]

\* deletes one of those the client wants, or gives it another date.
Leave(read) ==
    \E i \in {i \in DOMAIN read.rows : Wanted(read, read.rows[i])} :
       LET row == read.rows[i]
           gone == [read EXCEPT !.rows = RemoveAt(@, i), !.left = @ + 1, !.steady = @ \ {row.id}]
       IN  \/ input' = gone
           \/ \E rows \in With(gone.rows, [row EXCEPT !.date = 3 - @]) :
                 input' = [gone EXCEPT !.rows = rows, !.arrived = @ + 1]

EditList ==
    /\ tool = "pages" /\ input.seen # <<>> /\ input.offset # None
    /\ input.arrived + input.left < MaxEdits
    /\ Arrive(input) \/ Leave(input)
    /\ UNCHANGED <<tool, unmerged>>

\* Pages add up to the list.  If nobody edits it, a client that goes on with
\* next_offset is told every row once, in the order of dates, and the last
\* page says so.  If rows arrive, leave or change their dates between two
\* pages, it is told a row again only for one that has arrived, and misses a
\* row that was there all along only for one that has left (capRows,
\* searchTransactionsPage).
PagesCoverRows ==
    tool = "pages" =>
        LET told == {row.id : row \in Range(input.seen)}
            Newer(row, next) == IF input.tool = "get_transactions" THEN row.date <= next.date
                                ELSE row.date >= next.date
        IN  /\ Len(input.seen) - Cardinality(told) <= input.arrived
            /\ input.offset = None => Cardinality(input.steady \ told) <= input.left
            /\ input.arrived + input.left = 0 =>
                 /\ told \subseteq Ids(input)
                 /\ input.offset = None => told = Ids(input)
                 /\ input.seen # <<>> /\ told = Ids(input) => input.offset = None
                 /\ \A i \in 1..(Len(input.seen) - 1) : Newer(input.seen[i], input.seen[i + 1])

-----------------------------------------------------------------------------
(* The rows that wait for approval, with a cap of 1, 2 or none.             *)

Reviews == INSTANCE Review

Waiting(payee, amount, category) ==
    [payee |-> payee, amount |-> amount, category |-> category, split |-> FALSE, transfer |-> FALSE,
     imported |-> TRUE, matched |-> None, realized |-> FALSE]

\* Of a payee or none; with, without and with another category; a refund; a
\* split, with the internal category or none; transfers; a broken match.
WaitingRows == {
    Waiting("shop", -8, "food"), Waiting("shop", 3, "food"), Waiting("shop", -8, "fun"),
    Waiting("shop", -2, "Uncategorized"), Waiting(None, -2, None), Waiting("new", -5, "food"),
    [Waiting("shop", -9, None) EXCEPT !.split = TRUE], [Waiting("shop", -9, "internal") EXCEPT !.split = TRUE],
    [Waiting("shop", -4, None) EXCEPT !.transfer = TRUE, !.imported = FALSE],
    [Waiting("shop", -8, "food") EXCEPT !.imported = FALSE, !.matched = "m1", !.realized = TRUE]}

ApprovedRows == {
    {}, {[payee |-> "shop", amount |-> -8, category |-> "food"]},
    {[payee |-> "shop", amount |-> 3, category |-> None], [payee |-> "other", amount |-> -8, category |-> "food"]}}

AddWaiting ==
    /\ tool = "review_unapproved" /\ Cardinality(input.queue) < MaxQueue
    /\ \E row \in WaitingRows :
          input' = [input EXCEPT !.queue = @ \cup {row @@ [id |-> Cardinality(@) + 1]}]
    /\ UNCHANGED <<tool, unmerged>>

\* The review in a mode tells the same story as the rows, in every mode.
ReviewTells(queue, history, requested, cap) ==
    LET review == Reviews!Reviewed(queue, history, requested, cap)
        sections == {review.ready, review.needs}
    IN  /\ review.ready.count + review.needs.count = Cardinality(queue)
        /\ review.mode = "summary" \/ (review.mode = requested) \/ (requested = "full" /\ review.mode = "compact")
        /\ review.mode # "summary" =>
             /\ {row.id : row \in UNION {section.rows : section \in sections}} = {row.id : row \in queue}
             /\ \A section \in sections : \A shown \in section.rows :
                  "match_broken" \in shown.flags => shown.matched # None
        /\ \A row \in {row \in queue : Reviews!Ready(row)} :
             LET header == review.ready.groups[IF row.payee = None THEN "Unknown Payee" ELSE row.payee]
             IN  /\ header.category # None => Reviews!CategoryName(row) = header.category
                 /\ ~header.amounts.mixed => row.amount * header.amounts.total >= 0
                 /\ Reviews!Flags(row, history) \subseteq header.flags
        /\ Over(DOMAIN review.ready.groups, LAMBDA payee : review.ready.groups[payee].amounts.total)
           = Over({row \in queue : Reviews!Ready(row)}, LAMBDA row : row.amount)

\* What the review calls ready is what approve_transactions takes of the same
\* rows by itself, splits excepted, which it leaves if YNAB gives them no
\* category; the flag of a new payee and those of a known one exclude each
\* other.
ReviewAgrees ==
    /\ \A requested \in Reviews!Modes, cap \in {1, 2, 400} :
         ReviewTells(input.queue, input.history, requested, cap)
    /\ \A row \in input.queue :
         /\ Reviews!Approvable(row) => Reviews!Ready(row)
         /\ Reviews!Ready(row) => Reviews!Approvable(row) \/ row.split
         /\ "new_payee" \in Reviews!Flags(row, input.history) =>
              {"no_prior_amount_match", "category_drift"} \cap Reviews!Flags(row, input.history) = {}

-----------------------------------------------------------------------------
(* The state of a budget with two cards, which may have the same name and    *)
(* then share a payment category, and the audit of an account.               *)

Healths == INSTANCE Health

Card(id, name, cleared, uncleared, open) ==
    [id |-> id, name |-> name, card |-> TRUE, open |-> open, cleared |-> cleared, uncleared |-> uncleared]

Assigned(name, group, balance) == [name |-> name, group |-> group, balance |-> balance, deleted |-> FALSE]

States ==
    LET Checking == [Card(3, "checking", -1, 0, TRUE) EXCEPT !.card = FALSE]
        Payments(name, balances) ==
          {<<>>} \cup {<<Assigned(name, "Credit Card Payments", b)>> : b \in balances}
        other == {<<>>, <<Assigned("food", "Living", -3)>>, <<Assigned("income", "Internal Master Category", -3)>>}
    IN  [accounts : {{Checking, Card(1, "visa", cleared, uncleared, TRUE), Card(2, name, -4, 0, open)} :
                     cleared \in {-5, 0, 4}, uncleared \in {0, -2}, name \in {"visa", "amex"}, open \in BOOLEAN},
         categories : {visa \o amex \o rest : visa \in Payments("visa", {-1, 5, 7}),
                       amex \in Payments("amex", {3, 4}), rest \in other},
         toAssign : {-1, 0}, age : {None, 5, 30}]

\* No report tells of a trouble that the budget's health does not count: a
\* budget called green has none, and one without card debt has no underfunded
\* card.  Where the audit finds every card funded, the money for what they owe
\* is there, unless two cards have one name.
HealthAgrees ==
    LET budget == input.budget
        cards == Healths!Cards(budget)
        Status(a) == Healths!Audit(budget, a).status
        owing == {a \in cards : Healths!Balance(a) < 0}
        named == {a.name : a \in owing}
        set == Over({c \in Range(budget.categories) : c.group = "Credit Card Payments" /\ c.name \in named},
                    LAMBDA c : c.balance)
    IN  /\ Healths!Overall(budget, input.rate) = "green" =>
             /\ budget.toAssign >= 0 /\ owing = {} /\ Healths!Underfunded(budget) = {}
             /\ \A c \in Range(budget.categories) : c.group = "Living" => c.balance >= 0
        /\ Healths!CardDebt(budget) = 0 => Healths!Underfunded(budget) = {}
        /\ (\A a \in owing : Status(a) = "fully_funded") /\ Cardinality(named) = Cardinality(owing)
             => set >= -Healths!CardDebt(budget)

AccountRows ==
    [date : {1, 3}, amount : {-2, 2}, cleared : BOOLEAN, approved : BOOLEAN, deleted : BOOLEAN]

AddAccountRow ==
    /\ tool = "audit_account_reconciliation" /\ Len(input.rows) < MaxEntries
    /\ \E row \in AccountRows : input' = [input EXCEPT !.rows = Append(@, row)]
    /\ UNCHANGED <<tool, unmerged>>

\* The items an audit lists make up the uncleared balance that needs attention,
\* but for rows from before the last reconciliation.
ReconciliationAgrees ==
    LET rows == input.rows
        Amount(I) == Over(I, LAMBDA i : rows[i].amount)
        uncleared == {i \in DOMAIN rows : ~rows[i].deleted /\ ~rows[i].cleared}
        items == Healths!OpenItems(rows, input.since)
        older == {i \in uncleared : rows[i].date < input.since}
    IN  /\ Amount({i \in items : ~rows[i].cleared}) + Amount(older) = Amount(uncleared)
        /\ Healths!NeedsAttention([uncleared |-> Amount(uncleared)]) => items \cup older # {}

-----------------------------------------------------------------------------
(* A session's tools: what the index says and what the executors do.         *)

Catalog == INSTANCE ToolIndex

CatalogTools == {
    [name |-> "list_accounts", write |-> FALSE, helper |-> FALSE],
    [name |-> "update_category", write |-> TRUE, helper |-> FALSE],
    [name |-> "ynab_tool_index", write |-> FALSE, helper |-> TRUE],
    Catalog!Executor, Catalog!WriteExecutor}

Sessions == [writes : BOOLEAN, credentials : BOOLEAN]
ToolRequests == [fits : BOOLEAN, token : BOOLEAN]

\* What is called available can be called, by its name and through the executor
\* that is named for it, and nothing else can; what is hidden has no way in; no
\* write gets through the executor of reads, past its preview, or into a session
\* that is not told of it; and executors do not execute each other.
IndexAgrees ==
    LET session == input.session
        request == input.request
        index == Catalog!Index(CatalogTools, session)
        Through(t) == IF t.write THEN Catalog!WriteExecute(t, session, request)
                      ELSE Catalog!Execute(t, session, request)
    IN  /\ \A row \in index.rows :
             LET t == row.tool
                 ways == {Catalog!Direct(t, session, request), Catalog!Execute(t, session, request),
                          Catalog!WriteExecute(t, session, request)}
             IN  /\ row.status = "available" /\ request.fits /\ (t.write => request.token) =>
                      Through(t) = "runs" /\ Catalog!Direct(t, session, request) = "runs"
                 /\ "runs" \in ways => row.status = "available" /\ (t.write => request.token)
                 /\ row.status = "hidden" <=> ~row.registered
                 /\ Catalog!Preview(t, session, request) = "runs" =>
                      t.write /\ row.status = "available" /\ index.writeExecutor
                 /\ t.write => Catalog!Execute(t, session, request) # "runs"
                              /\ (row.status = "available" <=> index.writeExecutor)
        /\ \A t \in CatalogTools : t.helper =>
             "runs" \notin {Catalog!Execute(t, session, request), Catalog!WriteExecute(t, session, request),
                           Catalog!Preview(t, session, request)}

\* Tools that tell of the same rows tell the same story: the summary and the
\* trends about the same window; the review of the queue in every mode, its
\* headers and its rows, and approve_transactions about what is ready for it;
\* the health of a budget and the audits; the tool index and the executors
\* (summarizeIncomeExpenseMilliunits, spendingTrends, review_unapproved,
\* get_budget_health, audit_credit_card_payments, ynab_tool_index).
ReportsAgree ==
    /\ tool = "spending" => SpendingAgrees
    /\ tool = "review_unapproved" => ReviewAgrees
    /\ tool = "get_budget_health" => HealthAgrees
    /\ tool = "audit_account_reconciliation" => ReconciliationAgrees
    /\ tool = "ynab_tool_index" => IndexAgrees

-----------------------------------------------------------------------------
(* Plans, in month 3 of months 1 to 4, of which at most 3 are moved.       *)

Plans == INSTANCE CategoryPlan WITH Current <- 3, MaxMonths <- 3, MaxSteps <- 7

PlanCategories == {"food", "fun", "rent"}

Requests ==
    [tool : {"merge_category", "retire_category"}, from : {"food"}, to : {"food", "fun"},
     mode : {"none", "current", "all"}]
    \cup [tool : {"move_category_budget"}, from : {"food"}, to : {"food", "fun"}, month : {2}, amount : {1, 3}]

Budgets ==
    LET Row(category, split) == [category |-> category, split |-> split]
        rows == {<<>>, <<Row("food", FALSE), Row("fun", FALSE), Row("food", TRUE)>>,
                 <<Row("food", FALSE), Row("food", FALSE)>>}
    IN  {[transactions |-> transactions,
          budgeted |-> [m \in 1..4 |-> [food |-> food[m], fun |-> fun[m], rent |-> 2]]] :
             transactions \in rows, food \in [1..4 -> {-2, 0, 3}], fun \in [1..4 -> {0, 1}]}

\* What a target holds, and what it holds after a step.
Held(budget, target) ==
    IF target[1] = "transaction" THEN budget.transactions[target[2]].category
    ELSE budget.budgeted[target[2]][target[3]]

Carry(budget, step) ==
    IF step.target[1] = "transaction"
    THEN [budget EXCEPT !.transactions[step.target[2]].category = step.after]
    ELSE [budget EXCEPT !.budgeted[step.target[2]][step.target[3]] = step.after]

\* The budget a request asks for.
Requested(budget, request) ==
    LET moved == request.tool = "move_category_budget"
        months == IF moved THEN {request.month}
                  ELSE CASE request.mode = "none" -> {} [] request.mode = "current" -> {3} [] OTHER -> 2..4
        Taken(m) == IF m \notin months THEN 0 ELSE IF moved THEN request.amount ELSE budget.budgeted[m][request.from]
        Given(m) == IF request.tool = "retire_category" THEN 0 ELSE Taken(m)
    IN  [transactions |-> [t \in DOMAIN budget.transactions |->
             IF ~moved /\ budget.transactions[t].category = request.from /\ ~budget.transactions[t].split
             THEN [budget.transactions[t] EXCEPT !.category = request.to] ELSE budget.transactions[t]],
         budgeted |-> [m \in DOMAIN budget.budgeted |->
             [budget.budgeted[m] EXCEPT ![request.from] = @ - Taken(m), ![request.to] = @ + Given(m)]]]

\* An undisturbed plan runs through to the budget that was asked for: no
\* target comes twice, each step finds what it expects after the steps before
\* it, and no money is made or lost on the way (buildCategoryPlan); this is
\* what WriteRecovery assumes of the plans it is given.
PlanRunsThrough ==
    tool = "category_plan" /\ ~Plans!Refuses(input.budget, input.request) =>
        LET steps == Plans!Steps(input.budget, input.request)
            at == [n \in 0..Len(steps) |-> FoldLeft(Carry, input.budget, SubSeq(steps, 1, n))]
        IN  /\ \A i, j \in DOMAIN steps : steps[i].target = steps[j].target => i = j
            /\ \A i \in DOMAIN steps : Held(at[i - 1], steps[i].target) = steps[i].before
            /\ at[Len(steps)] = Requested(input.budget, input.request)

-----------------------------------------------------------------------------
(* Names, in a budget that gets an account or a category more.               *)

ById(c, d) == c.id < d.id
Names == INSTANCE Lookups WITH Before <- ById

\* Accounts called A, AB and BAB; the transfer's own account is the first.
AccountNames == {<<"a">>, <<"a", "b">>, <<"b", "a", "b">>}
NewAccounts(id) ==
    {[id |-> id, name |-> name, payee |-> id, deleted |-> FALSE] : name \in AccountNames}
    \cup {[id |-> id, name |-> <<"a">>, payee |-> None, deleted |-> FALSE],
          [id |-> id, name |-> <<"a", "b">>, payee |-> id, deleted |-> TRUE]}

Row(toId, toName, payee) == [account |-> 1, toId |-> toId, toName |-> toName, payee |-> payee]
Transfers ==
    {Row(None, name, None) : name \in AccountNames \cup {<<"b">>, <<"a", "b", "b">>}}
    \cup {Row(1, None, None), Row(2, None, None), Row(2, <<"a">>, None), Row(2, None, 9)}
Creations == {<<row>> : row \in Transfers} \cup {<<row, Row(None, None, 9), Row(2, None, None)>> : row \in Transfers}

AddAccount ==
    /\ tool = "create_transactions" /\ Len(input.accounts) < MaxNames
    /\ \E a \in NewAccounts(Len(input.accounts) + 1) : input' = [input EXCEPT !.accounts = Append(@, a)]
    /\ UNCHANGED <<tool, unmerged>>

\* A transfer goes to an account that was meant: not its own, not a deleted one,
\* not one whose name only resembles another's that was given in full; whatever
\* the order of the accounts.  If any row of a call is in doubt, none is created.
\* A new account may put a name in doubt, but takes it over only if it is its
\* full name.
TransfersAreMeant ==
    LET before == Names!ResolveTransferPayees(input.accounts, input.rows)
        after == Names!ResolveTransferPayees(input'.accounts, input.rows)
        known == {a \in Range(input'.accounts) : ~a.deleted}
    IN  /\ after = Names!ResolveTransferPayees(Reverse(input'.accounts), input.rows)
        /\ after # None => \A i \in DOMAIN input.rows :
             LET row == input.rows[i]
                 to == {a \in known : a.payee = after[i].payee}
             IN  IF Names!WantsTransfer(row)
                 THEN /\ row.payee = None
                      /\ \E a \in to : a.id # row.account /\ (a.id = row.toId \/ Names!Includes(a.name, row.toName))
                      /\ row.toName # None /\ (\E a \in known : a.name = row.toName) => \E a \in to : a.name = row.toName
                      /\ before # None /\ after[i] # before[i] => Last(input'.accounts).name = row.toName
                 ELSE after[i] = row

NewCategories(id) ==
    {[id |-> id, name |-> name, group |-> group, hidden |-> FALSE, deleted |-> FALSE] :
        name \in {<<1>>, <<1, 2>>, <<2, 1>>, <<4>>, <<3, 1, 2>>, <<1, 2, 3>>}, group \in {<<4>>, <<2, 1>>, <<1, 2, 3>>}}
    \cup {[id |-> id, name |-> <<1, 2>>, group |-> <<4>>, hidden |-> hidden, deleted |-> ~hidden] : hidden \in BOOLEAN}

Queries == {<<1>>, <<1, 2>>, <<3, 4>>, <<1, 2, 3>>}

AddCategory ==
    /\ tool = "search_categories" /\ Len(input.categories) < MaxNames
    /\ \E c \in NewCategories(Len(input.categories) + 1) : input' = [input EXCEPT !.categories = Append(@, c)]
    /\ UNCHANGED <<tool, unmerged>>

\* "A whole-phrase substring hit ranks above per-token hits, and a name hit above
\* a group hit" (index.js:3427), for queries of up to three words; another
\* category does not change the order of the others.
MatchesAreRanked ==
    LET Found(categories) == Names!MatchCategoriesByQuery(categories, input.query, input.hidden)
        after == Found(input'.categories)
        Hit(text) == Range(input.query) \cap Range(text) # {}
        Phrase(text) == Cardinality(Range(input.query)) > 1 /\ Names!Includes(text, input.query)
        Rank(c) == CASE Phrase(c.name) -> 4 [] Phrase(c.group) -> 3 [] Hit(c.name) -> 2 [] OTHER -> 1
    IN  /\ SelectSeq(after, LAMBDA c : c \in Range(input.categories)) = Found(input.categories)
        /\ \A i, j \in DOMAIN after : Rank(after[i]) > Rank(after[j]) => i < j
        /\ Range(after) = {c \in Range(input'.categories) :
             ~c.deleted /\ (c.hidden => input.hidden) /\ (Hit(c.name) \/ Hit(c.group))}

\* A name becomes the id it was meant for or none (findTransferAccount,
\* resolveTransferPayees, matchCategoriesByQuery).
LookupsAreTrue ==
    [][/\ AddAccount => TransfersAreMeant
       /\ AddCategory => MatchesAreRanked]_<<tool, input>>

-----------------------------------------------------------------------------
AllInit ==
    /\ tool \in Tool
    /\ MergeInit
    /\ tool # "list_categories" => home = [c \in Category |-> New] /\ value = [c \in Category |-> 1]
    /\ input \in CASE tool = "occurrences" -> Questions
                   [] tool = "suggest_transaction_categories" -> [rows : Histories, schedules : Nearby, left : {MaxRows}]
                   [] tool = "pages" -> {Start(read) : read \in Reads}
                   [] tool = "review_unapproved" -> [queue : {{}}, history : ApprovedRows]
                   [] tool = "category_plan" -> [budget : Budgets, request : Requests]
                   [] tool = "detect_recurring_charges" -> Subscriptions
                   [] tool = "get_budget_health" -> [budget : States, rate : {None, -1, 0, 20}]
                   [] tool = "audit_account_reconciliation" -> [rows : {<<>>}, since : {1, 2}]
                   [] tool = "ynab_tool_index" -> [session : Sessions, request : ToolRequests]
                   [] tool = "create_transactions" -> [accounts : {<<>>}, rows : Creations]
                   [] tool = "search_categories" -> [categories : {<<>>}, query : Queries, hidden : BOOLEAN]
                   [] OTHER -> {<<>>}

Refreshing == tool = "list_categories" /\ MergeNext /\ UNCHANGED <<tool, input>>

AllNext ==
    Refreshing \/ AddSchedule \/ AddRow \/ AddEntry \/ ReadPage \/ EditList \/ AddWaiting
    \/ AddAccountRow \/ AddAccount \/ AddCategory

AllSpec == AllInit /\ [][AllNext]_<<unmerged, tool, input>>
=============================================================================
