---------------------------- MODULE Suggestions ----------------------------
(***************************************************************************)
(* The category suggestions of modules/category-suggestions.mjs: from the  *)
(* reviewed expenses of the same payee and the schedules near it, which    *)
(* category an uncategorized expense should have, or why none is proposed. *)
(*                                                                         *)
(* A row is a transaction as YNAB returned it: its id, payee, category     *)
(* (None if it has none), its age in units of the half-life of 90 days     *)
(* (negative: in the future), and whether it is approved, an expense, a    *)
(* transfer, split, deleted.  A category is a number, in the order of ids. *)
(***************************************************************************)
EXTENDS Integers, SequencesExt

CONSTANTS
    None,
    Active,     \* activeCategories: neither deleted, hidden nor internal
    MaxAge      \* bound on the age of a row

\* Mutant: a row that was returned twice votes twice.
ByPosition(rows) == [i \in DOMAIN rows |-> [rows[i] EXCEPT !.id = i]]

\* The row of each id: the last one, unless an earlier one is its tombstone.
ById(rows) ==
    LET Put(known, row) ==
          IF row.id \in DOMAIN known /\ known[row.id].deleted /\ ~row.deleted THEN known
          ELSE (row.id :> row) @@ known
    IN  FoldLeft(Put, [id \in {} |-> None], rows)

\* The approved expenses of the target's payee that are not in the future.
History(rows, target) ==
    {row \in Range(ById(rows)) :
        /\ ~row.deleted /\ row.payee = target.payee /\ row.age >= 0 /\ row.id # target.id
        /\ row.approved /\ ~row.transfer /\ row.expense}

Reviewed(rows, target) == {row \in History(rows, target) : ~row.split /\ row.category \in Active}

Recent(S) == {row \in S : row.age <= 2}

\* 2 ** -age, in units of the weight of the oldest rows.
Weight(S) == MapThenSumSet(LAMBDA row : 2 ^ (MaxAge - row.age), S)

For(S, category) == {row \in S : row.category = category}

\* The category with the most weight, the first of them by id.
Leading(S) ==
    LET categories == {row.category : row \in S}
    IN  IF S = {} THEN None
        ELSE Min({c \in categories : \A d \in categories : Weight(For(S, c)) >= Weight(For(S, d))})

ShareAtLeast(S, category, percent) == 100 * Weight(For(S, category)) >= percent * Weight(S)

\* matchSchedules: near says that payee, account, date and amount match.
Matching(schedules) ==
    {s \in schedules : ~s.deleted /\ ~s.transfer /\ (s.split \/ s.category \in Active) /\ s.near}

\* The first of the reasons that applies, None if none does.
FirstReason(reasons) ==
    LET applying == {i \in DOMAIN reasons : reasons[i][1]}
    IN  IF applying = {} THEN None ELSE reasons[Min(applying)][2]

\* Why nothing is proposed for a transaction, whatever its payee's history.
Unsuitable(target) ==
    FirstReason(<<
        <<target.deleted, "transaction_unavailable">>,
        <<target.category # None, "already_categorized">>,
        <<target.transfer, "transfer">>,
        <<target.split, "split_requires_review">>,
        <<~target.expense, "not_an_expense">>,
        <<target.payee = None, "missing_payee_id">>,
        <<target.age < 0, "invalid_or_future_date">>>>)

Enough(S, leading) == Cardinality(For(S, leading)) >= 3 /\ Recent(For(S, leading)) # {}

\* Why the evidence does not support one category.
Uncertain(S, splits, matching, scheduled) ==
    LET leading == Leading(S)
    IN  FirstReason(<<
            <<splits # {} \/ \E s \in matching : s.split, "payee_split_history">>,
            <<Cardinality(scheduled) > 1, "ambiguous_schedules">>,
            <<scheduled # {} /\ S # {} /\ leading \notin scheduled, "schedule_history_conflict">>,
            <<S # {} /\ ~ShareAtLeast(S, leading, 85), "mixed_categories">>,
            <<~Enough(S, leading) /\ scheduled = {},
              IF S # {} /\ Recent(For(S, leading)) = {} THEN "stale_history" ELSE "insufficient_history">>>>)

Level(S, leading) ==
    IF /\ Cardinality(For(S, leading)) >= 5 /\ Cardinality(Recent(For(S, leading))) >= 3
       /\ ShareAtLeast(S, leading, 95)
    THEN "high" ELSE "medium"

Abstain(why) == [status |-> "abstained", reason |-> why, category |-> None, level |-> "low"]

\* computeCategorySuggestions, for one of the selected transactions.
Suggest(id, rows, schedules) ==
    LET target == ById(rows)[id]
        S == Reviewed(rows, target)
        matching == Matching(schedules)
        scheduled == {s.category : s \in {s \in matching : ~s.split}}
        splits == Recent({row \in History(rows, target) : row.split})
        uncertain == Uncertain(S, splits, matching, scheduled)
    IN  IF id \notin DOMAIN ById(rows) THEN Abstain("transaction_unavailable")
        ELSE IF Unsuitable(target) # None THEN Abstain(Unsuitable(target))
        ELSE IF uncertain # None THEN Abstain(uncertain)
        ELSE IF Enough(S, Leading(S))
        THEN [status |-> "suggested", category |-> Leading(S), level |-> Level(S, Leading(S)),
              reason |-> IF scheduled # {} THEN "consistent_history_and_schedule" ELSE "consistent_reviewed_history"]
        ELSE [status |-> "suggested", category |-> CHOOSE c \in scheduled : TRUE, level |-> "medium",
              reason |-> "matching_schedule"]
=============================================================================
