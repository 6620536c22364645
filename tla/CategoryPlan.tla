---------------------------- MODULE CategoryPlan ----------------------------
(***************************************************************************)
(* The plans of merge_category, retire_category and move_category_budget   *)
(* (buildCategoryPlan in index.js), which WriteRecovery then carries out.  *)
(*                                                                         *)
(* A budget has transactions, each with its category and whether it is     *)
(* split or a part of a split, and what is budgeted by month and category. *)
(* A request names its tool, categories, mode and, for a move, the month   *)
(* and amount.                                                             *)
(***************************************************************************)
EXTENDS Integers, SequencesExt

CONSTANTS
    Current,     \* the current month
    MaxMonths,   \* MAX_BUDGET_MOVE_MONTHS
    MaxSteps     \* the recoverable steps of a workflow

Transactions(budget, request) ==
    IF request.tool = "move_category_budget" THEN {}
    ELSE {t \in DOMAIN budget.transactions : budget.transactions[t].category = request.from}

\* The rows the plan reports and does not touch.
Skipped(budget, request) == {t \in Transactions(budget, request) : budget.transactions[t].split}

TransactionSteps(budget, request) ==
    LET rows == SetToSeq(Transactions(budget, request) \ Skipped(budget, request))
    IN  [i \in DOMAIN rows |->
            [target |-> <<"transaction", rows[i]>>, before |-> request.from, after |-> request.to]]

\* The months whose budget moves, newest first.
Months(budget, request) ==
    IF request.tool = "move_category_budget" THEN <<request.month>>
    ELSE CASE request.mode = "none" -> <<>>
           [] request.mode = "current" -> <<Current>>
           [] request.mode = "all" ->
                LET newest == Reverse(SetToSortSeq(DOMAIN budget.budgeted, <))
                IN  SubSeq(newest, 1, Min({MaxMonths, Len(newest)}))

Amount(budget, request, month) ==
    IF request.tool = "move_category_budget" THEN request.amount
    ELSE budget.budgeted[month][request.from]

\* A debit and, unless the category is retired, a credit.
BudgetSteps(budget, request, month) ==
    LET amount == Amount(budget, request, month)
        Step(category, change) ==
          [target |-> <<"budget", month, category>>, before |-> budget.budgeted[month][category],
           after |-> budget.budgeted[month][category] + change]
    IN  IF amount = 0 THEN <<>>
        ELSE <<Step(request.from, -amount)>>
             \o (IF request.tool = "retire_category" THEN <<>> ELSE <<Step(request.to, amount)>>)

Steps(budget, request) ==
    LET months == Months(budget, request)
    IN  TransactionSteps(budget, request)
        \o FlattenSeq([i \in DOMAIN months |-> BudgetSteps(budget, request, months[i])])

Exceeds(budget, request) ==
    /\ request.tool = "move_category_budget"
    /\ request.amount > budget.budgeted[request.month][request.from]

\* Mutant: a category may be moved into itself.
RefusesExcess(budget, request) == Exceeds(budget, request) \/ Len(Steps(budget, request)) > MaxSteps

\* The requests that get no plan.
Refuses(budget, request) ==
    \/ request.from = request.to
    \/ Exceeds(budget, request)
    \/ Len(Steps(budget, request)) > MaxSteps
=============================================================================
