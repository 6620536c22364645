------------------------------- MODULE Health -------------------------------
(***************************************************************************)
(* The reports on the state of a budget (index.js): get_budget_health,     *)
(* get_overspent_categories, audit_credit_card_payments and                *)
(* audit_account_reconciliation, of the same accounts and categories.      *)
(*                                                                         *)
(* An account has its id, name, balance (cleared and uncleared), whether   *)
(* it is a card, and whether it is open (neither closed nor deleted); a    *)
(* category its name, group and balance; toAssign is Ready to Assign, and  *)
(* age the age of money, both of the month.  Amounts are in cents.         *)
(***************************************************************************)
EXTENDS Integers, SequencesExt

CONSTANT None

Open(budget) == {a \in budget.accounts : a.open}
Cards(budget) == {a \in Open(budget) : a.card}
Balance(account) == account.cleared + account.uncleared

\* get_overspent_categories, and the metric of the same name.
Overspent(budget) ==
    {c \in Range(budget.categories) :
        ~c.deleted /\ c.balance < 0 /\ c.group # "Internal Master Category"}

\* The payment category of a card has its name; of several, the last.
Payment(budget, card) ==
    SelectSeq(budget.categories,
              LAMBDA c : c.group = "Credit Card Payments" /\ ~c.deleted /\ c.name = card.name)

\* audit_credit_card_payments.
Audit(budget, card) ==
    LET payment == Payment(budget, card)
        difference == Last(payment).balance + Balance(card)
    IN  IF payment = <<>> THEN [available |-> None, difference |-> None, status |-> "no_payment_category_found"]
        ELSE [available |-> Last(payment).balance, difference |-> difference,
              status |-> IF Balance(card) >= 0 THEN "paid_off_or_positive"
                         ELSE IF difference >= 0 THEN "fully_funded" ELSE "underfunded"]

Underfunded(budget) == {a \in Cards(budget) : Audit(budget, a).status = "underfunded"}

\* audit_account_reconciliation: the flag of an account, and the items listed
\* for one of its rows.
NeedsAttention(account) == account.uncleared # 0

OpenItems(rows, since) ==
    {i \in DOMAIN rows : /\ ~rows[i].deleted /\ rows[i].date >= since
                         /\ ~rows[i].cleared \/ ~rows[i].approved}

\* The statuses of get_budget_health: rate is the savings rate, or None.
Graded(value, green, yellow) ==
    IF value = None THEN "unknown"
    ELSE IF value >= green THEN "green" ELSE IF value >= yellow THEN "yellow" ELSE "red"

CardDebt(budget) == MapThenSumSet(LAMBDA a : Min({0, Balance(a)}), Cards(budget))

Statuses(budget, rate) ==
    [savings_rate |-> Graded(rate, 20, 0),
     age_of_money |-> Graded(budget.age, 30, 10),
     ready_to_assign |-> IF budget.toAssign >= 0 THEN "green" ELSE "red",
     overspent_categories |-> IF Overspent(budget) = {} THEN "green" ELSE "yellow",
     credit_card_debt |-> IF CardDebt(budget) = 0 THEN "green" ELSE "yellow"]

Overall(budget, rate) ==
    LET statuses == Range(Statuses(budget, rate))
    IN  IF "red" \in statuses THEN "red" ELSE IF "yellow" \in statuses THEN "yellow" ELSE "green"
=============================================================================
