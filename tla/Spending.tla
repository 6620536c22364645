------------------------------ MODULE Spending ------------------------------
(***************************************************************************)
(* The income and expense summary and the spending trends of               *)
(* lib/analytics.mjs, which count the same transactions in two ways.       *)
(*                                                                         *)
(* A transaction has its date, amount, category, payee and the account it  *)
(* is a transfer with (None where there is none), its subtransactions, and *)
(* whether it is deleted.  The trends' observations of unusual months and  *)
(* their percentages are left out.                                         *)
(***************************************************************************)
EXTENDS Calendar

CONSTANTS
    None,
    Income      \* the income categories

Live(parts) == SelectSeq(parts, LAMBDA part : ~part.deleted)

Sum(parts) == FoldLeft(LAMBDA sum, part : sum + part.amount, 0, parts)

\* A split whose live parts do not add up: both reports refuse.
Unbalanced(t) == ~t.deleted /\ t.split # <<>> /\ Sum(Live(t.split)) # t.amount

\* What a transaction consists of: itself, or its live parts, which have the
\* parent's date and, unless they name their own, payee.
ComponentsOf(t) ==
    LET Component(part, payee) ==
          [date |-> t.date, amount |-> part.amount, category |-> part.category,
           payee |-> payee, transfer |-> part.transfer]
    IN  IF t.deleted THEN <<>>
        ELSE IF t.split = <<>> THEN <<Component(t, t.payee)>>
        ELSE LET live == Live(t.split)
             IN  [i \in DOMAIN live |->
                    Component(live[i], IF live[i].payee = None THEN t.payee ELSE live[i].payee)]

\* transactionComponents.
Components(transactions) ==
    FlattenSeq([i \in DOMAIN transactions |-> ComponentsOf(transactions[i])])

-----------------------------------------------------------------------------
(* summarizeIncomeExpenseMilliunits.                                       *)

Summary(transactions, since, until) ==
    LET counted == SelectSeq(Components(transactions),
                             LAMBDA c : c.transfer = None /\ c.date \in since..until)
        Bucket(month) ==
          LET own == SelectSeq(counted, LAMBDA c : MonthOf(c.date) = month)
          IN  [income |-> Sum(SelectSeq(own, LAMBDA c : c.category \in Income)),
               spending |-> -Sum(SelectSeq(own, LAMBDA c : c.category \notin Income
                                                           /\ (c.amount < 0 \/ c.category # None)))]
    IN  [months |-> [m \in {MonthOf(counted[i].date) : i \in DOMAIN counted} |-> Bucket(m)],
         unclassified |-> Sum(SelectSeq(counted, LAMBDA c : c.category = None /\ c.amount >= 0))]

-----------------------------------------------------------------------------
(* spendingTrends.                                                         *)

\* Nothing is spent after today.
CompletenessEnd(until, asOf) == Min({until, asOf})

\* Mutant: refunds are left out.
SpentOnly(c) == c.amount < 0

Spent(c) == c.category # None \/ c.amount < 0

TrendRows(transactions, since, until, asOf) ==
    SelectSeq(Components(transactions),
              LAMBDA c : /\ c.transfer = None /\ c.category \notin Income
                         /\ c.date \in since..CompletenessEnd(until, asOf)
                         /\ Spent(c))

\* What the trends group by; rows without a payee or category are one group.
Key(c, groupBy) == IF groupBy = "category" THEN c.category ELSE c.payee

\* By group and month: outflow, refunds and their difference.
Trends(transactions, groupBy, since, until, asOf) ==
    LET rows == TrendRows(transactions, since, until, asOf)
        Monthly(key, month) ==
          LET own == SelectSeq(rows, LAMBDA c : Key(c, groupBy) = key /\ MonthOf(c.date) = month)
              outflow == -Sum(SelectSeq(own, LAMBDA c : c.amount < 0))
              refunds == Sum(SelectSeq(own, LAMBDA c : c.amount > 0))
          IN  [outflow |-> outflow, refunds |-> refunds, net |-> outflow - refunds]
    IN  [key \in {Key(rows[i], groupBy) : i \in DOMAIN rows} |->
            [m \in MonthOf(since)..MonthOf(until) |-> Monthly(key, m)]]
=============================================================================
