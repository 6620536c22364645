----------------------------- MODULE Recurring ------------------------------
(***************************************************************************)
(* detect_recurring_charges (index.js): outflows of one payee and amount   *)
(* whose average distance is near a cadence.  A transaction has its date,  *)
(* amount and payee, and whether it is a transfer or deleted.  The yearly  *)
(* cost and the order of the answer are left out.                          *)
(***************************************************************************)
EXTENDS Calendar

\* RECURRING_CADENCES, in days.
Cadences == <<
    [name |-> "weekly", days |-> 7, tolerance |-> 2],
    [name |-> "biweekly", days |-> 14, tolerance |-> 3],
    [name |-> "monthly", days |-> 30, tolerance |-> 5],
    [name |-> "quarterly", days |-> 91, tolerance |-> 10],
    [name |-> "yearly", days |-> 365, tolerance |-> 20]>>

Charges(transactions) ==
    SelectSeq(transactions, LAMBDA t : ~t.deleted /\ ~t.transfer /\ t.amount < 0)

\* The gaps between n dates add up to the span from the first to the last, and
\* their average is compared.
Near(cadence, span, n) ==
    LET off == span - cadence.days * (n - 1)
    IN  off \in -(cadence.tolerance * (n - 1))..(cadence.tolerance * (n - 1))

\* detectRecurringFromTransactions.
Recurring(transactions, minOccurrences) ==
    LET charges == Charges(transactions)
        Alike(t) == SelectSeq(charges, LAMBDA u : u.payee = t.payee /\ u.amount = t.amount)
        Report(group) ==
          LET dates == {group[i].date : i \in DOMAIN group}
              near == SelectSeq(Cadences, LAMBDA c : Near(c, Max(dates) - Min(dates), Len(group)))
          IN  IF Len(group) < minOccurrences \/ near = <<>> THEN {}
              ELSE {[payee |-> group[1].payee, amount |-> group[1].amount, cadence |-> Head(near).name,
                     occurrences |-> Len(group), first |-> Min(dates), last |-> Max(dates)]}
    IN  UNION {Report(Alike(charges[i])) : i \in DOMAIN charges}
=============================================================================
