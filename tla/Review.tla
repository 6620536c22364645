------------------------------- MODULE Review -------------------------------
(***************************************************************************)
(* review_unapproved (index.js): the rows that wait for approval, by payee,*)
(* in the sections "ready to approve" and "needs category first", with the *)
(* flags that tell what is unusual about them; and the choice that         *)
(* approve_transactions makes among the same rows.                         *)
(*                                                                         *)
(* The queue is a set of rows [id, payee, amount, category, split,         *)
(* transfer, imported, matched, realized]: the last three tell whether the *)
(* row has an import id and a scheduled one, and which row it was matched  *)
(* with.  The history is the set of the approved rows of the last year.    *)
(***************************************************************************)
EXTENDS Integers, FiniteSetsExt

CONSTANTS None

Modes == {"full", "compact", "summary"}

\* reviewResponseMode: past the cap less is shown than was requested.
ResponseMode(requested, count, cap) ==
    IF requested = "summary" \/ count > 2 * cap THEN "summary"
    ELSE IF count > cap THEN "compact"
    ELSE requested

Flags(row, history) ==
    LET prior == {h \in history : h.payee = row.payee}
        categories == {h.category : h \in prior} \ {None}
        raised == [manually_entered |-> ~row.imported /\ ~row.transfer,
                   match_broken |-> row.matched # None /\ ~row.imported,
                   scheduled_transaction_realized |-> row.realized,
                   new_payee |-> row.payee # None /\ prior = {},
                   no_prior_amount_match |->
                       row.payee # None /\ prior # {} /\ row.amount \notin {h.amount : h \in prior},
                   category_drift |->
                       row.payee # None /\ categories # {} /\ row.category \notin categories \cup {None}]
    IN  {flag \in DOMAIN raised : raised[flag]}

HasCategory(row) == row.category \notin {None, "Uncategorized"}

\* isCategorized of the review, and the filter of approve_transactions.
Ready(row) == HasCategory(row) \/ row.split \/ row.transfer
Approvable(row) == HasCategory(row) \/ row.transfer

\* The category name YNAB gives a row.
CategoryName(row) == IF row.split THEN "Split" ELSE row.category

Total(rows) == MapThenSumSet(LAMBDA row : row.amount, rows)

\* summarizeGroupAmounts: both directions, if the rows run both.
Amounts(rows) ==
    LET inflow == Total({row \in rows : row.amount > 0})
        outflow == Total({row \in rows : row.amount < 0})
    IN  IF inflow > 0 /\ outflow < 0
        THEN [total |-> inflow + outflow, mixed |-> TRUE, inflow |-> inflow, outflow |-> outflow]
        ELSE [total |-> inflow + outflow, mixed |-> FALSE, inflow |-> None, outflow |-> None]

\* What a row shows in a list, a compact one or a full one.
Shown(row, history, mode) ==
    LET flags == Flags(row, history)
    IN  [id |-> row.id, flags |-> flags,
         matched |-> IF mode = "full" \/ "match_broken" \in flags THEN row.matched ELSE None]

GroupHeader(rows, history) ==
    LET names == {CategoryName(row) : row \in rows} \ {None}
        mixed == Cardinality(names) > 1 \/ (names # {} /\ \E row \in rows : CategoryName(row) = None)
    IN  [category |-> IF mixed \/ names = {} THEN None ELSE CHOOSE name \in names : TRUE,
         names |-> names, mixed |-> mixed, count |-> Cardinality(rows), amounts |-> Amounts(rows),
         flags |-> UNION {Flags(row, history) : row \in rows}]

\* buildUnapprovedPayeeGroups: the headers by payee.
Groups(rows, history) ==
    LET Key(row) == IF row.payee = None THEN "Unknown Payee" ELSE row.payee
    IN  [payee \in {Key(row) : row \in rows} |->
            GroupHeader({row \in rows : Key(row) = payee}, history)]

\* The rows without category are listed, and grouped only in a summary, in
\* which their headers do not speak of categories.
Reviewed(queue, history, requested, cap) ==
    LET mode == ResponseMode(requested, Cardinality(queue), cap)
        ready == {row \in queue : Ready(row)}
        Rows(S) == IF mode = "summary" THEN {} ELSE {Shown(row, history, mode) : row \in S}
    IN  [mode |-> mode, total |-> Cardinality(queue),
         ready |-> [count |-> Cardinality(ready), groups |-> Groups(ready, history), rows |-> Rows(ready)],
         needs |-> [count |-> Cardinality(queue \ ready),
                    groups |-> IF mode = "summary" THEN Groups(queue \ ready, history) ELSE <<>>,
                    rows |-> Rows(queue \ ready)]]
=============================================================================
