------------------------------- MODULE Paging -------------------------------
(***************************************************************************)
(* The pages of get_transactions and search_transactions (index.js).  Each *)
(* call reads all the rows anew and returns those from an offset on; a     *)
(* client goes on with the next_offset of the page it got.                 *)
(*                                                                         *)
(* A row has an id, a date, an amount in cents, the words of its texts and *)
(* of its parts' texts, and may be deleted; rows come in the order of YNAB.*)
(***************************************************************************)
EXTENDS Integers, SequencesExt

CONSTANTS
    None,
    DefaultLimit   \* TRANSACTION_LIST_DEFAULT_LIMIT

Slice(rows, offset, limit) == SubSeq(rows, offset + 1, Min({offset + limit, Len(rows)}))

\* Mutant: the next page is counted from the start of this one.
PageOfRestarting(rows, offset, limit) ==
    LET slice == Slice(rows, offset, limit)
    IN  [rows |-> slice, next |-> IF offset + Len(slice) < Len(rows) THEN Len(slice) ELSE None]

\* The rows from offset on and the offset of those after them, if any.
PageOf(rows, offset, limit) ==
    LET slice == Slice(rows, offset, limit)
        next == offset + Len(slice)
    IN  [rows |-> slice, next |-> IF next < Len(rows) THEN next ELSE None]

CapRows(rows, limit, offset) ==
    PageOf(rows, IF offset = None THEN 0 ELSE offset, IF limit = None THEN DefaultLimit ELSE limit)

\* transactionMatchesSearch; the amount is compared by its absolute value.
Matches(row, query, amount) ==
    /\ amount # None => row.amount \in {amount, -amount}
    /\ query # None => query \in row.words

\* The newest first; rows of one date stay in their order.
Newest(rows) ==
    LET Before(i, j) == rows[i].date > rows[j].date \/ (rows[i].date = rows[j].date /\ i < j)
        order == SetToSortSeq(DOMAIN rows, Before)
    IN  [n \in DOMAIN order |-> rows[order[n]]]

SearchTransactionsPage(rows, query, amount, limit, offset) ==
    LET Found(row) == ~row.deleted /\ Matches(row, query, amount)
    IN  PageOf(Newest(SelectSeq(rows, Found)), offset, limit)
=============================================================================
