------------------------------ MODULE Lookups -------------------------------
(***************************************************************************)
(* How names become ids (index.js): the account of a transfer that is to   *)
(* be created (findTransferAccount, resolveTransferPayees) and the         *)
(* categories of a query (matchCategoriesByQuery).                         *)
(*                                                                         *)
(* A name is what normalizeSearchText makes of it: for accounts a sequence *)
(* of letters, for categories and queries a sequence of words, so that a   *)
(* word that is a part of another is left out.                             *)
(***************************************************************************)
EXTENDS Integers, SequencesExt

CONSTANTS
    None,
    Before(_, _)   \* the order of two categories by name

Includes(text, part) == \E i \in 0..(Len(text) - Len(part)) : SubSeq(text, i + 1, i + Len(part)) = part

-----------------------------------------------------------------------------
(* Transfers: an account has its id, name, payee (None if it cannot receive *)
(* transfers) and whether it is deleted; a row its own account, and the     *)
(* account it names by id, by name or both, or a payee.                     *)

Undeleted(accounts) == SelectSeq(accounts, LAMBDA a : ~a.deleted)

\* Mutant: of several accounts, the first.
FirstNamed(accounts, name) ==
    LET matching == SelectSeq(Undeleted(accounts), LAMBDA a : Includes(a.name, name))
    IN  IF matching = <<>> THEN None ELSE matching[1]

\* Accounts of that name, else those whose name contains it: None, unless it
\* is one.
Named(accounts, name) ==
    LET open == Undeleted(accounts)
        exact == SelectSeq(open, LAMBDA a : a.name = name)
        candidates == IF exact # <<>> THEN exact ELSE SelectSeq(open, LAMBDA a : Includes(a.name, name))
    IN  IF name # <<>> /\ Len(candidates) = 1 THEN candidates[1] ELSE None

\* findTransferAccount: None where it throws.
FindTransferAccount(accounts, row) ==
    LET byId == SelectSeq(Undeleted(accounts), LAMBDA a : a.id = row.toId)
    IN  IF row.toId = None THEN Named(accounts, row.toName)
        ELSE IF byId = <<>> THEN None ELSE byId[1]

WantsTransfer(row) == row.toId # None \/ row.toName # None

\* transferInputMismatch.
Mismatch(row) ==
    WantsTransfer(row) /\ ((row.toId # None /\ row.toName # None) \/ row.payee # None)

\* resolveTransferPayees: None where it throws, for all rows.
ResolveTransferPayees(accounts, rows) ==
    LET found == [i \in DOMAIN rows |-> IF WantsTransfer(rows[i]) THEN FindTransferAccount(accounts, rows[i]) ELSE None]
        Fails(i) ==
          \/ Mismatch(rows[i])
          \/ WantsTransfer(rows[i]) /\ (found[i] = None \/ found[i].payee = None \/ found[i].id = rows[i].account)
    IN  IF \E i \in DOMAIN rows : Fails(i) THEN None
        ELSE [i \in DOMAIN rows |-> IF WantsTransfer(rows[i]) THEN [rows[i] EXCEPT !.payee = found[i].payee] ELSE rows[i]]

-----------------------------------------------------------------------------
(* Categories: each with its name, its group's, and whether either is hidden *)
(* or deleted.                                                               *)

Score(category, query) ==
    LET Hits(text) == Cardinality(Range(query) \cap Range(text))
        Phrase(text, points) == IF Cardinality(Range(query)) > 1 /\ Includes(text, query) THEN points ELSE 0
    IN  Phrase(category.name, 100) + Phrase(category.group, 40)
        + 10 * Hits(category.name) + 3 * Hits(category.group)

\* What a query matches, by score and, at the same score, by name.
MatchCategoriesByQuery(categories, query, includeHidden) ==
    LET searched == SelectSeq(categories, LAMBDA c : ~c.deleted /\ (c.hidden => includeHidden))
        matching == SelectSeq(searched, LAMBDA c : Score(c, query) > 0)
    IN  SortSeq(matching, LAMBDA c, d : \/ Score(c, query) > Score(d, query)
                                        \/ Score(c, query) = Score(d, query) /\ Before(c, d))
=============================================================================
