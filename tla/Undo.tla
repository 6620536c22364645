-------------------------------- MODULE Undo --------------------------------
(* The undo of what was written: the journal as a store of entries that are    *)
(* trimmed and that sessions race to undo (UndoJournal), and what one entry    *)
(* does to YNAB's rows, among edits and other writes (TransactionWrites).      *)
(* A behaviour is one of either.                                               *)
EXTENDS UndoJournal

CONSTANTS
    Row, Field, Value(_), Start, Call, Kind(_), Req(_), Approved, Together,
    MaxEdits, MaxWriteFaults    \* of TransactionWrites

VARIABLES
    part,
    world, at, todo, before, after, newly, entry, upc, utodo, edits,
    truth, disturbed, byUser, late

undone == <<journal, made, pc, target, sent, applied>>
written == <<world, at, todo, before, after, newly, entry, upc, utodo, edits,
             truth, disturbed, byUser, late>>
all == <<part, undone, faults, written>>

Writes == INSTANCE TransactionWrites WITH
    pc <- at, journal <- entry, MaxFaults <- MaxWriteFaults

\* What calls ask for is what their schemas let through: fields of rows, with
\* values these may have; the user is not one of them.
ASSUME WritesAssumption ==
    /\ Start \in [Row -> Writes!RowState]
    /\ \A c \in Call :
        /\ Kind(c) \in {"update", "create", "delete"}
        /\ Kind(c) = "update" =>
            /\ DOMAIN Req(c) \subseteq Row
            /\ \A r \in DOMAIN Req(c) : \A f \in DOMAIN Req(c)[r] : f \in Field /\ Req(c)[r][f] \in Value(f)
        /\ Kind(c) = "create" => Req(c) \in Writes!Values
        /\ Kind(c) = "delete" => Req(c) \in Row
    /\ Approved \in Field /\ "user" \notin Call /\ {MaxEdits, MaxWriteFaults} \subseteq Nat

\* The transaction writes at rest.
NoWrites ==
    /\ world = <<>> /\ at = <<>> /\ todo = <<>> /\ before = <<>> /\ after = <<>>
    /\ newly = <<>> /\ entry = <<>> /\ upc = <<>> /\ utodo = <<>> /\ edits = 0
    /\ truth = <<>> /\ disturbed = <<>> /\ byUser = {} /\ late = <<>>

UndoInit ==
    \/ part = "undo" /\ Init /\ NoWrites
    \/ part = "writes" /\ Init /\ Writes!Init

UndoNext ==
    \/ part = "undo" /\ Next /\ UNCHANGED <<part, written>>
    \/ part = "writes" /\ Writes!Next /\ UNCHANGED <<part, undone>>

UndoSpec == UndoInit /\ [][UndoNext]_all

-----------------------------------------------------------------------------
(* The properties of TransactionWrites, which states what they are about.    *)

\* An undo brings back what the write replaced.
UndoRestores == part = "writes" => Writes!UndoRestores
\* A write that reports success has been made, and newly approved rows are new.
ReportIsTrue == part = "writes" => Writes!ReportIsTrue
\* An undo never overwrites what the user has set since.
EditsSurvive == [][part = "writes" => Writes!EditsSurviveStep]_all
\* A call that YNAB has told of its write's success has an entry.
WritesAreJournaled == part = "writes" => Writes!WritesAreJournaled
=============================================================================
