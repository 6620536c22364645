-------------------------- MODULE TransactionWrites --------------------------
(***************************************************************************)
(* What a write of transactions does between its requests, and what its    *)
(* undo makes of it (index.js): update_transaction(s), approve_ and        *)
(* reassign_payee_transactions read the rows, write them in one request,   *)
(* read them back and journal before and after; create_ and                *)
(* delete_transaction journal after a readback; undo_operation compares    *)
(* every row with what was journaled, claims the entry and writes.  The    *)
(* user edits in YNAB between any two requests, other calls write, reads   *)
(* and journal updates fail, replies get lost, YNAB leaves a row out.      *)
(*                                                                         *)
(* Previews are in GuardedWrite, racing undos and pruning in UndoJournal.  *)
(***************************************************************************)
EXTENDS Integers, FiniteSets, Functions

CONSTANTS
    Row,         \* transactions, those still to be created included
    Field,       \* what a write may set
    Value(_),    \* the values of a field
    Start,       \* YNAB's rows at first
    Call,        \* write calls
    Kind(_),     \* "update", "create" or "delete"
    Req(_),      \* update: the fields to set, by row; create: its fields;
                 \* delete: its row
    Approved,    \* the approved field, which is set when it is 1
    Together,    \* bound: the sets of calls made in one behaviour
    MaxEdits, MaxFaults   \* bounds

VARIABLES
    world,       \* YNAB's rows
    pc, todo,    \* where each call is, and the rows it has still to read
    before,      \* rows as it read them before, or as YNAB answered
    after,       \* rows as it read them back
    newly,       \* rows it counts as newly approved
    journal,     \* its entry
    upc, utodo,  \* where the undo of the entry is, and the rows to compare
    edits, faults,
    truth,       \* history: rows just before the call's write
    disturbed,   \* history: fields others have changed since it read them
    byUser,      \* history: fields the user was the last to change
    late         \* history: those changed after the undo compared the row

call == <<pc, todo, before, after, newly>>
undo == <<upc, utodo>>
past == <<truth, disturbed, byUser, late>>
vars == <<world, call, journal, undo, edits, faults, past>>

Values == {v \in [Field -> UNION {Value(f) : f \in Field}] : \A f \in Field : v[f] \in Value(f)}
RowState == [life : {"absent", "live", "deleted"}, val : Values]
AreRows(w) == DOMAIN w \subseteq Row /\ \A r \in DOMAIN w : w[r] \in RowState
Nothing == [x \in {} |-> x]
With(w, r, s) == [x \in DOMAIN w \cup {r} |-> IF x = r THEN s ELSE w[x]]
NoEntry == [undo |-> "none", rows |-> Nothing, snapshot |-> Nothing, status |-> "missing"]

Rows(c) ==
    CASE Kind(c) = "update" -> DOMAIN Req(c)
      [] Kind(c) = "delete" -> {Req(c)}
      [] Kind(c) = "create" -> DOMAIN before[c]
Live(r) == world[r].life = "live"

TypeOK ==
    /\ world \in [Row -> RowState]
    /\ pc \in [Call -> {"idle", "read", "write", "verify", "record", "ok", "error"}]
    /\ todo \in [Call -> SUBSET Row] /\ utodo \in [Call -> SUBSET Row]
    /\ \A c \in Call :
        /\ AreRows(before[c]) /\ AreRows(after[c]) /\ AreRows(truth[c])
        /\ newly[c] \subseteq DOMAIN before[c]
        /\ journal[c].undo \in {"none", "restore", "delete", "recreate"}
        /\ journal[c].status \in {"missing", "open", "submitted", "undone"}
        /\ DOMAIN journal[c].rows \subseteq DOMAIN journal[c].snapshot
    /\ upc \in [Call -> {"idle", "check", "send", "verify", "complete", "ended"}]
    /\ edits \in 0..MaxEdits /\ faults \in 0..MaxFaults

Init ==
    /\ world = Start
    /\ pc = [c \in Call |-> "idle"] /\ todo = [c \in Call |-> {}]
    /\ before = [c \in Call |-> Nothing] /\ after = [c \in Call |-> Nothing]
    /\ newly = [c \in Call |-> {}]
    /\ journal = [c \in Call |-> NoEntry]
    /\ upc = [c \in Call |-> "idle"] /\ utodo = [c \in Call |-> {}]
    /\ edits = 0 /\ faults = 0
    /\ truth = [c \in Call |-> Nothing] /\ disturbed = [c \in Call |-> {}]
    /\ byUser = {} /\ late = [c \in Call |-> {}]

Fault == faults < MaxFaults /\ faults' = faults + 1
Goto(c, l) == pc' = [pc EXCEPT ![c] = l]
UGoto(c, l) == upc' = [upc EXCEPT ![c] = l]

-----------------------------------------------------------------------------
(* YNAB.                                                                   *)

\* The fields of a row that differ between two states of YNAB.
Changed(w1, w2) ==
    {p \in Row \X Field : w1[p[1]].life # w2[p[1]].life \/ w1[p[1]].val[p[2]] # w2[p[1]].val[p[2]]}

Over(sets, v) == [f \in Field |-> IF f \in DOMAIN sets THEN sets[f] ELSE v[f]]
Set(w, sets) ==
    [r \in Row |-> IF r \in DOMAIN sets THEN [w[r] EXCEPT !.val = Over(sets[r], @)] ELSE w[r]]
Put(w, r, s) == [w EXCEPT ![r] = s]

\* w is what YNAB holds next, by call c or its undo, or (c = "user") by the
\* user; calls that have read a changed field notice the disturbance.
Becomes(c, w) ==
    LET changed == Changed(world, w) IN
    /\ world' = w
    /\ disturbed' = [d \in Call |-> IF d = c THEN disturbed[d]
                        ELSE disturbed[d] \cup {p \in changed : p[1] \in DOMAIN before[d]}]
    /\ byUser' = IF c = "user" THEN byUser \cup changed ELSE byUser \ changed
    /\ late' = [d \in Call |-> IF c # "user" \/ upc[d] = "idle" THEN late[d]
                    ELSE late[d] \cup {p \in changed : p[1] \notin utodo[d]}]

Edit(r, f, v) ==
    /\ edits < MaxEdits /\ edits' = edits + 1
    /\ Live(r) /\ world[r].val[f] # v
    /\ Becomes("user", Put(world, r, [world[r] EXCEPT !.val[f] = v]))
    /\ UNCHANGED <<call, journal, undo, faults, truth>>

Remove(r) ==
    /\ edits < MaxEdits /\ edits' = edits + 1
    /\ Live(r) /\ Becomes("user", Put(world, r, [world[r] EXCEPT !.life = "deleted"]))
    /\ UNCHANGED <<call, journal, undo, faults, truth>>

-----------------------------------------------------------------------------
(* Writes.                                                                 *)

Begin(c) ==
    /\ pc[c] = "idle" /\ \E S \in Together : {d \in Call : pc[d] # "idle"} \cup {c} \subseteq S
    /\ IF Kind(c) = "update" THEN Goto(c, "read") /\ todo' = [todo EXCEPT ![c] = Rows(c)]
       ELSE Goto(c, "write") /\ UNCHANGED todo
    /\ UNCHANGED <<world, before, after, newly, journal, undo, edits, faults, past>>

\* fetchTransactionsByIds, row by row: one that is gone or whose read fails is
\* left without a before-state, and the write goes on.
ReadBefore(c, r) ==
    /\ pc[c] = "read" /\ r \in todo[c]
    /\ todo' = [todo EXCEPT ![c] = @ \ {r}] /\ Goto(c, IF todo[c] = {r} THEN "write" ELSE "read")
    /\ \/ Live(r) /\ before' = [before EXCEPT ![c] = With(@, r, world[r])] /\ UNCHANGED faults
       \/ UNCHANGED before /\ (Fault \/ (~Live(r) /\ UNCHANGED faults))
    /\ UNCHANGED <<world, after, newly, journal, undo, edits, past>>

\* YNAB carries out a request of c that makes w of its rows R, and answers or
\* not; the reply shows created and deleted rows, which makes b of those it knows.
Carries(c, w, R, b) ==
    /\ Becomes(c, w) /\ truth' = [truth EXCEPT ![c] = Restrict(world, R)]
    /\ \/ /\ Goto(c, "verify") /\ todo' = [todo EXCEPT ![c] = R] /\ UNCHANGED faults
          /\ before' = [before EXCEPT ![c] = b]
       \/ Fault /\ Goto(c, "error") /\ UNCHANGED <<todo, before>>

\* The request is refused, fails, or is lost on its way.
WriteFails(c) ==
    /\ pc[c] = "write" /\ Goto(c, "error")
    /\ \/ Kind(c) # "create" /\ (\E r \in Rows(c) : ~Live(r)) /\ UNCHANGED faults
       \/ Fault
    /\ UNCHANGED <<world, todo, before, after, newly, journal, undo, edits, past>>

\* api.transactions.updateTransaction(s): all rows, or one is left out.
WriteUpdate(c) ==
    /\ pc[c] = "write" /\ Kind(c) = "update" /\ \A r \in Rows(c) : Live(r)
    /\ \/ Carries(c, Set(world, Req(c)), Rows(c), before[c])
       \/ \E r \in Rows(c) :
            /\ Fault /\ Goto(c, "verify") /\ todo' = [todo EXCEPT ![c] = Rows(c)]
            /\ Becomes(c, Set(world, Restrict(Req(c), Rows(c) \ {r})))
            /\ truth' = [truth EXCEPT ![c] = Restrict(world, Rows(c))] /\ UNCHANGED before
    /\ UNCHANGED <<after, newly, journal, undo, edits>>

WriteCreate(c) ==
    /\ pc[c] = "write" /\ Kind(c) = "create"
    /\ \E r \in Row :
        LET s == [life |-> "live", val |-> Req(c)] IN
        world[r].life = "absent" /\ Carries(c, Put(world, r, s), {r}, With(before[c], r, s))
    /\ UNCHANGED <<after, newly, journal, undo, edits>>

WriteDelete(c) ==
    /\ pc[c] = "write" /\ Kind(c) = "delete" /\ Live(Req(c))
    /\ LET r == Req(c) IN
       Carries(c, Put(world, r, [world[r] EXCEPT !.life = "deleted"]), {r}, With(before[c], r, world[r]))
    /\ UNCHANGED <<after, newly, journal, undo, edits>>

\* Mutant: the answer of the write is taken for the readback.
ReadbackAssumed(c, r) ==
    /\ pc[c] = "verify" /\ r \in todo[c]
    /\ after' = [after EXCEPT ![c] = With(@, r,
        IF Kind(c) = "update" THEN [world[r] EXCEPT !.val = Over(Req(c)[r], @)] ELSE world[r])]
    /\ todo' = [todo EXCEPT ![c] = @ \ {r}] /\ Goto(c, IF todo[c] = {r} THEN "record" ELSE "verify")
    /\ UNCHANGED <<world, before, newly, journal, undo, edits, faults, past>>

\* prefetchUpdatedTransactions, or the readback of appendUndoEntry: a deleted
\* row is not found.  Where it fails, an update is reported as failed, a
\* creation or deletion as made, and neither is journaled.
Readback(c, r) ==
    /\ pc[c] = "verify" /\ r \in todo[c]
    /\ \/ /\ Live(r) \/ Kind(c) = "delete"
          /\ after' = [after EXCEPT ![c] = With(@, r, world[r])]
          /\ todo' = [todo EXCEPT ![c] = @ \ {r}]
          /\ Goto(c, IF todo[c] = {r} THEN "record" ELSE "verify") /\ UNCHANGED faults
       \/ /\ Fault \/ (~Live(r) /\ Kind(c) # "delete" /\ UNCHANGED faults)
          /\ Goto(c, IF Kind(c) = "update" THEN "error" ELSE "ok") /\ UNCHANGED <<after, todo>>
    /\ UNCHANGED <<world, before, newly, journal, undo, edits, past>>

-----------------------------------------------------------------------------
(* The journal entry.                                                      *)

\* transactionUpdateMismatches.
AsRequested(c, r) == \A f \in DOMAIN Req(c)[r] : after[c][r].val[f] = Req(c)[r][f]

\* journalTransactionUpdates: rows whose before-state is known and that
\* verified.
Reversible(c) == {r \in DOMAIN before[c] \cap DOMAIN after[c] : AsRequested(c, r)}

\* Mutant: the readback is recorded.
BeforeReadBack(c, r) == Restrict(after[c][r].val, DOMAIN Req(c)[r])
\* beforeFieldsForUpdate: only what the call sets.
BeforeFields(c, r) == Restrict(before[c][r].val, DOMAIN Req(c)[r])

UndoOf(c) ==
    CASE Kind(c) = "update" -> IF Reversible(c) # {} THEN "restore" ELSE "none"
      [] Kind(c) = "create" -> IF after[c] = before[c] THEN "delete" ELSE "none"
      [] Kind(c) = "delete" -> IF after[c][Req(c)].life = "deleted" THEN "recreate" ELSE "none"

Entry(c) ==
    [undo |-> UndoOf(c), snapshot |-> after[c], status |-> "open",
     rows |-> IF Kind(c) = "update" THEN [r \in Reversible(c) |-> BeforeFields(c, r)] ELSE Nothing]

\* Mutant: every approved row counts.
NewlyAny(c) == {r \in DOMAIN before[c] : after[c][r].val[Approved] = 1}
\* summarizeApprovalChanges.
Newly(c) == {r \in DOMAIN before[c] : after[c][r].val[Approved] = 1 /\ before[c][r].val[Approved] # 1}

\* appendUndoEntry reports no failure of the journal; then the call reports.
Record(c) ==
    /\ pc[c] = "record"
    /\ \/ journal' = [journal EXCEPT ![c] = Entry(c)] /\ UNCHANGED faults
       \/ Fault /\ (journal' = [journal EXCEPT ![c] = Entry(c)] \/ UNCHANGED journal)
    /\ IF Kind(c) = "update" /\ \E r \in Rows(c) : ~AsRequested(c, r)
       THEN Goto(c, "error") /\ UNCHANGED newly
       ELSE /\ Goto(c, "ok")
            /\ newly' = [newly EXCEPT ![c] = IF Kind(c) = "update" THEN Newly(c) ELSE {}]
    /\ UNCHANGED <<world, todo, before, after, undo, edits, past>>

-----------------------------------------------------------------------------
(* undo_operation.                                                         *)

UBegin(c) ==
    /\ upc[c] = "idle" /\ journal[c].status = "open" /\ journal[c].undo # "none"
    /\ UGoto(c, "check") /\ utodo' = [utodo EXCEPT ![c] = DOMAIN journal[c].snapshot]
    /\ UNCHANGED <<world, call, journal, edits, faults, past>>

\* Mutant: only what the undo will set is compared with the entry.
MatchesSome(c, r) == r \notin DOMAIN journal[c].rows \/ Live(r)
\* matchesAfter.
MatchesAfter(c, r) ==
    IF journal[c].undo = "recreate" THEN world[r].life = "deleted"
    ELSE world[r] = journal[c].snapshot[r]

\* A fresh read of each journaled row: any difference is a conflict.
UCheck(c, r) ==
    /\ upc[c] = "check" /\ r \in utodo[c]
    /\ IF MatchesAfter(c, r) THEN utodo' = [utodo EXCEPT ![c] = @ \ {r}] /\ UNCHANGED <<upc, late>>
       ELSE UGoto(c, "idle") /\ utodo' = [utodo EXCEPT ![c] = {}] /\ late' = [late EXCEPT ![c] = {}]
    /\ UNCHANGED <<world, call, journal, edits, faults, truth, disturbed, byUser>>

\* The entry is claimed, or the claim is lost.
UClaim(c) ==
    /\ upc[c] = "check" /\ utodo[c] = {}
    /\ \/ journal' = [journal EXCEPT ![c].status = "submitted"] /\ UGoto(c, "send") /\ UNCHANGED faults
       \/ Fault /\ UGoto(c, "ended") /\ (journal' = [journal EXCEPT ![c].status = "submitted"] \/ UNCHANGED journal)
    /\ UNCHANGED <<world, call, utodo, edits, past>>

\* The undo's request makes w of YNAB, with or without an answer, or fails.
USends(c, w, next) ==
    \/ Becomes(c, w) /\ UGoto(c, next) /\ UNCHANGED faults
    \/ Fault /\ UGoto(c, "ended") /\ (Becomes(c, w) \/ UNCHANGED <<world, disturbed, byUser, late>>)
USend(c) ==
    /\ upc[c] = "send"
    /\ LET e == journal[c] IN
       \/ /\ e.undo = "restore"
          /\ IF \A r \in DOMAIN e.rows : Live(r) THEN USends(c, Set(world, e.rows), "verify")
             ELSE UGoto(c, "ended") /\ UNCHANGED <<world, disturbed, byUser, late, faults>>
       \/ /\ e.undo = "delete"
          /\ \E r \in DOMAIN e.snapshot :
                IF Live(r) THEN USends(c, Put(world, r, [world[r] EXCEPT !.life = "deleted"]), "complete")
                ELSE UGoto(c, "ended") /\ UNCHANGED <<world, disturbed, byUser, late, faults>>
       \/ /\ e.undo = "recreate"
          /\ \E r \in Row : world[r].life = "absent" /\
                USends(c, Put(world, r, [life |-> "live", val |-> before[c][Req(c)].val]), "complete")
    /\ UNCHANGED <<call, journal, utodo, edits, truth>>

\* verifyBulkTransactionUpdates of what has been restored.
UVerify(c) ==
    /\ upc[c] = "verify"
    /\ \/ /\ \A r \in DOMAIN journal[c].rows :
               Live(r) /\ \A f \in DOMAIN journal[c].rows[r] : world[r].val[f] = journal[c].rows[r][f]
          /\ UGoto(c, "complete") /\ UNCHANGED faults
       \/ /\ \E r \in DOMAIN journal[c].rows :
               ~Live(r) \/ \E f \in DOMAIN journal[c].rows[r] : world[r].val[f] # journal[c].rows[r][f]
          /\ UGoto(c, "ended") /\ UNCHANGED faults
       \/ Fault /\ UGoto(c, "ended")
    /\ UNCHANGED <<world, call, journal, utodo, edits, past>>

UComplete(c) ==
    /\ upc[c] = "complete" /\ UGoto(c, "ended")
    /\ \/ journal' = [journal EXCEPT ![c].status = "undone"] /\ UNCHANGED faults
       \/ Fault /\ UNCHANGED journal
    /\ UNCHANGED <<world, call, utodo, edits, past>>

Next ==
    \/ \E r \in Row : Remove(r) \/ \E f \in Field : \E v \in Value(f) : Edit(r, f, v)
    \/ \E c \in Call :
        \/ Begin(c) \/ WriteFails(c) \/ WriteUpdate(c) \/ WriteCreate(c) \/ WriteDelete(c) \/ Record(c)
        \/ \E r \in Row : ReadBefore(c, r) \/ Readback(c, r) \/ UCheck(c, r)
        \/ UBegin(c) \/ UClaim(c) \/ USend(c) \/ UVerify(c) \/ UComplete(c)

Spec == Init /\ [][Next]_vars

-----------------------------------------------------------------------------
(* Properties.                                                             *)

\* An undo never overwrites what the user has set since, nor deletes a created
\* row the user has touched, except for changes after it compared the row:
\* "undo_operation refuses conflicts".  A value that equals the write's own
\* cannot be told from it.
Wrote(c, r, f) ==
    \/ Kind(c) = "update" /\ f \in DOMAIN Req(c)[r] /\ world[r].val[f] = Req(c)[r][f]
    \/ Kind(c) = "create" /\ world[r].val[f] = Req(c)[f]
EditsSurviveStep ==
    \A c \in Call : upc[c] = "send" /\ upc'[c] # "send" =>
        \A p \in Changed(world, world') \cap byUser : p \in late[c] \/ Wrote(c, p[1], p[2])
EditsSurvive == [][EditsSurviveStep]_vars

\* An undo that is reported done has brought back what the write replaced, in
\* every row it covers, wherever nobody else interfered since the write read it.
UndoRestores ==
    \A c \in Call : journal[c].status = "undone" /\ Kind(c) = "update" =>
        \A r \in DOMAIN journal[c].rows, f \in Field :
            <<r, f>> \notin disturbed[c] => world[r].val[f] = truth[c][r].val[f]

\* A write that reports success has been made, every field of every row,
\* wherever nobody else interfered.
SuccessIsTrue(c) ==
    upc[c] \in {"idle", "check"} =>
        \A r \in Rows(c) \cap DOMAIN before[c] : \A f \in DOMAIN Req(c)[r] :
            <<r, f>> \notin disturbed[c] => world[r].val[f] = Req(c)[r][f]

\* newly_approved_count is "how many rows this call actually flipped": where
\* nobody interfered, those and no others (README.md).
NewlyIsTrue(c) ==
    \A r \in DOMAIN before[c] : <<r, Approved>> \notin disturbed[c] =>
        (r \in newly[c] <=> truth[c][r].val[Approved] # 1 /\ Approved \in DOMAIN Req(c)[r]
                            /\ Req(c)[r][Approved] = 1)

\* What an update reports when it succeeds is so.
ReportIsTrue ==
    \A c \in Call : pc[c] = "ok" /\ Kind(c) = "update" => SuccessIsTrue(c) /\ NewlyIsTrue(c)

\* YNAB's reply to the write of a call has arrived: the call has gone on to
\* read rows back, of which some are still to be read or some have been.
Answered(c) == DOMAIN truth[c] # {} /\ (todo[c] # {} \/ DOMAIN after[c] # {})

\* "Every transaction write is journaled" (README.md): a call that has ended,
\* and that knows from YNAB's reply that its write was carried out, has an entry.
WritesAreJournaled ==
    \A c \in Call : pc[c] \in {"ok", "error"} /\ Answered(c) => journal[c].status # "missing"

=============================================================================
