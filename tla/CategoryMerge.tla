--------------------------- MODULE CategoryMerge ---------------------------
(***************************************************************************)
(* The read cache's merge of category_groups deltas (merge in              *)
(* lib/entity-cache.mjs), whose rows are groups that carry only those of   *)
(* their categories that have changed.  YNAB changes the tree of groups    *)
(* and categories; a refresh merges all that has changed since the last.   *)
(***************************************************************************)
EXTENDS Integers, SequencesExt

CONSTANTS
    Group, Category, Content,
    New, Gone,      \* where a category is before it exists and after
    MaxMoves,       \* bound on the changes between two refreshes
    MaxRefreshes,   \* bound on the refreshes
    KeepsArrivals   \* a group is not deleted before a category moved into it
                    \* has been read there

ASSUME MergeAssumption ==
    /\ MaxMoves \in Nat /\ MaxRefreshes \in Nat
    /\ IsFiniteSet(Group) /\ Group \cap Category = {}
    /\ New \notin Group /\ Gone \notin Group /\ New # Gone
    /\ 0 \notin Content /\ KeepsArrivals \in BOOLEAN

VARIABLES
    groups,      \* the groups that are not deleted
    home,        \* the group of each category
    listed,      \* the group a category is listed under, deleted or not
    value,       \* the contents of each category
    changed,     \* groups and categories changed since the last refresh
    changes, refreshes,   \* counted
    cached       \* the cache's rows: categories and their contents by group

ynabTree == <<groups, home, listed, value, changed>>
mergeVars == <<ynabTree, changes, refreshes, cached>>

Children(g) == {c \in Category : home[c] = g}
Tree == [g \in groups |-> [c \in Children(g) |-> value[c]]]
Membership == UNION {[S -> Content] : S \in SUBSET Category}

MergeTypeOK ==
    /\ groups \subseteq Group
    /\ home \in [Category -> groups \cup {New, Gone}]
    /\ listed \in [Category -> Group \cup {New}]
    /\ value \in [Category -> Content]
    /\ changed \subseteq Group \cup Category
    /\ changes \in 0..MaxMoves /\ refreshes \in 0..MaxRefreshes
    /\ DOMAIN cached \subseteq Group /\ Range(cached) \subseteq Membership

\* The first read is a full baseline.
MergeInit ==
    /\ groups = Group
    /\ home \in [Category -> Group \cup {New}]
    /\ listed = home
    /\ \E v \in Content : value = [c \in Category |-> v]
    /\ changed = {} /\ changes = 0 /\ refreshes = 0
    /\ cached = Tree

-----------------------------------------------------------------------------
(* YNAB.                                                                   *)

Changes(S) ==
    /\ changes < MaxMoves /\ changes' = changes + 1
    /\ changed' = changed \cup S
    /\ UNCHANGED <<refreshes, cached>>

\* A category is created in a group, moved to it or edited there.
Place(c, g, v) ==
    /\ home[c] # Gone /\ g \in groups /\ (home[c] # g \/ value[c] # v)
    /\ home' = [home EXCEPT ![c] = g] /\ listed' = [listed EXCEPT ![c] = g]
    /\ value' = [value EXCEPT ![c] = v]
    /\ Changes({c}) /\ UNCHANGED groups

Delete(c) ==
    /\ home[c] \in groups /\ home' = [home EXCEPT ![c] = Gone]
    /\ Changes({c}) /\ UNCHANGED <<groups, listed, value>>

\* A category the cache has under another group.
Arrived(c, g) == listed[c] = g /\ \E h \in DOMAIN cached \ {g} : c \in DOMAIN cached[h]

\* A group is deleted with its categories.
DeleteGroup(g) ==
    /\ g \in groups
    /\ KeepsArrivals => \A c \in Category : ~Arrived(c, g)
    /\ groups' = groups \ {g}
    /\ home' = [c \in Category |-> IF home[c] = g THEN Gone ELSE home[c]]
    /\ Changes({g} \cup Children(g)) /\ UNCHANGED <<listed, value>>

\* A group's row in a delta: its changed categories, 0 for a deleted one.
RowOf(g) ==
    [id |-> g, deleted |-> g \notin groups,
     categories |-> [c \in {c \in Category \cap changed : listed[c] = g} |-> IF home[c] = g THEN value[c] ELSE 0]]

ChangedRows == {RowOf(g) : g \in {g \in Group : g \in changed \/ \E c \in Category \cap changed : listed[c] = g}}

-----------------------------------------------------------------------------
(* The cache.                                                              *)

Less(f, S) == Restrict(f, DOMAIN f \ S)

\* The categories of a group and those of its row, without the deleted ones.
Updated(old, told) ==
    [c \in (DOMAIN old \cup DOMAIN told) \ {c \in DOMAIN told : told[c] = 0} |->
        IF c \in DOMAIN told THEN told[c] ELSE old[c]]

\* Mutant: the previous membership stays.
MergeInPlace(merged, row) ==
    IF row.deleted THEN Less(merged, {row.id})
    ELSE LET old == IF row.id \in DOMAIN merged THEN merged[row.id] ELSE <<>>
         IN  [g \in DOMAIN merged \cup {row.id} |->
                IF g = row.id THEN Updated(old, row.categories) ELSE merged[g]]

\* merge, for one row: a deleted group goes; otherwise the row's categories
\* leave the other groups and are put into, or taken out of, this one.
Merge(merged, row) ==
    IF row.deleted THEN Less(merged, {row.id})
    ELSE LET old == IF row.id \in DOMAIN merged THEN merged[row.id] ELSE <<>>
         IN  [g \in DOMAIN merged \cup {row.id} |->
                IF g = row.id THEN Updated(old, row.categories)
                ELSE Less(merged[g], DOMAIN row.categories)]

\* A refresh through the cursor, the rows in any order.
Refresh ==
    /\ changed # {} /\ refreshes < MaxRefreshes
    /\ \E rows \in SetToSeqs(ChangedRows) : cached' = FoldLeft(Merge, cached, rows)
    /\ changed' = {} /\ changes' = 0 /\ refreshes' = refreshes + 1
    /\ UNCHANGED <<groups, home, listed, value>>

MergeNext ==
    \/ \E c \in Category, g \in Group, v \in Content : Place(c, g, v)
    \/ \E c \in Category : Delete(c)
    \/ \E g \in Group : DeleteGroup(g)
    \/ Refresh

MergeSpec == MergeInit /\ [][MergeNext]_mergeVars

\* After a refresh the cache has YNAB's tree: no category in two groups, none
\* left behind in the group it came from, none lost with its siblings.
MergedIsTree == changed = {} => cached = Tree

=============================================================================
