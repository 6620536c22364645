------------------------- MODULE EntityCacheProofs -------------------------
(***************************************************************************)
(* Proofs about the read cache, for every number of readers, keys, rows,   *)
(* changes, writes, resets and new credentials.  The argument: an entry or *)
(* an answer is dated by the place in the past it shows (pos) and by the   *)
(* credential it was read with (token); a load that still belongs to the   *)
(* generation of the cache was sent under the current token and read after *)
(* the last finished write (Recent), so what it stores is recent too; and  *)
(* a delta whose counter has not gone back is of the epoch of its cursor,  *)
(* so that it lists everything that changed since (CursorGood).  The bytes *)
(* counted and the merge of category deltas come last: both are folds, and *)
(* what they return is proved by induction over parts of what they fold.   *)
(***************************************************************************)
EXTENDS EntityCache, CategoryMerge, FiniteSetTheorems, SequenceTheorems, WellFoundedInduction, TLAPS

-----------------------------------------------------------------------------
(* The inductive invariant.                                                *)

\* The past ends with what YNAB holds now, and goes back to the last write.
Chronicle == Position >= 1 /\ past[Position] = server.rows /\ acked <= Position

\* Credentials are noticed in their order, and nothing is read before one is.
Noticed ==
    /\ currentToken <= cred /\ cred >= 1
    /\ currentToken = 0 => entries = <<>> /\ \A r \in Reader : read[r].state = "idle"
    /\ \A r \in Reader : read[r].state # "idle" => read[r].saw <= currentToken /\ read[r].floor <= acked

\* The loads in the map are under way, for their key, and of this generation.
Mapped ==
    \A k \in Key : pending[k] # Nobody =>
        Loading(pending[k]) /\ read[pending[k]].key = k /\ flight[pending[k]].gen = generation

\* A load serves its reader and those who have joined it.
ServesAt(r, q) ==
    /\ Loading(r) /\ read[q].key = read[r].key /\ flight[r].since <= read[q].since
    /\ read[r].state \in {"serve", "back"} => flight[r].token >= read[q].saw
    /\ read[r].state = "back" => flight[r].reply.pos >= read[q].floor
Shared ==
    \A q \in Reader :
        /\ read[q].state \in {"joined", "waits"} => read[q].on \in Reader
        /\ Loading(q) => ServesAt(q, q)
        /\ read[q].state = "joined" => ServesAt(read[q].on, q)
        /\ read[q].state = "waits" => Loading(read[q].on) /\ read[read[q].on].key = read[q].key

\* What a load of this generation brings may be stored.
RecentAt(r) ==
    /\ flight[r].gen <= generation
    /\ Loading(r) /\ flight[r].gen = generation =>
        /\ read[r].state \in {"serve", "back"} => flight[r].token = currentToken
        /\ read[r].state = "back" => flight[r].reply.pos >= acked
Recent ==
    /\ \A e \in Range(entries) : e.token = currentToken /\ e.pos >= acked
    /\ \A r \in Reader : RecentAt(r)

\* A cursor of this epoch has what changed since before it; one of an earlier
\* epoch is above the counter, which shows.
CursorGood(epoch, cursor, pos) ==
    cursor # NoCursor =>
        /\ epoch <= server.epoch
        /\ epoch < server.epoch => server.know < cursor
        /\ epoch = server.epoch =>
              /\ cursor <= server.know
              /\ \A x \in Row : past[pos][x] # server.rows[x] => server.changed[x] > cursor
EntryTrue(e) ==
    /\ e.pos \in 1..Position /\ e.rows = Truth(e.key, e.since, e.pos)
    /\ CursorGood(e.epoch, e.cursor, e.pos)
Stored ==
    /\ \A i, j \in DOMAIN entries : entries[i].key = entries[j].key => i = j
    /\ \A e \in Range(entries) : EntryTrue(e)

\* A load knows what it starts from, and brings what one full read would.
StartsFrom(r, e) == flight[r].base = {e} /\ flight[r].cursor = e.cursor /\ flight[r].since = e.since
BringsTrue(r) ==
    /\ flight[r].reply.pos \in 1..Position
    /\ CursorGood(flight[r].reply.epoch, flight[r].reply.know, flight[r].reply.pos)
    /\ ~Reload(flight[r]) => Merged(flight[r]) = Truth(read[r].key, flight[r].since, flight[r].reply.pos)
LoadTrue(r) ==
    Loading(r) =>
        /\ \A e \in flight[r].base : EntryTrue(e) /\ e.key = read[r].key
        /\ flight[r].cursor # NoCursor => Delta(read[r].key) /\ \E e \in flight[r].base : StartsFrom(r, e)
        /\ read[r].state = "back" => BringsTrue(r)
Loads == \A r \in Reader : LoadTrue(r)

\* The parts about the map and those who wait, about recency, and about truth.
Order == TypeOK /\ Chronicle /\ Noticed /\ Mapped /\ Shared
IInv == Order /\ Recent /\ Stored /\ Loads /\ AnswersAreFresh /\ AnswersAreTrue

-----------------------------------------------------------------------------
(* Lemmas about sequences, and about what is true of the past.             *)

\* An element is in the range at its place.
LEMMA InRange ==
    ASSUME NEW S, NEW s \in Seq(S)
    PROVE  /\ Range(s) \subseteq S /\ Len(s) \in Nat /\ DOMAIN s = 1..Len(s)
           /\ \A i \in 1..Len(s) : s[i] \in Range(s)
           /\ \A e \in Range(s) : \E i \in 1..Len(s) : e = s[i]
<1>1. Len(s) \in Nat /\ DOMAIN s = 1..Len(s)
    BY LenProperties
<1>2. \A i \in 1..Len(s) : s[i] \in S
    BY ElementOfSeq
<1>3. Range(s) = {s[i] : i \in 1..Len(s)}
    BY <1>1 DEF Range
<1> QED
    BY <1>1, <1>2, <1>3

\* What a removal leaves, and where.
LEMMA RemoveAtShape ==
    ASSUME NEW S, NEW s \in Seq(S), NEW i \in 1..Len(s)
    PROVE  /\ RemoveAt(s, i) \in Seq(S) /\ Len(RemoveAt(s, i)) = Len(s) - 1
           /\ \A j \in 1..(Len(s) - 1) : RemoveAt(s, i)[j] = IF j < i THEN s[j] ELSE s[j + 1]
<1> DEFINE n == Len(s)
           a == SubSeq(s, 1, i - 1)
           b == SubSeq(s, i + 1, n)
<1>1. n \in Nat /\ \A j \in 1..n : s[j] \in S
    BY LenProperties, ElementOfSeq
<1>2. a \in Seq(S) /\ Len(a) = i - 1 /\ \A j \in 1..(i - 1) : a[j] = s[j]
    <2>1. /\ a \in Seq(S) /\ Len(a) = IF 1 <= i - 1 THEN i - 1 - 1 + 1 ELSE 0
          /\ \A j \in 1..((i - 1) - 1 + 1) : a[j] = s[1 + j - 1]
        BY <1>1, SubSeqProperties
    <2> QED
        BY <1>1, <2>1
<1>3. b \in Seq(S) /\ Len(b) = n - i /\ \A j \in 1..(n - i) : b[j] = s[i + j]
    <2>1. /\ b \in Seq(S) /\ Len(b) = IF i + 1 <= n THEN n - (i + 1) + 1 ELSE 0
          /\ \A j \in 1..(n - (i + 1) + 1) : b[j] = s[(i + 1) + j - 1]
        BY <1>1, SubSeqProperties
    <2> QED
        BY <1>1, <2>1
<1> HIDE DEF a, b, n
<1>4. /\ a \o b \in Seq(S) /\ Len(a \o b) = (i - 1) + (n - i)
      /\ \A j \in 1..((i - 1) + (n - i)) : (a \o b)[j] = IF j <= i - 1 THEN a[j] ELSE b[j - (i - 1)]
    <2>1. /\ a \o b \in Seq(S) /\ Len(a \o b) = Len(a) + Len(b)
          /\ \A j \in 1..(Len(a) + Len(b)) : (a \o b)[j] = IF j <= Len(a) THEN a[j] ELSE b[j - Len(a)]
        BY <1>2, <1>3, ConcatProperties
    <2>2. Len(a) = i - 1 /\ Len(b) = n - i
        BY <1>2, <1>3
    <2> QED
        BY <2>1, <2>2
<1>5. RemoveAt(s, i) = a \o b
    BY DEF RemoveAt, a, b, n
<1>6. i \in 1..n /\ (i - 1) + (n - i) = n - 1
    BY <1>1 DEF n
<1>7. ASSUME NEW j \in 1..(n - 1) PROVE (a \o b)[j] = IF j < i THEN s[j] ELSE s[j + 1]
    <2>1. CASE j < i
        BY <1>1, <1>2, <1>4, <1>6, <2>1
    <2>2. CASE ~(j < i)
        <3>1. j - (i - 1) \in 1..(n - i) /\ i + (j - (i - 1)) = j + 1 /\ ~(j <= i - 1)
            BY <1>1, <1>6, <2>2
        <3> QED
            BY <1>3, <1>4, <1>6, <2>2, <3>1
    <2> QED
        BY <2>1, <2>2
<1> QED
    BY <1>4, <1>5, <1>6, <1>7 DEF n

\* A new entry takes the place of the one of its key; others may be evicted.
LEMMA PutShape ==
    ASSUME entries \in Seq(EntryType), NEW e \in EntryType, Put(e),
           \A i, j \in DOMAIN entries : entries[i].key = entries[j].key => i = j
    PROVE  /\ entries' \in Seq(EntryType)
           /\ \A d \in Range(entries') : d = e \/ d \in Range(entries)
           /\ \A i, j \in DOMAIN entries' : entries'[i].key = entries'[j].key => i = j
<1> DEFINE w == Without(e.key)
           n == Len(entries)
<1>0. n \in Nat /\ DOMAIN entries = 1..n
    BY LenProperties
<1>1. /\ w \in Seq(EntryType)
      /\ \A i \in DOMAIN w : w[i] \in Range(entries) /\ w[i].key # e.key
      /\ \A i, j \in DOMAIN w : w[i].key = w[j].key => i = j
    <2> DEFINE at == {i \in DOMAIN entries : entries[i].key = e.key}
    <2>1. CASE at = {}
        <3>1. w = entries
            BY <2>1 DEF Without
        <3> QED
            BY <2>1, <3>1, <1>0, InRange
    <2>2. CASE at # {}
        <3> DEFINE m == CHOOSE i \in at : TRUE
        <3>1. m \in at
            BY <2>2
        <3>2. w = RemoveAt(entries, m)
            BY <2>2 DEF Without
        <3>3. m \in 1..n /\ entries[m].key = e.key
            BY <3>1, <1>0
        <3> HIDE DEF m, w, at
        <3>4. /\ w \in Seq(EntryType) /\ Len(w) = n - 1
              /\ \A j \in 1..(n - 1) : w[j] = IF j < m THEN entries[j] ELSE entries[j + 1]
            BY <3>2, <3>3, RemoveAtShape
        <3>5. DOMAIN w = 1..(n - 1)
            BY <3>4, LenProperties
        <3> DEFINE p(j) == IF j < m THEN j ELSE j + 1
        <3>6. \A j \in 1..(n - 1) : p(j) \in 1..n /\ p(j) # m /\ w[j] = entries[p(j)]
            BY <1>0, <3>3, <3>4
        <3>7. \A i, j \in 1..(n - 1) : p(i) = p(j) => i = j
            BY <1>0, <3>3
        <3> HIDE DEF p
        <3>8. \A j \in 1..(n - 1) : w[j] \in Range(entries) /\ w[j].key # e.key
            BY <1>0, <3>3, <3>6, InRange
        <3>9. \A i, j \in 1..(n - 1) : w[i].key = w[j].key => i = j
            BY <1>0, <3>6, <3>7
        <3> QED
            BY <3>4, <3>5, <3>8, <3>9
    <2> QED
        BY <2>1, <2>2
<1> DEFINE es == Append(w, e)
           k == Len(w)
<1> HIDE DEF w
<1>2. /\ es \in Seq(EntryType) /\ Len(es) = k + 1 /\ k \in Nat /\ DOMAIN w = 1..k
      /\ \A i \in 1..k : es[i] = w[i]
      /\ es[k + 1] = e
    BY <1>1, AppendProperties, LenProperties
<1>3. \A i \in 1..(k + 1) : es[i] \in EntryType /\ (es[i] = e \/ es[i] \in Range(entries))
    <2>1. ASSUME NEW i \in 1..(k + 1) PROVE es[i] = e \/ (i \in 1..k /\ es[i] \in Range(entries))
        BY <1>1, <1>2
    <2>2. Range(entries) \subseteq EntryType
        BY InRange
    <2> QED
        BY <2>1, <2>2
<1>4. \A i, j \in 1..(k + 1) : es[i].key = es[j].key => i = j
    <2>1. ASSUME NEW i \in 1..(k + 1), NEW j \in 1..(k + 1), es[i].key = es[j].key PROVE i = j
        <3>1. (i \in 1..k \/ i = k + 1) /\ (j \in 1..k \/ j = k + 1)
            BY <1>2
        <3> QED
            BY <1>1, <1>2, <2>1, <3>1
    <2> QED
        BY <2>1
<1>5. PICK m \in 1..(k + 2) : entries' = SubSeq(es, m, k + 1)
    <2>1. k + 1 + 1 = k + 2
        BY <1>2
    <2> QED
        BY <1>2, <2>1 DEF Put, w
<1> HIDE DEF es, k
<1> DEFINE l == k + 2 - m
<1>6. m \in Int /\ k \in Nat /\ l \in Nat /\ k + 1 \in Int
    BY <1>2, <1>5
<1>7. /\ entries' \in Seq(EntryType) /\ Len(entries') = l
      /\ \A i \in 1..l : entries'[i] = es[m + i - 1]
    <2>1. /\ SubSeq(es, m, k + 1) \in Seq(EntryType)
          /\ Len(SubSeq(es, m, k + 1)) = IF m <= k + 1 THEN (k + 1) - m + 1 ELSE 0
          /\ \A i \in 1..((k + 1) - m + 1) : SubSeq(es, m, k + 1)[i] = es[m + i - 1]
        <3>1. \A i \in m..(k + 1) : es[i] \in EntryType
            BY <1>3, <1>5, <1>6
        <3> QED
            BY <1>6, <3>1, SubSeqProperties
    <2>2. (k + 1) - m + 1 = l /\ (IF m <= k + 1 THEN l ELSE 0) = l
        BY <1>5, <1>6
    <2> QED
        BY <1>5, <2>1, <2>2
<1>8. \A i \in 1..l : m + i - 1 \in 1..(k + 1)
    BY <1>5, <1>6
<1>9. DOMAIN entries' = 1..l
    BY <1>7, LenProperties
<1>10. \A d \in Range(entries') : d = e \/ d \in Range(entries)
    <2>1. ASSUME NEW d \in Range(entries') PROVE d = e \/ d \in Range(entries)
        <3>1. PICK i \in 1..l : d = entries'[i]
            BY <1>9 DEF Range
        <3> QED
            BY <1>3, <1>7, <1>8, <3>1
    <2> QED
        BY <2>1
<1>11. \A i, j \in 1..l : entries'[i].key = entries'[j].key => i = j
    <2>1. ASSUME NEW i \in 1..l, NEW j \in 1..l, entries'[i].key = entries'[j].key PROVE i = j
        <3> DEFINE p == m + i - 1
                   q == m + j - 1
        <3>1. entries'[i] = es[p] /\ entries'[j] = es[q]
            BY <1>7
        <3>2. p \in 1..(k + 1) /\ q \in 1..(k + 1)
            BY <1>8
        <3>3. p = q => i = j
            BY <1>6
        <3> HIDE DEF p, q
        <3>4. es[p].key = es[q].key
            BY <2>1, <3>1
        <3>5. p = q
            BY <1>4, <3>2, <3>4, Zenon
        <3> QED
            BY <3>3, <3>5
    <2> QED
        BY <2>1
<1> QED
    BY <1>7, <1>9, <1>10, <1>11

\* An event is counted.
LEMMA EventCounted ==
    ASSUME TypeOK, NEW what \in Counted, NEW max, Happens(what, max)
    PROVE  count' \in [Counted -> Nat]
<1>1. count' = [count EXCEPT ![what] = @ + 1]
    BY DEF Happens
<1> QED
    BY <1>1 DEF TypeOK

\* What is true of the past stays true while YNAB is as it is.
LEMMA PastStays ==
    ASSUME server' = server, past' = past
    PROVE  /\ \A k, since, pos : Truth(k, since, pos)' = Truth(k, since, pos)
           /\ \A epoch, cursor, pos : CursorGood(epoch, cursor, pos)' <=> CursorGood(epoch, cursor, pos)
           /\ \A e : EntryTrue(e)' <=> EntryTrue(e)
           /\ Position' = Position
BY DEF Truth, Held, CursorGood, EntryTrue, Position

\* So does what is true of a load.
LEMMA LoadStays ==
    ASSUME server' = server, past' = past, NEW x, read'[x] = read[x], flight'[x] = flight[x]
    PROVE  LoadTrue(x)' <=> LoadTrue(x)
<1>1. \A e : EntryTrue(e)' <=> EntryTrue(e)
    BY PastStays
<1>2. BringsTrue(x)' <=> BringsTrue(x)
    BY DEF BringsTrue, CursorGood, Reload, Merged, Truth, Held, Position
<1> QED
    BY <1>1, <1>2 DEF LoadTrue, StartsFrom, Loading

-----------------------------------------------------------------------------
(* Changes of what YNAB holds.                                             *)

\* What a change adds.
LEMMA BecomesShape ==
    ASSUME TypeOK, Chronicle, NEW x \in Row, NEW v \in Value, Becomes(x, v)
    PROVE  /\ server'.rows = [server.rows EXCEPT ![x] = v] /\ server'.rows \in [Row -> Value]
           /\ server'.changed = [server.changed EXCEPT ![x] = server.know + 1] /\ server'.changed \in [Row -> Nat]
           /\ server'.know = server.know + 1 /\ server'.epoch = server.epoch
           /\ server' \in [rows : [Row -> Value], changed : [Row -> Nat], know : Nat, epoch : Nat]
           /\ past' \in Seq([Row -> Value]) /\ Position' = Position + 1 /\ Position \in Nat
           /\ \A pos \in 1..Position : past'[pos] = past[pos]
           /\ past'[Position + 1] = server'.rows
<1>1. /\ server.rows \in [Row -> Value] /\ server.changed \in [Row -> Nat] /\ server.know \in Nat /\ server.epoch \in Nat
      /\ server' = [server EXCEPT !.rows[x] = v, !.changed[x] = server.know + 1, !.know = @ + 1]
      /\ past' = Append(past, server'.rows) /\ past \in Seq([Row -> Value])
    BY DEF TypeOK, Becomes
<1>2. /\ server'.rows = [server.rows EXCEPT ![x] = v]
      /\ server'.changed = [server.changed EXCEPT ![x] = server.know + 1]
      /\ server'.know = server.know + 1 /\ server'.epoch = server.epoch
      /\ server' = [rows |-> server'.rows, changed |-> server'.changed, know |-> server'.know, epoch |-> server'.epoch]
    BY <1>1 DEF TypeOK
<1>3. server'.rows \in [Row -> Value] /\ server'.changed \in [Row -> Nat] /\ server'.know \in Nat /\ server'.epoch \in Nat
    BY <1>1, <1>2
<1>4. server' \in [rows : [Row -> Value], changed : [Row -> Nat], know : Nat, epoch : Nat]
    BY <1>2, <1>3
<1>5. /\ past' \in Seq([Row -> Value]) /\ Len(past') = Len(past) + 1 /\ Len(past) \in Nat
      /\ \A pos \in 1..Len(past) : past'[pos] = past[pos]
      /\ past'[Len(past) + 1] = server'.rows
    BY <1>1, <1>3, AppendProperties, LenProperties
<1>6. Position' = Position + 1 /\ Position \in Nat
    BY <1>5 DEF Position
<1> QED
    BY <1>2, <1>3, <1>4, <1>5, <1>6 DEF Position

\* A new counter shows on the cursors that are held: those of entries, of the
\* entries loads start from, and of answers on their way.
LEMMA ResetShows ==
    ASSUME NEW know, NEW epoch, ResetIsVisible(know, epoch)
    PROVE  /\ \A e \in Range(entries) : e.epoch < epoch /\ e.cursor # NoCursor => know < e.cursor
           /\ \A r \in Reader : \A e \in flight[r].base : e.epoch < epoch /\ e.cursor # NoCursor => know < e.cursor
           /\ \A r \in Reader : flight[r].reply.epoch < epoch /\ flight[r].reply.know # NoCursor
                                    => know < flight[r].reply.know
<1> DEFINE held == Range(entries) \cup UNION {flight[r].base : r \in Reader}
           cursors == {<<e.epoch, e.cursor>> : e \in held} \cup {<<flight[r].reply.epoch, flight[r].reply.know>> : r \in Reader}
<1>1. \A c \in cursors : c[1] < epoch /\ c[2] # NoCursor => know < c[2]
    BY DEF ResetIsVisible
<1>2. ASSUME NEW e \in held PROVE e.epoch < epoch /\ e.cursor # NoCursor => know < e.cursor
    <2>1. <<e.epoch, e.cursor>> \in cursors
        OBVIOUS
    <2> HIDE DEF cursors
    <2> QED
        BY <1>1, <2>1
<1>3. ASSUME NEW r \in Reader
      PROVE  flight[r].reply.epoch < epoch /\ flight[r].reply.know # NoCursor => know < flight[r].reply.know
    <2>1. <<flight[r].reply.epoch, flight[r].reply.know>> \in cursors
        OBVIOUS
    <2> HIDE DEF cursors
    <2> QED
        BY <1>1, <2>1
<1> QED
    BY <1>2, <1>3

\* Cursors stay good when YNAB changes or restarts its counter.
WorldStep ==
    \/ \E x \in Row, v \in Value : Change(x, v) \/ Process(x, v)
    \/ Reset
LEMMA CursorStays ==
    ASSUME TypeOK, Chronicle, WorldStep, NEW epoch \in Nat, NEW cursor \in Nat \cup {NoCursor}, NEW pos \in 1..Position,
           CursorGood(epoch, cursor, pos),
           epoch < server'.epoch /\ cursor # NoCursor => server'.know < cursor
    PROVE  CursorGood(epoch, cursor, pos)'
<1> SUFFICES ASSUME cursor # NoCursor
             PROVE  /\ epoch <= server'.epoch
                    /\ epoch < server'.epoch => server'.know < cursor
                    /\ epoch = server'.epoch =>
                          /\ cursor <= server'.know
                          /\ \A x \in Row : past'[pos][x] # server'.rows[x] => server'.changed[x] > cursor
    BY DEF CursorGood
<1>0. /\ cursor \in Nat /\ server.epoch \in Nat /\ server.know \in Nat /\ server.changed \in [Row -> Nat]
      /\ server.rows \in [Row -> Value]
    BY DEF TypeOK
<1>1. CASE Reset
    <2>1. server'.epoch = server.epoch + 1
        BY <1>1 DEF Reset, TypeOK
    <2> QED
        BY <1>0, <2>1 DEF CursorGood
<1>2. CASE \E x \in Row, v \in Value : Change(x, v) \/ Process(x, v)
    <2>1. PICK x \in Row, v \in Value : Becomes(x, v)
        BY <1>2 DEF Change, Process
    <2>2. /\ server'.rows = [server.rows EXCEPT ![x] = v]
          /\ server'.changed = [server.changed EXCEPT ![x] = server.know + 1]
          /\ server'.know = server.know + 1 /\ server'.epoch = server.epoch
          /\ past'[pos] = past[pos]
        BY <2>1, BecomesShape
    <2>3. epoch <= server.epoch /\ (epoch < server'.epoch => server'.know < cursor)
        BY <2>2 DEF CursorGood
    <2>4. CASE epoch = server.epoch
        <3>1. cursor <= server.know /\ \A y \in Row : past[pos][y] # server.rows[y] => server.changed[y] > cursor
            BY <2>4 DEF CursorGood
        <3>2. cursor <= server'.know
            BY <1>0, <2>2, <3>1
        <3>3. ASSUME NEW y \in Row, past'[pos][y] # server'.rows[y] PROVE server'.changed[y] > cursor
            <4>1. CASE y = x
                <5>1. server'.changed[y] = server.know + 1
                    BY <1>0, <2>2, <4>1
                <5> QED
                    BY <1>0, <3>1, <5>1
            <4>2. CASE y # x
                BY <1>0, <2>2, <3>1, <3>3, <4>2
            <4> QED
                BY <4>1, <4>2
        <3> QED
            BY <2>2, <2>3, <3>2, <3>3
    <2>5. CASE epoch # server.epoch
        BY <2>2, <2>3, <2>5
    <2> QED
        BY <2>4, <2>5
<1> QED
    BY <1>1, <1>2 DEF WorldStep

\* What a change or a reset leaves of the cache, the reads and the past.
LEMMA WorldFrame ==
    ASSUME TypeOK, Chronicle, WorldStep
    PROVE  /\ UNCHANGED <<cred, currentToken, generation, entries, pending, read, flight, acked, now>>
           /\ answer' = NoAnswer
           /\ Position <= Position' /\ Position \in Nat /\ Position' \in Nat
           /\ \A pos \in 1..Position : pos \in 1..Position' /\ past'[pos] = past[pos]
           /\ TypeOK' /\ Chronicle'
           /\ ResetIsVisible(server'.know, server'.epoch)
<1> USE DEF cache
<1>1. CASE Reset
    <2>0. /\ UNCHANGED <<cred, currentToken, generation, entries, pending, read, flight, acked, now, past, write>>
          /\ answer' = NoAnswer
          /\ server' = [server EXCEPT !.know = 0, !.changed = [x \in Row |-> 0], !.epoch = @ + 1]
        BY <1>1 DEF Reset
    <2>1. /\ server'.rows = server.rows /\ server'.know = 0 /\ server'.epoch = server.epoch + 1
          /\ server' \in [rows : [Row -> Value], changed : [Row -> Nat], know : Nat, epoch : Nat]
        <3> DEFINE zero == [x \in Row |-> 0]
        <3>1. zero \in [Row -> Nat]
            OBVIOUS
        <3>2. server' = [server EXCEPT !.know = 0, !.changed = zero, !.epoch = @ + 1]
            BY <2>0
        <3> HIDE DEF zero
        <3>3. server' = [rows |-> server.rows, changed |-> zero, know |-> 0, epoch |-> server.epoch + 1]
            BY <3>2 DEF TypeOK
        <3> QED
            BY <3>1, <3>3 DEF TypeOK
    <2>1a. count' \in [Counted -> Nat]
        BY <1>1, EventCounted DEF Reset, Counted
    <2>2. ResetIsVisible(server'.know, server'.epoch)
        BY <1>1, <2>0, <2>1 DEF Reset
    <2>3. Len(past) \in Nat
        BY LenProperties DEF TypeOK
    <2> QED
        BY <2>0, <2>1, <2>1a, <2>2, <2>3, SMTT(30) DEF TypeOK, Chronicle, Position
<1>2. CASE \E x \in Row, v \in Value : Change(x, v) \/ Process(x, v)
    <2>1. PICK x \in Row, v \in Value : Change(x, v) \/ Process(x, v)
        BY <1>2
    <2>2. /\ UNCHANGED <<cred, currentToken, generation, entries, pending, read, flight, acked, now>>
          /\ answer' = NoAnswer /\ Becomes(x, v) /\ write' \in {write, "applied"}
        BY <2>1 DEF Change, Process
    <2>2a. count' \in [Counted -> Nat]
        BY <2>1, EventCounted DEF Change, Process, Counted, TypeOK
    <2>3. /\ server' \in [rows : [Row -> Value], changed : [Row -> Nat], know : Nat, epoch : Nat]
          /\ past' \in Seq([Row -> Value]) /\ Position' = Position + 1 /\ Position \in Nat
          /\ \A pos \in 1..Position : past'[pos] = past[pos]
          /\ past'[Position + 1] = server'.rows
          /\ server'.know = server.know + 1 /\ server'.epoch = server.epoch
        BY <2>2, BecomesShape
    <2>4. TypeOK'
        BY <2>2, <2>2a, <2>3 DEF TypeOK
    <2>5. Chronicle'
        BY <2>2, <2>3 DEF TypeOK, Chronicle
    <2>6. ResetIsVisible(server'.know, server'.epoch)
        BY <2>2, <2>3 DEF Becomes
    <2> QED
        BY <2>2, <2>3, <2>4, <2>5, <2>6
<1> QED
    BY <1>1, <1>2 DEF WorldStep

\* Nobody has an answer.
LEMMA NoAnswerIsGood ==
    ASSUME answer' = NoAnswer
    PROVE  AnswersAreFresh' /\ AnswersAreTrue'
BY DEF NoAnswer, AnswersAreFresh, AnswersAreTrue, ReadYourWrites, CompleteIsCurrent, CredentialHolds

\* The types of a load, and of what it starts from.
LEMMA LoadTypes ==
    ASSUME TypeOK, NEW r \in Reader
    PROVE  /\ flight[r] \in FlightType /\ flight[r].base \subseteq EntryType
           /\ flight[r].since \in Since /\ flight[r].cursor \in Nat \cup {NoCursor}
           /\ flight[r].gen \in Nat /\ flight[r].token \in Nat
           /\ flight[r].reply.rows \in Contents /\ flight[r].reply.know \in Nat \cup {NoCursor}
           /\ flight[r].reply.pos \in Nat /\ flight[r].reply.epoch \in Nat
           /\ read[r] \in ReadType /\ read[r].key \in Key /\ read[r].since \in Since
           /\ read[r].saw \in Nat /\ read[r].floor \in Nat
<1>1. flight[r] \in FlightType /\ read[r] \in ReadType
    BY DEF TypeOK
<1>2. flight[r].reply \in Reply
    BY <1>1 DEF FlightType
<1> QED
    BY <1>1, <1>2 DEF FlightType, Reply, ReadType

\* What YNAB does leaves the cache and its reads as good as they were.
LEMMA WorldKeeps ==
    ASSUME IInv, WorldStep
    PROVE  IInv'
<1> USE DEF IInv, Order
<1>1. /\ UNCHANGED <<cred, currentToken, generation, entries, pending, read, flight, acked, now>>
      /\ answer' = NoAnswer /\ TypeOK' /\ Chronicle'
      /\ Position <= Position' /\ Position \in Nat /\ Position' \in Nat
      /\ \A pos \in 1..Position : pos \in 1..Position' /\ past'[pos] = past[pos]
      /\ ResetIsVisible(server'.know, server'.epoch)
    BY WorldFrame
<1>2. Noticed' /\ Mapped' /\ Shared' /\ Recent'
    BY <1>1 DEF Noticed, Mapped, Shared, ServesAt, Loading, Recent, RecentAt
<1>3. ASSUME NEW k, NEW since, NEW pos \in 1..Position PROVE Truth(k, since, pos)' = Truth(k, since, pos)
    BY <1>1 DEF Truth, Held
<1>4. ASSUME NEW e \in EntryType, EntryTrue(e), e.epoch < server'.epoch /\ e.cursor # NoCursor => server'.know < e.cursor
      PROVE  EntryTrue(e)'
    <2>1. e.epoch \in Nat /\ e.cursor \in Nat \cup {NoCursor} /\ e.pos \in 1..Position
        BY <1>4 DEF EntryType, EntryTrue
    <2>2. CursorGood(e.epoch, e.cursor, e.pos)'
        BY <1>4, <2>1, CursorStays DEF EntryTrue
    <2>3. Truth(e.key, e.since, e.pos)' = Truth(e.key, e.since, e.pos)
        BY <1>3, <2>1
    <2>4. e.pos \in 1..Position'
        BY <1>1, <2>1
    <2> QED
        BY <1>4, <2>2, <2>3, <2>4 DEF EntryTrue
<1>5. Stored'
    <2>1. Range(entries) \subseteq EntryType
        BY InRange DEF TypeOK
    <2>2. ASSUME NEW e \in Range(entries) PROVE EntryTrue(e)'
        BY <1>1, <1>4, <2>1, ResetShows DEF Stored
    <2> QED
        BY <1>1, <2>2 DEF Stored
<1>6. ASSUME NEW r \in Reader, Loading(r) PROVE LoadTrue(r)'
    <2>1. LoadTrue(r)
        BY DEF Loads
    <2>2. ASSUME NEW e \in flight[r].base PROVE EntryTrue(e)' /\ e.key = read[r].key
        BY <1>1, <1>4, <1>6, <2>1, LoadTypes, ResetShows DEF LoadTrue
    <2>3. ASSUME read[r].state = "back" PROVE BringsTrue(r)'
        <3>1. BringsTrue(r) /\ flight[r].reply.pos \in 1..Position
            BY <1>6, <2>1, <2>3 DEF LoadTrue, BringsTrue
        <3>2. CursorGood(flight[r].reply.epoch, flight[r].reply.know, flight[r].reply.pos)'
            <4>1. /\ flight[r].reply.epoch \in Nat /\ flight[r].reply.know \in Nat \cup {NoCursor}
                  /\ flight[r].reply.epoch < server'.epoch /\ flight[r].reply.know # NoCursor
                       => server'.know < flight[r].reply.know
                  /\ CursorGood(flight[r].reply.epoch, flight[r].reply.know, flight[r].reply.pos)
                BY <1>1, <3>1, LoadTypes, ResetShows DEF BringsTrue
            <4>2. ASSUME NEW a \in Nat, NEW b \in Nat \cup {NoCursor}, NEW p \in 1..Position, CursorGood(a, b, p),
                         a < server'.epoch /\ b # NoCursor => server'.know < b
                  PROVE  CursorGood(a, b, p)'
                BY <4>2, CursorStays
            <4>3. PICK a, b, p : a = flight[r].reply.epoch /\ b = flight[r].reply.know /\ p = flight[r].reply.pos
                OBVIOUS
            <4>4. CursorGood(a, b, p)'
                BY <3>1, <4>1, <4>2, <4>3
            <4> QED
                BY <1>1, <4>3, <4>4 DEF CursorGood
        <3>3. Truth(read[r].key, flight[r].since, flight[r].reply.pos)' = Truth(read[r].key, flight[r].since, flight[r].reply.pos)
            BY <1>1, <3>1 DEF Truth, Held
        <3>4. Merged(flight[r])' = Merged(flight[r]) /\ (Reload(flight[r])' <=> Reload(flight[r]))
            BY <1>1 DEF Merged, Reload
        <3>5. flight[r].reply.pos \in 1..Position'
            BY <1>1, <3>1
        <3> QED
            BY <1>1, <3>1, <3>2, <3>3, <3>4, <3>5 DEF BringsTrue
    <2> QED
        BY <1>1, <1>6, <2>1, <2>2, <2>3 DEF LoadTrue, StartsFrom, Loading
<1>7. Loads'
    BY <1>1, <1>6 DEF Loads, LoadTrue, Loading
<1> QED
    BY <1>1, <1>2, <1>5, <1>7, NoAnswerIsGood

-----------------------------------------------------------------------------
(* Invalidations, credentials, time.                                       *)

\* The cache is as it was, or emptied and of a new generation; a token that is
\* noticed empties it, unless it is the first.
KeptOrEmptied ==
    \/ UNCHANGED <<entries, pending, generation, acked>> /\ (currentToken' = currentToken \/ currentToken = 0)
    \/ entries' = <<>> /\ pending' = [k \in Key |-> Nobody] /\ generation' = generation + 1

LEMMA CredentialShape ==
    ASSUME TypeOK, Noticed, Credential, acked' = acked
    PROVE  currentToken' = cred /\ KeptOrEmptied
<1>1. CASE Rotated
    BY <1>1 DEF Credential, Invalidate, KeptOrEmptied
<1>2. CASE ~Rotated
    BY <1>2 DEF Credential, KeptOrEmptied, Rotated
<1> QED
    BY <1>1, <1>2

LEMMA InvalidateShape ==
    ASSUME Invalidate
    PROVE  KeptOrEmptied
BY DEF Invalidate, KeptOrEmptied

\* What is left of the map, the entries and the current loads then.
LEMMA KeptOrEmptiedKeeps ==
    ASSUME IInv, KeptOrEmptied, UNCHANGED <<server, past, read, flight>>, answer' = NoAnswer, TypeOK',
           cred <= cred', currentToken <= currentToken', currentToken' <= cred', acked <= acked', acked' <= Position
    PROVE  IInv'
<1> USE DEF IInv, Order
<1>0. /\ {cred, currentToken, generation, acked} \subseteq Nat /\ {cred', currentToken', generation', acked'} \subseteq Nat
      /\ \A r \in Reader : read[r].saw \in Nat /\ read[r].floor \in Nat /\ flight[r].gen \in Nat
    BY LoadTypes DEF TypeOK
<1>1. Chronicle'
    BY DEF Chronicle, Position
<1>2. Noticed'
    BY <1>0, SMTT(30) DEF Noticed, KeptOrEmptied
<1>3. Mapped'
    BY DEF KeptOrEmptied, Mapped, Loading
<1>4. Shared'
    BY DEF Shared, ServesAt, Loading
<1>5. Recent'
    <2>1. CASE UNCHANGED <<entries, pending, generation, acked>> /\ currentToken' = currentToken
        BY <2>1 DEF Recent, RecentAt, Loading
    <2>2. CASE UNCHANGED <<entries, pending, generation, acked>> /\ currentToken = 0
        <3>1. entries' = <<>> /\ \A r \in Reader : read'[r].state = "idle"
            BY <2>2 DEF Noticed
        <3>2. Range(entries') = {}
            BY <3>1 DEF Range
        <3> QED
            BY <2>2, <3>1, <3>2 DEF Recent, RecentAt, Loading
    <2>3. CASE entries' = <<>> /\ generation' = generation + 1
        <3>1. Range(entries') = {}
            BY <2>3 DEF Range
        <3>2. \A r \in Reader : flight[r].gen <= generation
            BY DEF Recent, RecentAt
        <3>3. \A r \in Reader : flight'[r].gen <= generation' /\ flight'[r].gen # generation'
            BY <1>0, <2>3, <3>2
        <3> QED
            BY <3>1, <3>3 DEF Recent, RecentAt
    <2> QED
        BY <2>1, <2>2, <2>3 DEF KeptOrEmptied
<1>6. Stored'
    <2>1. CASE entries' = entries
        BY <2>1, PastStays DEF Stored
    <2>2. CASE entries' = <<>>
        <3>1. Range(entries') = {} /\ DOMAIN entries' = {}
            BY <2>2 DEF Range
        <3> QED
            BY <3>1 DEF Stored
    <2> QED
        BY <2>1, <2>2 DEF KeptOrEmptied
<1>7. Loads'
    <2>1. \A e : EntryTrue(e)' <=> EntryTrue(e)
        BY PastStays
    <2>2. \A r \in Reader : BringsTrue(r)' <=> BringsTrue(r)
        BY DEF BringsTrue, CursorGood, Reload, Merged, Truth, Held, Position
    <2> QED
        BY <2>1, <2>2 DEF Loads, LoadTrue, Loading, StartsFrom
<1> QED
    BY <1>1, <1>2, <1>3, <1>4, <1>5, <1>6, <1>7, NoAnswerIsGood

\* The steps around a write, a new credential and the clock.
OutsideStep == BeginWrite \/ SendWrite \/ EndWrite \/ Rotate \/ Tick
LEMMA OutsideKeeps ==
    ASSUME IInv, OutsideStep
    PROVE  IInv'
<1> USE DEF IInv, Order
<1>1. UNCHANGED <<server, past, read, flight>> /\ answer' = NoAnswer
    BY DEF OutsideStep, BeginWrite, SendWrite, EndWrite, Rotate, Tick
<1>2. /\ KeptOrEmptied /\ cred' \in {cred, cred + 1} /\ currentToken' \in {currentToken, cred}
      /\ acked' \in {acked, Position}
    <2>1. CASE BeginWrite
        BY <2>1, InvalidateShape DEF BeginWrite
    <2>2. CASE SendWrite
        BY <2>2, CredentialShape DEF SendWrite
    <2>3. CASE EndWrite
        BY <2>3, InvalidateShape DEF EndWrite
    <2>4. CASE Rotate \/ Tick
        BY <2>4 DEF Rotate, Tick, KeptOrEmptied, cache
    <2> QED
        BY <2>1, <2>2, <2>3, <2>4 DEF OutsideStep
<1>3. {cred, currentToken, acked, Position, generation, now} \subseteq Nat /\ currentToken <= cred /\ acked <= Position
    BY InRange DEF TypeOK, Noticed, Chronicle, Position
<1>4. TypeOK'
    <2>1. count' \in [Counted -> Nat]
        <3>1. CASE BeginWrite
            BY <3>1, EventCounted DEF BeginWrite, Counted
        <3>2. CASE Rotate
            BY <3>2, EventCounted DEF Rotate, Counted
        <3>3. CASE Tick
            BY <3>3, EventCounted DEF Tick, Counted
        <3>4. CASE SendWrite \/ EndWrite
            BY <3>4 DEF SendWrite, EndWrite, TypeOK
        <3> QED
            BY <3>1, <3>2, <3>3, <3>4 DEF OutsideStep
    <2>2. now' \in Nat /\ write' \in {"idle", "begun", "sent", "applied"}
        BY <1>3 DEF OutsideStep, BeginWrite, SendWrite, EndWrite, Rotate, Tick, TypeOK
    <2>3. /\ entries' \in Seq(EntryType) /\ generation' \in Nat
          /\ pending' \in [Key -> Reader \cup {Nobody}]
        <3>1. CASE UNCHANGED <<entries, pending, generation>>
            BY <3>1 DEF TypeOK
        <3>2. CASE entries' = <<>> /\ pending' = [k \in Key |-> Nobody] /\ generation' = generation + 1
            <4>1. entries' \in Seq(EntryType)
                BY <3>2, EmptySeq
            <4>2. pending' \in [Key -> Reader \cup {Nobody}]
                BY <3>2
            <4> QED
                BY <1>3, <3>2, <4>1, <4>2
        <3> QED
            BY <1>2, <3>1, <3>2 DEF KeptOrEmptied
    <2>4. cred' \in Nat /\ currentToken' \in Nat /\ acked' \in Nat
        BY <1>2, <1>3
    <2> QED
        BY <1>1, <1>3, <2>1, <2>2, <2>3, <2>4 DEF TypeOK
<1> QED
    BY <1>1, <1>2, <1>3, <1>4, KeptOrEmptiedKeeps

-----------------------------------------------------------------------------
(* Reads that enter the cache.                                             *)

\* Reader r enters for q, with what is in the map or in an emptied one.
Entering(r, q, under) ==
    /\ read[r].state \in {"idle", "retry"} /\ q \in ReadType
    /\ q.saw <= currentToken' /\ q.floor <= acked
    /\ UNCHANGED <<server, past, cred, acked, now>>
    /\ currentToken' \in Nat \ {0} /\ currentToken <= currentToken' /\ currentToken' <= cred
    /\ \/ entries' = entries /\ generation' = generation /\ under = pending
          /\ (currentToken' = currentToken \/ currentToken = 0)
       \/ entries' = <<>> /\ generation' = generation + 1 /\ under = [k \in Key |-> Nobody]

\* It hits an entry, joins a load or waits for it, or starts one.
Hits(r, q, under) ==
    /\ \E e \in Range(entries') : e.key = q.key /\ e.since <= q.since /\ answer' = Told({q}, e, TRUE)
    /\ read' = [read EXCEPT ![r] = Idle] /\ pending' = under /\ flight' = flight
Joins(r, q, under) ==
    /\ under[q.key] # Nobody
    /\ \/ /\ flight[under[q.key]].since <= q.since
          /\ read' = [read EXCEPT ![r] = [q EXCEPT !.state = "joined", !.on = under[q.key]]]
       \/ read' = [read EXCEPT ![r] = [q EXCEPT !.state = "waits", !.on = under[q.key]]]
    /\ pending' = under /\ answer' = NoAnswer /\ flight' = flight
Starts(r, q, under) ==
    /\ under[q.key] = Nobody
    /\ flight' = [flight EXCEPT ![r] = Load(Existing(entries', q.key), q, generation')]
    /\ read' = [read EXCEPT ![r] = [q EXCEPT !.state = "send"]]
    /\ pending' = [under EXCEPT ![q.key] = r] /\ answer' = NoAnswer

LEMMA EnterCases ==
    ASSUME NEW r, NEW q, NEW under, NEW es, NEW gen, Enter(r, q, es, under, gen), es = entries', gen = generation'
    PROVE  Hits(r, q, under) \/ Joins(r, q, under) \/ Starts(r, q, under)
<1>1. CASE Fresh(es, q) # {}
    <2>1. /\ \E e \in Fresh(es, q) : answer' = Told({q}, e, TRUE)
          /\ read' = [read EXCEPT ![r] = Idle] /\ pending' = under /\ flight' = flight
        BY <1>1 DEF Enter
    <2> QED
        BY <2>1 DEF Hits, Fresh, Existing, Covers
<1>2. CASE Fresh(es, q) = {} /\ under[q.key] # Nobody
    <2>1. /\ read' = [read EXCEPT ![r] = [q EXCEPT !.state = IF Covers(flight[under[q.key]].since, q.since) THEN "joined" ELSE "waits",
                                                   !.on = under[q.key]]]
          /\ pending' = under /\ answer' = NoAnswer /\ flight' = flight
        BY <1>2 DEF Enter
    <2> QED
        BY <1>2, <2>1 DEF Joins, Covers
<1>3. CASE Fresh(es, q) = {} /\ under[q.key] = Nobody
    BY <1>3 DEF Enter, Starts
<1> QED
    BY <1>1, <1>2, <1>3

\* A read that begins, and one that tries again, enter.
LEMMA BeginEnters ==
    ASSUME TypeOK, Chronicle, Noticed, NEW r \in Reader, NEW k \in Key, NEW since \in Since, Begin(r, k, since)
    PROVE  /\ \E q, under : Entering(r, q, under) /\ (Hits(r, q, under) \/ Joins(r, q, under) \/ Starts(r, q, under))
           /\ write' = write /\ count' \in [Counted -> Nat]
<1> DEFINE q == [state |-> "idle", key |-> k, since |-> since, saw |-> cred, floor |-> acked, on |-> Nobody]
           under == IF Rotated THEN [x \in Key |-> Nobody] ELSE pending
<1>1. /\ read[r].state = "idle" /\ currentToken' = cred
      /\ UNCHANGED <<server, past, cred, write, acked, now>>
    BY DEF Begin
<1>3. q \in ReadType /\ q.saw = cred /\ q.floor = acked
    BY DEF ReadType, TypeOK
<1>4. cred \in Nat \ {0} /\ currentToken <= cred
    <2>1. cred \in Nat /\ currentToken \in Nat /\ currentToken <= cred
        BY DEF TypeOK, Noticed
    <2> QED
        BY <2>1 DEF Noticed
<1>5. count' \in [Counted -> Nat]
    BY EventCounted DEF Begin, Counted
<1>2. acked \in Nat
    BY DEF TypeOK
<1>6. CASE Rotated
    <2>1. /\ Enter(r, q, <<>>, under, generation + 1)
          /\ generation' = generation + 1 /\ entries' = <<>>
        BY <1>6 DEF Begin
    <2>2. under = [x \in Key |-> Nobody]
        BY <1>6
    <2> HIDE DEF q, under
    <2>3. Hits(r, q, under) \/ Joins(r, q, under) \/ Starts(r, q, under)
        BY <2>1, EnterCases
    <2>4. Entering(r, q, under)
        <3>1. /\ read[r].state \in {"idle", "retry"} /\ q.saw <= currentToken' /\ q.floor <= acked
              /\ UNCHANGED <<server, past, cred, acked, now>>
              /\ currentToken' \in Nat \ {0} /\ currentToken <= currentToken' /\ currentToken' <= cred
            BY <1>1, <1>2, <1>3, <1>4
        <3> QED
            BY <1>3, <2>1, <2>2, <3>1 DEF Entering
    <2> QED
        BY <1>1, <1>5, <2>3, <2>4
<1>7. CASE ~Rotated
    <2>1. /\ Enter(r, q, entries, under, generation)
          /\ generation' = generation /\ entries' = entries
          /\ currentToken \in {0, cred}
        BY <1>7 DEF Begin, Rotated
    <2>2. under = pending
        BY <1>7
    <2> HIDE DEF q, under
    <2>3. Hits(r, q, under) \/ Joins(r, q, under) \/ Starts(r, q, under)
        BY <2>1, EnterCases
    <2>4. Entering(r, q, under)
        <3>1. /\ read[r].state \in {"idle", "retry"} /\ q.saw <= currentToken' /\ q.floor <= acked
              /\ UNCHANGED <<server, past, cred, acked, now>>
              /\ currentToken' \in Nat \ {0} /\ currentToken <= currentToken' /\ currentToken' <= cred
            BY <1>1, <1>2, <1>3, <1>4
        <3>2. currentToken' = currentToken \/ currentToken = 0
            BY <1>1, <2>1
        <3> QED
            BY <1>3, <2>1, <2>2, <3>1, <3>2 DEF Entering
    <2> QED
        BY <1>1, <1>5, <2>3, <2>4
<1> QED
    BY <1>6, <1>7

LEMMA RetryEnters ==
    ASSUME TypeOK, Noticed, NEW r \in Reader, Retry(r)
    PROVE  /\ Entering(r, read[r], pending)
           /\ Hits(r, read[r], pending) \/ Joins(r, read[r], pending) \/ Starts(r, read[r], pending)
           /\ write' = write /\ count' \in [Counted -> Nat]
<1>1. /\ read[r].state = "retry" /\ Enter(r, read[r], entries, pending, generation)
      /\ UNCHANGED <<server, past, cred, currentToken, generation, entries, storedBytes, write, acked, now, count>>
    BY DEF Retry
<1>2. Hits(r, read[r], pending) \/ Joins(r, read[r], pending) \/ Starts(r, read[r], pending)
    BY <1>1, EnterCases
<1>3. read[r].saw <= currentToken /\ read[r].floor <= acked /\ currentToken # 0 /\ currentToken <= cred
    BY <1>1 DEF Noticed
<1>4. read[r] \in ReadType /\ currentToken \in Nat /\ count \in [Counted -> Nat]
    BY DEF TypeOK
<1> QED
    BY <1>1, <1>2, <1>3, <1>4 DEF Entering

\* What a read finds when it enters.
LEMMA FoundThen ==
    ASSUME IInv, NEW r \in Reader, NEW q, NEW under, Entering(r, q, under)
    PROVE  /\ entries' \in Seq(EntryType) /\ Range(entries') \subseteq EntryType /\ generation' \in Nat
           /\ \A i, j \in DOMAIN entries' : entries'[i].key = entries'[j].key => i = j
           /\ \A e \in Range(entries') : EntryTrue(e) /\ e.token = currentToken' /\ e.pos >= acked
           /\ under \in [Key -> Reader \cup {Nobody}]
           /\ \A k \in Key : under[k] # Nobody =>
                /\ under[k] \in Reader \ {r} /\ Loading(under[k]) /\ read[under[k]].key = k
                /\ flight[under[k]].gen = generation /\ generation' = generation /\ currentToken' = currentToken
<1> USE DEF IInv, Order
<1>1. entries \in Seq(EntryType) /\ generation \in Nat /\ pending \in [Key -> Reader \cup {Nobody}] /\ Nobody \notin Reader
    BY CacheAssumption DEF TypeOK
<1>2. CASE /\ entries' = entries /\ generation' = generation /\ under = pending
           /\ currentToken' = currentToken \/ currentToken = 0
    <2>1. \A e \in Range(entries) : e.token = currentToken' /\ e.pos >= acked
        <3>1. CASE currentToken' = currentToken
            BY <3>1 DEF Recent
        <3>2. CASE currentToken = 0
            <4>1. entries = <<>>
                BY <3>2 DEF Noticed
            <4> QED
                BY <4>1 DEF Range
        <3> QED
            BY <1>2, <3>1, <3>2
    <2>2. ASSUME NEW k \in Key, under[k] # Nobody
          PROVE  /\ under[k] \in Reader \ {r} /\ Loading(under[k]) /\ read[under[k]].key = k
                 /\ flight[under[k]].gen = generation /\ generation' = generation /\ currentToken' = currentToken
        <3>1. Loading(pending[k]) /\ read[pending[k]].key = k /\ flight[pending[k]].gen = generation
            BY <1>2, <2>2 DEF Mapped
        <3>2. pending[k] \in Reader
            BY <1>1, <1>2, <2>2
        <3>3. pending[k] # r /\ currentToken # 0
            BY <3>1, <3>2 DEF Loading, Entering, Noticed
        <3> QED
            BY <1>2, <3>1, <3>2, <3>3
    <2>3. Range(entries) \subseteq EntryType
        BY <1>1, InRange
    <2> QED
        BY <1>1, <1>2, <2>1, <2>2, <2>3 DEF Stored
<1>3. CASE entries' = <<>> /\ generation' = generation + 1 /\ under = [k \in Key |-> Nobody]
    <2>1. Range(entries') = {} /\ DOMAIN entries' = {} /\ entries' \in Seq(EntryType)
        BY <1>3, EmptySeq DEF Range
    <2>2. under \in [Key -> Reader \cup {Nobody}] /\ \A k \in Key : under[k] = Nobody
        BY <1>3
    <2> QED
        BY <1>1, <1>3, <2>1, <2>2
<1> QED
    BY <1>2, <1>3 DEF Entering

\* The other reads and loads go on.
LEMMA OthersGoOn ==
    ASSUME IInv, NEW r \in Reader, NEW q, NEW under, Entering(r, q, under),
           \A x \in Reader \ {r} : read'[x] = read[x] /\ flight'[x] = flight[x]
    PROVE  \A x \in Reader \ {r} :
              /\ read[x].state # "idle" => read[x].saw <= currentToken' /\ read[x].floor <= acked
              /\ Loading(x) => ServesAt(x, x)'
              /\ read[x].state = "joined" => ServesAt(read[x].on, x)' /\ read[x].on # r
              /\ read[x].state = "waits" =>
                    Loading(read[x].on)' /\ read'[read[x].on].key = read[x].key /\ read[x].on # r
              /\ RecentAt(x)' /\ LoadTrue(x)'
              /\ Loading(x)' <=> Loading(x)
<1> USE DEF IInv, Order
<1>0. ~Loading(r) /\ currentToken' \in Nat /\ currentToken <= currentToken' /\ UNCHANGED <<server, past, acked, now>>
    BY DEF Entering, Loading
<1>1. /\ {currentToken, generation, acked} \subseteq Nat /\ Nobody \notin Reader
      /\ \A x \in Reader : read[x].on \in Reader \cup {Nobody} /\ read[x].saw \in Nat /\ flight[x].gen \in Nat
    BY LoadTypes, CacheAssumption DEF TypeOK, ReadType
<1> SUFFICES ASSUME NEW x \in Reader \ {r}
             PROVE  /\ read[x].state # "idle" => read[x].saw <= currentToken' /\ read[x].floor <= acked
                    /\ Loading(x) => ServesAt(x, x)'
                    /\ read[x].state = "joined" => ServesAt(read[x].on, x)' /\ read[x].on # r
                    /\ read[x].state = "waits" =>
                          Loading(read[x].on)' /\ read'[read[x].on].key = read[x].key /\ read[x].on # r
                    /\ RecentAt(x)' /\ LoadTrue(x)'
                    /\ Loading(x)' <=> Loading(x)
    OBVIOUS
<1>2. read'[x] = read[x] /\ flight'[x] = flight[x] /\ (Loading(x)' <=> Loading(x))
    BY DEF Loading
<1>3. read[x].state # "idle" => read[x].saw <= currentToken' /\ read[x].floor <= acked
    BY <1>0, <1>1 DEF Noticed
<1>4. Loading(x) => ServesAt(x, x)'
    BY <1>2 DEF Shared, ServesAt
<1>5. read[x].state = "joined" => ServesAt(read[x].on, x)' /\ read[x].on # r
    <2>1. ASSUME read[x].state = "joined" PROVE ServesAt(read[x].on, x)' /\ read[x].on # r
        <3>1. ServesAt(read[x].on, x) /\ Loading(read[x].on)
            BY <2>1 DEF Shared, ServesAt
        <3>2. read[x].on \in Reader
            BY <2>1 DEF Shared
        <3> QED
            BY <1>0, <1>2, <3>1, <3>2 DEF ServesAt, Loading
    <2> QED
        BY <2>1
<1>6. read[x].state = "waits" => Loading(read[x].on)' /\ read'[read[x].on].key = read[x].key /\ read[x].on # r
    BY <1>0, <1>1, <1>2 DEF Shared, Loading
<1>7. RecentAt(x)'
    <2>1. RecentAt(x)
        BY DEF Recent
    <2>2. CASE generation' = generation /\ currentToken' = currentToken
        BY <1>0, <1>2, <2>1, <2>2 DEF RecentAt
    <2>3. CASE generation' = generation /\ currentToken = 0
        <3>1. ~Loading(x)
            BY <2>3 DEF Noticed, Loading
        <3> QED
            BY <1>2, <2>1, <2>3, <3>1 DEF RecentAt
    <2>4. CASE generation' = generation + 1
        BY <1>1, <1>2, <2>1, <2>4 DEF RecentAt
    <2> QED
        BY <2>2, <2>3, <2>4 DEF Entering
<1>8. LoadTrue(x)'
    BY <1>0, <1>2, LoadStays DEF Loads
<1> QED
    BY <1>2, <1>3, <1>4, <1>5, <1>6, <1>7, <1>8

\* What is visible of a wider answer is the narrower one.
Seen(rows, since) == [x \in {x \in DOMAIN rows : Visible(x, since)} |-> rows[x]]
LEMMA Narrower ==
    ASSUME NEW k, NEW wide \in Since, NEW since \in Since, wide <= since, NEW pos, NEW rows, rows = Truth(k, wide, pos)
    PROVE  Seen(rows, since) = Truth(k, since, pos)
<1> DEFINE all == Held(k, wide, past[pos])
           some == Held(k, since, past[pos])
<1>1. DOMAIN rows = all /\ \A x \in all : rows[x] = past[pos][x]
    BY DEF Truth
<1>2. \A x : Visible(x, since) => Visible(x, wide)
    BY DEF Visible, Since
<1>3. some = {x \in DOMAIN rows : Visible(x, since)} /\ some \subseteq all
    BY <1>1, <1>2 DEF Held
<1> HIDE DEF all, some
<1>4. [x \in some |-> rows[x]] = [x \in some |-> past[pos][x]]
    BY <1>1, <1>3
<1>5. Truth(k, since, pos) = [x \in some |-> past[pos][x]]
    BY DEF Truth, some
<1> QED
    BY <1>3, <1>4, <1>5 DEF Seen

\* An idle reader.
LEMMA IdleType == Idle \in ReadType /\ Idle.state = "idle"
<1>1. (CHOOSE k \in Key : TRUE) \in Key
    BY CacheAssumption
<1> QED
    BY <1>1 DEF Idle, ReadType, Since

\* A read that enters leaves the rest in order.
LEMMA RestInOrder ==
    ASSUME IInv, NEW r \in Reader, NEW q, NEW under, Entering(r, q, under),
           \A x \in Reader \ {r} : read'[x] = read[x] /\ flight'[x] = flight[x],
           read' \in [Reader -> ReadType], flight' \in [Reader -> FlightType],
           pending' \in [Key -> Reader \cup {Nobody}],
           write' = write, count' \in [Counted -> Nat]
    PROVE  /\ TypeOK' /\ Chronicle' /\ Stored'
           /\ \A e \in Range(entries') : e.token = currentToken' /\ e.pos >= acked'
           /\ currentToken' <= cred' /\ cred' >= 1 /\ currentToken' # 0
<1> USE DEF IInv, Order
<1>1. /\ UNCHANGED <<server, past, cred, acked, now>>
      /\ currentToken' \in Nat \ {0} /\ currentToken' <= cred'
    BY DEF Entering
<1>2. /\ entries' \in Seq(EntryType) /\ generation' \in Nat
      /\ \A i, j \in DOMAIN entries' : entries'[i].key = entries'[j].key => i = j
      /\ \A e \in Range(entries') : EntryTrue(e) /\ e.token = currentToken' /\ e.pos >= acked
    BY FoundThen
<1>3. TypeOK'
    BY <1>1, <1>2 DEF TypeOK
<1>4. Stored'
    BY <1>1, <1>2, PastStays DEF Stored
<1> QED
    BY <1>1, <1>2, <1>3, <1>4 DEF Chronicle, Position, Noticed

LEMMA HitKeeps ==
    ASSUME IInv, NEW r \in Reader, NEW q, NEW under, Entering(r, q, under), Hits(r, q, under),
           write' = write, count' \in [Counted -> Nat]
    PROVE  IInv'
<1> USE DEF IInv, Order
<1>1. /\ read' = [read EXCEPT ![r] = Idle] /\ pending' = under /\ flight' = flight
      /\ read \in [Reader -> ReadType] /\ flight \in [Reader -> FlightType]
    BY DEF Hits, TypeOK
<1>2. /\ \A x \in Reader \ {r} : read'[x] = read[x] /\ flight'[x] = flight[x]
      /\ read' \in [Reader -> ReadType] /\ read'[r].state = "idle" /\ ~Loading(r)'
    BY <1>1, IdleType DEF Loading
<1>3. /\ under \in [Key -> Reader \cup {Nobody}]
      /\ \A k \in Key : under[k] # Nobody =>
            /\ under[k] \in Reader \ {r} /\ Loading(under[k]) /\ read[under[k]].key = k
            /\ flight[under[k]].gen = generation'
    BY FoundThen
<1>4. /\ TypeOK' /\ Chronicle' /\ Stored' /\ currentToken' <= cred' /\ cred' >= 1 /\ currentToken' # 0
      /\ \A e \in Range(entries') : e.token = currentToken' /\ e.pos >= acked'
    BY <1>1, <1>2, <1>3, RestInOrder
<1>5. \A x \in Reader \ {r} :
              /\ read[x].state # "idle" => read[x].saw <= currentToken' /\ read[x].floor <= acked
              /\ Loading(x) => ServesAt(x, x)'
              /\ read[x].state = "joined" => ServesAt(read[x].on, x)' /\ read[x].on # r
              /\ read[x].state = "waits" =>
                    Loading(read[x].on)' /\ read'[read[x].on].key = read[x].key /\ read[x].on # r
              /\ RecentAt(x)' /\ LoadTrue(x)'
              /\ Loading(x)' <=> Loading(x)
    BY <1>2, OthersGoOn
<1>6. acked' = acked /\ q.saw <= currentToken' /\ q.floor <= acked
    BY DEF Entering
<1>7. Noticed'
    BY <1>2, <1>4, <1>5, <1>6 DEF Noticed
<1>8. Mapped'
    BY <1>1, <1>2, <1>3, <1>5 DEF Mapped
<1>9. Shared'
    BY <1>2, <1>5 DEF Shared
<1>10. Recent'
    <2>1. flight[r].gen <= generation'
        <3>1. flight[r].gen <= generation /\ flight[r].gen \in Nat /\ generation \in Nat
            BY LoadTypes DEF Recent, RecentAt, TypeOK
        <3> QED
            BY <3>1 DEF Entering
    <2>2. RecentAt(r)'
        BY <1>1, <1>2, <2>1 DEF RecentAt
    <2> QED
        BY <1>4, <1>5, <2>2 DEF Recent
<1>11. Loads'
    BY <1>2, <1>5 DEF Loads, LoadTrue
<1>12. AnswersAreFresh' /\ AnswersAreTrue'
    <2>1. PICK e \in Range(entries') : e.key = q.key /\ e.since <= q.since /\ answer' = Told({q}, e, TRUE)
        BY DEF Hits
    <2>2. EntryTrue(e) /\ e.token = currentToken' /\ e.pos >= acked /\ e \in EntryType
        BY <2>1, FoundThen
    <2>3. answer'.readers = {q} /\ answer'.rows = e.rows /\ answer'.pos = e.pos /\ answer'.token = e.token
        BY <2>1 DEF Told
    <2>4. AnswersAreFresh'
        <3>1. e.pos \in Nat /\ e.token \in Nat /\ acked \in Nat /\ q.floor \in Nat /\ q.saw \in Nat
            BY <2>2 DEF EntryType, TypeOK, Entering, ReadType
        <3> QED
            BY <1>6, <2>2, <2>3, <3>1 DEF AnswersAreFresh, ReadYourWrites, CompleteIsCurrent, CredentialHolds
    <2>5. AnswersAreTrue'
        <3>1. e.rows = Truth(q.key, e.since, e.pos) /\ e.since \in Since /\ q.since \in Since
            BY <2>1, <2>2 DEF EntryTrue, EntryType, Entering, ReadType
        <3>2. Seen(e.rows, q.since) = Truth(q.key, q.since, e.pos)
            BY <2>1, <3>1, Narrower
        <3>3. Truth(q.key, q.since, e.pos)' = Truth(q.key, q.since, e.pos)
            BY PastStays DEF Entering
        <3> QED
            BY <2>3, <3>2, <3>3 DEF AnswersAreTrue, Seen, Visible
    <2> QED
        BY <2>4, <2>5
<1> QED
    BY <1>4, <1>7, <1>8, <1>9, <1>10, <1>11, <1>12

LEMMA JoinKeeps ==
    ASSUME IInv, NEW r \in Reader, NEW q, NEW under, Entering(r, q, under), Joins(r, q, under),
           write' = write, count' \in [Counted -> Nat]
    PROVE  IInv'
<1> USE DEF IInv, Order
<1> DEFINE o == under[q.key]
<1>0. q \in ReadType /\ q.key \in Key /\ q.since \in Since /\ q.saw \in Nat /\ q.floor \in Nat
    BY DEF Entering, ReadType
<1>1. /\ o # Nobody /\ pending' = under /\ flight' = flight /\ answer' = NoAnswer
      /\ read \in [Reader -> ReadType] /\ flight \in [Reader -> FlightType]
    BY DEF Joins, TypeOK
<1>3. /\ under \in [Key -> Reader \cup {Nobody}]
      /\ \A k \in Key : under[k] # Nobody =>
            /\ under[k] \in Reader \ {r} /\ Loading(under[k]) /\ read[under[k]].key = k
            /\ flight[under[k]].gen = generation' /\ generation' = generation /\ currentToken' = currentToken
    BY FoundThen
<1>3a. /\ o \in Reader \ {r} /\ Loading(o) /\ read[o].key = q.key
       /\ flight[o].gen = generation /\ generation' = generation /\ currentToken' = currentToken
    BY <1>0, <1>1, <1>3
<1>2. PICK kind \in {"joined", "waits"} :
          /\ read' = [read EXCEPT ![r] = [q EXCEPT !.state = kind, !.on = o]]
          /\ kind = "joined" => flight[o].since <= q.since
    BY DEF Joins
<1> HIDE DEF o
<1> DEFINE z == [q EXCEPT !.state = kind, !.on = o]
<1>2a. /\ z \in ReadType /\ z.state = kind /\ z.on = o /\ z.key = q.key /\ z.since = q.since
       /\ z.saw = q.saw /\ z.floor = q.floor
    BY <1>0, <1>3a DEF ReadType
<1> HIDE DEF z
<1>2b. /\ \A x \in Reader \ {r} : read'[x] = read[x] /\ flight'[x] = flight[x]
       /\ read' \in [Reader -> ReadType] /\ read'[r] = z
    BY <1>1, <1>2, <1>2a DEF z
<1>2c. ~Loading(r)'
    BY <1>2a, <1>2b DEF Loading
<1>4. /\ TypeOK' /\ Chronicle' /\ Stored' /\ currentToken' <= cred' /\ cred' >= 1 /\ currentToken' # 0
      /\ \A e \in Range(entries') : e.token = currentToken' /\ e.pos >= acked'
    BY <1>1, <1>2b, <1>3, RestInOrder
<1>5. \A x \in Reader \ {r} :
              /\ read[x].state # "idle" => read[x].saw <= currentToken' /\ read[x].floor <= acked
              /\ Loading(x) => ServesAt(x, x)'
              /\ read[x].state = "joined" => ServesAt(read[x].on, x)' /\ read[x].on # r
              /\ read[x].state = "waits" =>
                    Loading(read[x].on)' /\ read'[read[x].on].key = read[x].key /\ read[x].on # r
              /\ RecentAt(x)' /\ LoadTrue(x)'
              /\ Loading(x)' <=> Loading(x)
    BY <1>2b, OthersGoOn
<1>6. acked' = acked /\ q.saw <= currentToken' /\ q.floor <= acked
    BY DEF Entering
<1>7. Noticed'
    BY <1>2a, <1>2b, <1>4, <1>5, <1>6 DEF Noticed
<1>8. Mapped'
    BY <1>1, <1>2b, <1>3, <1>5 DEF Mapped
<1>9. Shared'
    <2>1. kind = "joined" => ServesAt(o, r)'
        <3>1. read[o].state \in {"serve", "back"} => flight[o].token >= q.saw
            BY <1>3a, <1>6 DEF Recent, RecentAt
        <3>2. read[o].state = "back" => flight[o].reply.pos >= q.floor
            <4>1. acked \in Nat /\ flight[o].reply.pos \in Nat
                BY <1>3a, LoadTypes DEF TypeOK
            <4> QED
                BY <1>0, <1>3a, <1>6, <4>1 DEF Recent, RecentAt
        <3> QED
            BY <1>1, <1>2, <1>2a, <1>2b, <1>3a, <1>5, <3>1, <3>2 DEF ServesAt
    <2>2. Loading(o)' /\ read'[o].key = q.key
        BY <1>2b, <1>3a, <1>5
    <2>3. \A x \in Reader \ {r} : read'[x].state \in {"joined", "waits"} => read'[x].on \in Reader
        BY <1>2b DEF Shared
    <2> QED
        BY <1>2a, <1>2b, <1>2c, <1>3a, <1>5, <2>1, <2>2, <2>3 DEF Shared
<1>10. Recent'
    <2>1. flight[r].gen <= generation'
        BY <1>3a DEF Recent, RecentAt
    <2>2. RecentAt(r)'
        BY <1>1, <1>2c, <2>1 DEF RecentAt
    <2> QED
        BY <1>4, <1>5, <2>2 DEF Recent
<1>11. Loads'
    BY <1>2c, <1>5 DEF Loads, LoadTrue
<1> QED
    BY <1>1, <1>4, <1>7, <1>8, <1>9, <1>10, <1>11, NoAnswerIsGood

\* No reply, and no load.
LEMMA NothingYet == NoReply \in Reply /\ NoFlight \in FlightType /\ NoFlight.gen = 0
<1>1. <<>> \in [{} -> Value]
    OBVIOUS
<1>2. <<>> \in Contents
    BY <1>1 DEF Contents
<1>3. NoReply \in Reply
    BY <1>2 DEF NoReply, Reply
<1> QED
    BY <1>3 DEF NoFlight, FlightType, Since

\* What a load starts from.
LEMMA LoadStarts ==
    ASSUME IInv, NEW r \in Reader, NEW q, NEW under, Entering(r, q, under), NEW b, b = Existing(entries', q.key)
    PROVE  /\ Load(b, q, generation') \in FlightType
           /\ \A e \in b : EntryTrue(e) /\ e.key = q.key
           /\ Boundary(b, q) <= q.since
           /\ Cursor(b, q) # NoCursor =>
                Delta(q.key) /\ \E e \in b : b = {e} /\ Cursor(b, q) = e.cursor /\ Boundary(b, q) = e.since
<1>1. /\ entries' \in Seq(EntryType) /\ Range(entries') \subseteq EntryType /\ generation' \in Nat
      /\ \A i, j \in DOMAIN entries' : entries'[i].key = entries'[j].key => i = j
      /\ \A e \in Range(entries') : EntryTrue(e)
    BY FoundThen
<1>2. q.key \in Key /\ q.since \in Since
    BY DEF Entering, ReadType
<1>3. b \subseteq Range(entries') /\ b \subseteq EntryType /\ \A e \in b : e.key = q.key
    BY <1>1 DEF Existing
<1>4. \A d, e \in b : d = e
    <2>1. ASSUME NEW d \in b, NEW e \in b PROVE d = e
        <3>1. PICK i \in 1..Len(entries') : d = entries'[i]
            BY <1>1, <1>3, InRange
        <3>2. PICK j \in 1..Len(entries') : e = entries'[j]
            BY <1>1, <1>3, InRange
        <3>3. DOMAIN entries' = 1..Len(entries')
            BY <1>1, InRange
        <3> QED
            BY <1>1, <1>3, <3>1, <3>2, <3>3
    <2> QED
        BY <2>1
<1>5. \A e \in b : e.since \in Since /\ e.cursor \in Nat \cup {NoCursor}
    BY <1>3 DEF EntryType
<1>6. Boundary(b, q) \in Since /\ Boundary(b, q) <= q.since
    BY <1>2 DEF Boundary, Since
<1>7. Cursor(b, q) # NoCursor =>
          Delta(q.key) /\ \E e \in b : b = {e} /\ Cursor(b, q) = e.cursor /\ Boundary(b, q) = e.since
    <2>1. ASSUME Cursor(b, q) # NoCursor
          PROVE  Delta(q.key) /\ \E e \in b : b = {e} /\ Cursor(b, q) = e.cursor /\ Boundary(b, q) = e.since
        <3>1. Delta(q.key) /\ (\E e \in b : e.since <= q.since) /\ Cursor(b, q) = (CHOOSE e \in b : TRUE).cursor
            BY <2>1 DEF Cursor, Covers
        <3>2. PICK e \in b : e.since <= q.since
            BY <3>1
        <3>3. b = {e}
            BY <1>4
        <3>4. Cursor(b, q) = e.cursor
            BY <3>1, <3>3
        <3>5. Boundary(b, q) = IF e.since < q.since THEN 0 ELSE q.since
            BY <3>3 DEF Boundary
        <3>6. Boundary(b, q) = e.since
            BY <1>2, <1>5, <3>2, <3>5 DEF Since
        <3> QED
            BY <3>1, <3>3, <3>4, <3>6
    <2> QED
        BY <2>1
<1>8. Cursor(b, q) \in Nat \cup {NoCursor}
    <2>1. CASE Cursor(b, q) = NoCursor
        BY <2>1
    <2>2. CASE Cursor(b, q) # NoCursor
        BY <1>5, <1>7, <2>2
    <2> QED
        BY <2>1, <2>2
<1>9. Load(b, q, generation') \in FlightType
    BY <1>1, <1>3, <1>6, <1>8, NothingYet DEF Load, FlightType
<1> QED
    BY <1>1, <1>3, <1>6, <1>7, <1>9

LEMMA StartKeeps ==
    ASSUME IInv, NEW r \in Reader, NEW q, NEW under, Entering(r, q, under), Starts(r, q, under),
           write' = write, count' \in [Counted -> Nat]
    PROVE  IInv'
<1> USE DEF IInv, Order
<1>0. q \in ReadType /\ q.key \in Key /\ q.since \in Since
    BY DEF Entering, ReadType
<1>1. PICK b, f, z :
          /\ b = Existing(entries', q.key) /\ f = Load(b, q, generation') /\ z = [q EXCEPT !.state = "send"]
          /\ flight' = [flight EXCEPT ![r] = f] /\ read' = [read EXCEPT ![r] = z]
    BY DEF Starts
<1>2. /\ f \in FlightType /\ Boundary(b, q) <= q.since
      /\ \A e \in b : EntryTrue(e) /\ e.key = q.key
      /\ Cursor(b, q) # NoCursor =>
            Delta(q.key) /\ \E e \in b : b = {e} /\ Cursor(b, q) = e.cursor /\ Boundary(b, q) = e.since
    <2>1. b = Existing(entries', q.key) /\ f = Load(b, q, generation')
        BY <1>1
    <2>2. Load(b, q, generation') \in FlightType
        BY <2>1, LoadStarts
    <2>3. /\ Boundary(b, q) <= q.since
          /\ \A e \in b : EntryTrue(e) /\ e.key = q.key
        BY <2>1, LoadStarts
    <2>4. Cursor(b, q) # NoCursor =>
            Delta(q.key) /\ \E e \in b : b = {e} /\ Cursor(b, q) = e.cursor /\ Boundary(b, q) = e.since
        BY <2>1, LoadStarts
    <2> QED
        BY <2>1, <2>2, <2>3, <2>4
<1>2f. f.base = b /\ f.since = Boundary(b, q) /\ f.cursor = Cursor(b, q) /\ f.gen = generation'
    BY <1>1 DEF Load
<1>2a. /\ z \in ReadType /\ z.state = "send" /\ z.key = q.key /\ z.since = q.since /\ z.saw = q.saw /\ z.floor = q.floor
    BY <1>0, <1>1 DEF ReadType
<1>2b. /\ \A x \in Reader \ {r} : read'[x] = read[x] /\ flight'[x] = flight[x]
       /\ read' \in [Reader -> ReadType] /\ read'[r] = z /\ flight' \in [Reader -> FlightType] /\ flight'[r] = f
    BY <1>1, <1>2, <1>2a DEF TypeOK
<1>2c. Loading(r)'
    BY <1>2a, <1>2b DEF Loading
<1>3. /\ under \in [Key -> Reader \cup {Nobody}]
      /\ \A k \in Key : under[k] # Nobody =>
            /\ under[k] \in Reader \ {r} /\ Loading(under[k]) /\ read[under[k]].key = k
            /\ flight[under[k]].gen = generation /\ generation' = generation
    BY FoundThen
<1>3a. /\ pending' = [under EXCEPT ![q.key] = r] /\ pending' \in [Key -> Reader \cup {Nobody}] /\ answer' = NoAnswer
    BY <1>3 DEF Starts
<1>4. /\ TypeOK' /\ Chronicle' /\ Stored' /\ currentToken' <= cred' /\ cred' >= 1 /\ currentToken' # 0
      /\ \A e \in Range(entries') : e.token = currentToken' /\ e.pos >= acked'
    BY <1>2b, <1>3a, RestInOrder
<1>5. \A x \in Reader \ {r} :
              /\ read[x].state # "idle" => read[x].saw <= currentToken' /\ read[x].floor <= acked
              /\ Loading(x) => ServesAt(x, x)'
              /\ read[x].state = "joined" => ServesAt(read[x].on, x)' /\ read[x].on # r
              /\ read[x].state = "waits" =>
                    Loading(read[x].on)' /\ read'[read[x].on].key = read[x].key /\ read[x].on # r
              /\ RecentAt(x)' /\ LoadTrue(x)'
              /\ Loading(x)' <=> Loading(x)
    BY <1>2b, OthersGoOn
<1>6. acked' = acked /\ q.saw <= currentToken' /\ q.floor <= acked /\ UNCHANGED <<server, past>>
    BY DEF Entering
<1>7. Noticed'
    BY <1>2a, <1>2b, <1>4, <1>5, <1>6 DEF Noticed
<1>8. Mapped'
    <2>1. ASSUME NEW k \in Key, pending'[k] # Nobody
          PROVE  Loading(pending[k])' /\ read'[pending'[k]].key = k /\ flight'[pending'[k]].gen = generation'
        <3>1. CASE k = q.key
            <4>1. pending'[k] = r
                BY <1>3, <1>3a, <3>1
            <4> QED
                BY <1>2a, <1>2b, <1>2c, <1>2f, <3>1, <4>1
        <3>2. CASE k # q.key
            <4>1. pending'[k] = under[k]
                BY <1>3, <1>3a, <3>2
            <4>2. /\ under[k] \in Reader \ {r} /\ Loading(under[k]) /\ read[under[k]].key = k
                  /\ flight[under[k]].gen = generation'
                BY <1>3, <2>1, <4>1
            <4> QED
                BY <1>2b, <1>5, <4>1, <4>2
        <3> QED
            BY <3>1, <3>2
    <2> QED
        BY <2>1 DEF Mapped, Loading
<1>9. Shared'
    <2>1. ServesAt(r, r)'
        BY <1>2, <1>2a, <1>2b, <1>2c, <1>2f DEF ServesAt
    <2>3. \A x \in Reader \ {r} : read'[x].state \in {"joined", "waits"} => read'[x].on \in Reader
        BY <1>2b DEF Shared
    <2> QED
        BY <1>2a, <1>2b, <1>5, <2>1, <2>3 DEF Shared
<1>10. Recent'
    <2>1. flight'[r].gen = generation' /\ read'[r].state = "send" /\ generation' \in Nat
        BY <1>2a, <1>2b, <1>2f, <1>4 DEF TypeOK
    <2>2. RecentAt(r)'
        BY <2>1 DEF RecentAt
    <2> QED
        BY <1>4, <1>5, <2>2 DEF Recent
<1>11. LoadTrue(r)'
    <2>1. \A e : EntryTrue(e)' <=> EntryTrue(e)
        BY <1>6, PastStays
    <2>2. /\ \A e \in flight'[r].base : EntryTrue(e)' /\ e.key = read'[r].key
          /\ read'[r].state # "back"
        BY <1>2, <1>2a, <1>2b, <1>2f, <2>1
    <2>3. flight'[r].cursor # NoCursor => Delta(read'[r].key) /\ \E e \in flight'[r].base : StartsFrom(r, e)'
        BY <1>2, <1>2a, <1>2b, <1>2f DEF StartsFrom
    <2> QED
        BY <2>2, <2>3 DEF LoadTrue
<1>12. Loads'
    BY <1>5, <1>11 DEF Loads
<1> QED
    BY <1>3a, <1>4, <1>7, <1>8, <1>9, <1>10, <1>12, NoAnswerIsGood

\* A read that begins or tries again leaves everything as good as it was.
LEMMA EnterKeeps ==
    ASSUME IInv, NEW r \in Reader, Retry(r) \/ \E k \in Key, since \in Since : Begin(r, k, since)
    PROVE  IInv'
<1>1. PICK q, under :
          /\ Entering(r, q, under) /\ (Hits(r, q, under) \/ Joins(r, q, under) \/ Starts(r, q, under))
          /\ write' = write /\ count' \in [Counted -> Nat]
    BY BeginEnters, RetryEnters DEF IInv, Order
<1> QED
    BY <1>1, HitKeeps, JoinKeeps, StartKeeps

-----------------------------------------------------------------------------
(* Loads.                                                                  *)

\* A load that goes on, from one state to the next, with its reader.
Advances(r, state, f) ==
    /\ read[r].state \in {"send", "serve", "back"} /\ state \in {"send", "serve", "back"}
    /\ read' = [read EXCEPT ![r].state = state] /\ flight' = [flight EXCEPT ![r] = f] /\ f \in FlightType
    /\ f.since = flight[r].since /\ f.gen = flight[r].gen /\ f.base = flight[r].base
    /\ UNCHANGED <<server, past, cred, write, acked, now>> /\ answer' = NoAnswer

\* What is left of the others' reads and loads, and of the map.
LEMMA AdvanceKeeps ==
    ASSUME IInv, NEW r \in Reader, NEW state, NEW f, Advances(r, state, f), KeptOrEmptied,
           currentToken' \in {currentToken, cred}, generation' = generation => currentToken' = currentToken,
           count' \in [Counted -> Nat],
           state \in {"serve", "back"} =>
              f.token >= currentToken \/ (read[r].state \in {"serve", "back"} /\ f.token = flight[r].token),
           state = "back" => f.reply.pos >= acked,
           f.gen = generation' /\ state \in {"serve", "back"} => f.token = currentToken',
           LoadTrue(r)'
    PROVE  IInv'
<1> USE DEF IInv, Order
<1>0. /\ {cred, currentToken, generation, acked} \subseteq Nat
      /\ read \in [Reader -> ReadType] /\ flight \in [Reader -> FlightType] /\ f \in FlightType
      /\ f.token \in Nat /\ f.reply.pos \in Nat
      /\ \A x \in Reader : /\ read[x].saw \in Nat /\ read[x].floor \in Nat /\ flight[x].gen \in Nat
                           /\ flight[x].token \in Nat /\ flight[x].reply.pos \in Nat
    <2>1. /\ {cred, currentToken, generation, acked} \subseteq Nat
          /\ read \in [Reader -> ReadType] /\ flight \in [Reader -> FlightType]
        BY DEF TypeOK
    <2>2. f \in FlightType
        BY DEF Advances
    <2>3. f.token \in Nat /\ f.reply \in Reply
        BY <2>2 DEF FlightType
    <2>4. f.reply.pos \in Nat
        BY <2>3 DEF Reply
    <2>5. \A x \in Reader : /\ read[x].saw \in Nat /\ read[x].floor \in Nat /\ flight[x].gen \in Nat
                            /\ flight[x].token \in Nat /\ flight[x].reply.pos \in Nat
        <3>1. TypeOK
            OBVIOUS
        <3> HIDE DEF IInv
        <3> QED
            BY <3>1, LoadTypes
    <2> QED
        BY <2>1, <2>2, <2>3, <2>4, <2>5
<1>1. /\ \A x \in Reader \ {r} : read'[x] = read[x] /\ flight'[x] = flight[x]
      /\ flight' \in [Reader -> FlightType] /\ flight'[r] = f
      /\ read'[r].state = state /\ read'[r].key = read[r].key /\ read'[r].since = read[r].since
      /\ read'[r].saw = read[r].saw /\ read'[r].floor = read[r].floor /\ read'[r].on = read[r].on
      /\ read' \in [Reader -> ReadType]
    BY <1>0 DEF Advances, ReadType
<1>2. /\ Loading(r) /\ Loading(r)' /\ \A x \in Reader \ {r} : Loading(x)' <=> Loading(x)
    BY <1>1 DEF Loading, Advances
<1>3. /\ UNCHANGED <<server, past, cred, write, acked, now>> /\ answer' = NoAnswer
      /\ f.since = flight[r].since /\ f.gen = flight[r].gen
    BY DEF Advances
<1>4. currentToken # 0 /\ currentToken <= currentToken' /\ currentToken' <= cred
    BY <1>0, <1>2 DEF Noticed, Loading
<1>5. TypeOK'
    <2>1. /\ server \in [rows : [Row -> Value], changed : [Row -> Nat], know : Nat, epoch : Nat]
          /\ past \in Seq([Row -> Value]) /\ acked \in Nat /\ cred \in Nat /\ now \in Nat
          /\ entries \in Seq(EntryType) /\ pending \in [Key -> Reader \cup {Nobody}] /\ generation \in Nat
          /\ write \in {"idle", "begun", "sent", "applied"}
        BY DEF TypeOK
    <2>2. entries' \in Seq(EntryType) /\ pending' \in [Key -> Reader \cup {Nobody}] /\ generation' \in Nat
        <3>1. CASE UNCHANGED <<entries, pending, generation>>
            BY <2>1, <3>1
        <3>2. CASE entries' = <<>> /\ pending' = [k \in Key |-> Nobody] /\ generation' = generation + 1
            BY <1>0, <3>2, EmptySeq
        <3> QED
            BY <3>1, <3>2 DEF KeptOrEmptied
    <2>3. currentToken' \in Nat
        BY <1>0
    <2>4. /\ server' \in [rows : [Row -> Value], changed : [Row -> Nat], know : Nat, epoch : Nat]
          /\ past' \in Seq([Row -> Value]) /\ acked' \in Nat /\ cred' \in Nat /\ now' \in Nat
          /\ write' \in {"idle", "begun", "sent", "applied"}
        BY <1>3, <2>1, Zenon
    <2>5. {cred', currentToken', generation', now'} \subseteq Nat
        BY <2>2, <2>3, <2>4
    <2> QED
        BY <1>1, <2>2, <2>4, <2>5, Zenon DEF TypeOK
<1>6. Chronicle'
    BY <1>3 DEF Chronicle, Position
<1>7. Noticed'
    <2>1. \A x \in Reader : read'[x].state # "idle" => read'[x].saw <= currentToken' /\ read'[x].floor <= acked
        <3>1. \A x \in Reader : read'[x].saw = read[x].saw /\ read'[x].floor = read[x].floor
                                /\ (read'[x].state # "idle" => read[x].state # "idle")
            BY <1>1, <1>2 DEF Loading
        <3> QED
            BY <1>0, <1>4, <3>1 DEF Noticed
    <2> QED
        BY <1>0, <1>3, <1>4, <2>1 DEF Noticed
<1>8. Mapped'
    <2>1. CASE UNCHANGED <<entries, pending, generation>>
        <3>1. \A x \in Reader : (Loading(x)' <=> Loading(x)) /\ read'[x].key = read[x].key /\ flight'[x].gen = flight[x].gen
            BY <1>1, <1>2, <1>3
        <3>2. \A k \in Key : pending[k] # Nobody => pending[k] \in Reader
            BY DEF TypeOK
        <3> QED
            BY <2>1, <3>1, <3>2 DEF Mapped
    <2>2. CASE pending' = [k \in Key |-> Nobody]
        BY <2>2 DEF Mapped
    <2> QED
        BY <2>1, <2>2 DEF KeptOrEmptied
<1>9. Shared'
    <2>1. ASSUME NEW x \in Reader, read[x].state # "idle", ServesAt(r, x) PROVE ServesAt(r, x)'
        <3>1. read[x].saw <= currentToken /\ read[x].floor <= acked
            BY <2>1 DEF Noticed
        <3>2. read'[x].key = read[x].key /\ read'[x].since = read[x].since /\ read'[x].saw = read[x].saw
              /\ read'[x].floor = read[x].floor
            BY <1>1
        <3>3. read'[r].key = read'[x].key /\ flight'[r].since <= read'[x].since
            BY <1>1, <1>3, <2>1, <3>2 DEF ServesAt
        <3>4. state \in {"serve", "back"} => f.token >= read[x].saw
            BY <1>0, <2>1, <3>1 DEF ServesAt
        <3>5. state = "back" => f.reply.pos >= read[x].floor
            BY <1>0, <3>1
        <3> QED
            BY <1>1, <1>2, <3>2, <3>3, <3>4, <3>5 DEF ServesAt
    <2>2. ASSUME NEW x \in Reader, NEW o \in Reader \ {r}, ServesAt(o, x) PROVE ServesAt(o, x)'
        <3>1. read'[x].key = read[x].key /\ read'[x].since = read[x].since /\ read'[x].saw = read[x].saw
              /\ read'[x].floor = read[x].floor
            BY <1>1
        <3> QED
            BY <1>1, <1>2, <2>2, <3>1 DEF ServesAt
    <2>3. \A x \in Reader : /\ read'[x].on = read[x].on
                            /\ read'[x].state \in {"joined", "waits"} <=> read[x].state \in {"joined", "waits"}
                            /\ read'[x].state \in {"joined", "waits"} => read'[x].state = read[x].state
        BY <1>1, <1>2 DEF Loading
    <2>4. ASSUME NEW x \in Reader, Loading(x)' PROVE ServesAt(x, x)'
        <3>1. Loading(x) /\ read[x].state # "idle"
            BY <1>2, <2>4 DEF Loading
        <3> QED
            BY <2>1, <2>2, <3>1 DEF Shared
    <2>5. ASSUME NEW x \in Reader, read'[x].state \in {"joined", "waits"}
          PROVE  /\ read'[x].on \in Reader
                 /\ read'[x].state = "joined" => ServesAt(read[x].on, x)'
                 /\ read'[x].state = "waits" => Loading(read[x].on)' /\ read'[read'[x].on].key = read'[x].key
        <3>1. PICK o \in Reader : o = read[x].on /\ o = read'[x].on
            BY <2>3, <2>5 DEF Shared
        <3>2. ASSUME read'[x].state = "joined" PROVE ServesAt(o, x)'
            <4>1. ServesAt(o, x) /\ read[x].state = "joined"
                BY <2>3, <3>1, <3>2 DEF Shared
            <4> QED
                BY <2>1, <2>2, <4>1
        <3>3. ASSUME read'[x].state = "waits" PROVE Loading(o)' /\ read'[o].key = read'[x].key
            <4>1. Loading(o) /\ read[o].key = read[x].key
                BY <2>3, <3>1, <3>3 DEF Shared
            <4> QED
                BY <1>1, <1>2, <4>1
        <3>4. read'[x].state = "joined" => ServesAt(read[x].on, x)'
            BY <3>1, <3>2 DEF ServesAt, Loading
        <3>5. read'[x].state = "waits" => Loading(read[x].on)'
            BY <3>1, <3>3 DEF Loading
        <3> QED
            BY <3>1, <3>3, <3>4, <3>5
    <2> QED
        BY <2>4, <2>5 DEF Shared
<1>10. Recent'
    <2>1. CASE UNCHANGED <<entries, pending, generation>>
        <3>1. currentToken' = currentToken
            BY <2>1
        <3>2. \A x \in Reader \ {r} : RecentAt(x)'
            BY <1>1, <1>2, <1>3, <2>1, <3>1 DEF Recent, RecentAt
        <3>3. RecentAt(r)'
            BY <1>1, <1>3, <2>1 DEF Recent, RecentAt
        <3> QED
            BY <1>3, <2>1, <3>1, <3>2, <3>3 DEF Recent
    <2>2. CASE entries' = <<>> /\ generation' = generation + 1
        <3>1. \A x \in Reader : flight'[x].gen <= generation
            BY <1>1, <1>3 DEF Recent, RecentAt
        <3>2. \A x \in Reader : flight'[x].gen \in Nat
            BY <1>0, <1>1, <1>3
        <3>3. Range(entries') = {}
            BY <2>2 DEF Range
        <3> QED
            BY <1>0, <2>2, <3>1, <3>2, <3>3 DEF Recent, RecentAt
    <2> QED
        BY <2>1, <2>2 DEF KeptOrEmptied
<1>11. Stored'
    <2>1. CASE entries' = entries
        BY <1>3, <2>1, PastStays DEF Stored
    <2>2. CASE entries' = <<>>
        <3>1. Range(entries') = {} /\ DOMAIN entries' = {}
            BY <2>2 DEF Range
        <3> QED
            BY <3>1 DEF Stored
    <2> QED
        BY <2>1, <2>2 DEF KeptOrEmptied
<1>12. Loads'
    <2>1. ASSUME NEW x \in Reader \ {r} PROVE LoadTrue(x)'
        BY <1>1, <1>3, LoadStays DEF Loads
    <2> QED
        BY <2>1 DEF Loads
<1> QED
    BY <1>3, <1>5, <1>6, <1>7, <1>8, <1>9, <1>10, <1>11, <1>12, NoAnswerIsGood

\* A load that is sent takes the credential in force.
LEMMA SendKeeps ==
    ASSUME IInv, NEW r \in Reader, Send(r)
    PROVE  IInv'
<1> USE DEF IInv, Order
<1>1. /\ read[r].state = "send" /\ Credential /\ answer' = NoAnswer
      /\ flight' = [flight EXCEPT ![r].token = cred] /\ read' = [read EXCEPT ![r].state = "serve"]
      /\ UNCHANGED <<server, past, cred, write, acked, now, count>>
    BY DEF Send
<1>2. PICK f : f = [flight[r] EXCEPT !.token = cred]
    OBVIOUS
<1>3. /\ f \in FlightType /\ f.since = flight[r].since /\ f.gen = flight[r].gen /\ f.base = flight[r].base
      /\ f.token = cred /\ f.cursor = flight[r].cursor /\ cred \in Nat
    BY <1>2 DEF FlightType, TypeOK
<1>4. flight' = [flight EXCEPT ![r] = f]
    BY <1>1, <1>2
<1>5. Advances(r, "serve", f)
    BY <1>1, <1>3, <1>4 DEF Advances
<1>6. currentToken' = cred /\ KeptOrEmptied /\ currentToken # 0
    BY <1>1, CredentialShape DEF Noticed
<1>7. generation' = generation => currentToken' = currentToken
    BY <1>6 DEF KeptOrEmptied, TypeOK
<1>8. flight'[r] = f /\ read'[r].state = "serve" /\ read'[r].key = read[r].key
    BY <1>1, <1>4 DEF TypeOK, ReadType
<1>9. LoadTrue(r)'
    <2>1. \A e : EntryTrue(e)' <=> EntryTrue(e)
        BY <1>1, PastStays
    <2>2. LoadTrue(r) /\ Loading(r)
        BY <1>1 DEF Loads, Loading
    <2> QED
        BY <1>3, <1>8, <2>1, <2>2 DEF LoadTrue, StartsFrom
<1>10. f.token >= currentToken /\ count' \in [Counted -> Nat]
    BY <1>1, <1>3 DEF Noticed, TypeOK
<1>11. /\ currentToken' \in {currentToken, cred} /\ f.token = currentToken' /\ "serve" # "back"
    BY <1>3, <1>6
<1>12. /\ "serve" \in {"serve", "back"} =>
              f.token >= currentToken \/ (read[r].state \in {"serve", "back"} /\ f.token = flight[r].token)
       /\ "serve" = "back" => f.reply.pos >= acked
       /\ f.gen = generation' /\ "serve" \in {"serve", "back"} => f.token = currentToken'
    BY <1>10, <1>11
<1>13. IInv /\ KeptOrEmptied /\ count' \in [Counted -> Nat]
    BY <1>6, <1>10
<1> HIDE DEF IInv, Order
<1> QED
    BY <1>5, <1>7, <1>9, <1>11, <1>12, <1>13, AdvanceKeeps

\* A delta that has not shown a reset, and a baseline, bring what YNAB holds.
LEMMA ReplyIsTrue ==
    ASSUME IInv, NEW r \in Reader, Loading(r), NEW f, NEW know \in {server.know, NoCursor},
           f.cursor = flight[r].cursor, f.since = flight[r].since, f.base = flight[r].base,
           f.reply.rows = [x \in Listed(read[r].key, f.since, f.cursor) |-> server.rows[x]],
           f.reply.know = know, ~Reload(f)
    PROVE  Merged(f) = Truth(read[r].key, f.since, Position)
<1> USE DEF IInv, Order
<1> DEFINE k == read[r].key
           told == Listed(k, f.since, f.cursor)
           all == Held(k, f.since, server.rows)
<1>1. /\ server.rows \in [Row -> Value] /\ server.changed \in [Row -> Nat] /\ server.know \in Nat
      /\ past[Position] = server.rows /\ k \in Key
      /\ f.cursor \in Nat \cup {NoCursor} /\ f.since \in Since
    BY LoadTypes DEF TypeOK, Chronicle
<1>2. Truth(k, f.since, Position) = [x \in all |-> server.rows[x]]
    BY <1>1 DEF Truth
<1>3. DOMAIN f.reply.rows = told /\ \A x \in told : f.reply.rows[x] = server.rows[x]
    OBVIOUS
<1>4. ASSUME NEW before, before = IF f.cursor = NoCursor THEN <<>> ELSE (CHOOSE e \in f.base : TRUE).rows,
             \A x : x \in all <=> x \in DOMAIN before \cup told /\ (x \in told => server.rows[x] # 0),
             \A x \in all \ told : before[x] = server.rows[x]
      PROVE  Merged(f) = Truth(k, f.since, Position)
    <2> DEFINE kept == {x \in DOMAIN before \cup told : x \in told => f.reply.rows[x] # 0}
    <2>1. kept = all
        <3> HIDE DEF told, all
        <3>1. \A x : x \in kept <=> x \in DOMAIN before \cup told /\ (x \in told => f.reply.rows[x] # 0)
            OBVIOUS
        <3>2. \A x : x \in kept <=> x \in all
            BY <1>3, <1>4, <3>1
        <3> QED
            BY <3>2
    <2>2. Merged(f) = [x \in kept |-> IF x \in told THEN f.reply.rows[x] ELSE before[x]]
        <3> DEFINE old == IF f.cursor = NoCursor THEN <<>> ELSE (CHOOSE e \in f.base : TRUE).rows
        <3>0. Merged(f) = [x \in {y \in DOMAIN old \cup DOMAIN f.reply.rows :
                                    y \in DOMAIN f.reply.rows => f.reply.rows[y] # 0}
                           |-> IF x \in DOMAIN f.reply.rows THEN f.reply.rows[x] ELSE old[x]]
            BY Zenon DEF Merged
        <3>a. before = old
            BY <1>4, Zenon
        <3> HIDE DEF old
        <3>1. Merged(f) = [x \in {y \in DOMAIN before \cup DOMAIN f.reply.rows :
                                    y \in DOMAIN f.reply.rows => f.reply.rows[y] # 0}
                           |-> IF x \in DOMAIN f.reply.rows THEN f.reply.rows[x] ELSE before[x]]
            BY <3>0, <3>a, Zenon
        <3>2. DOMAIN f.reply.rows = told
            BY <1>3, Zenon
        <3> HIDE DEF told
        <3> QED
            BY <3>1, <3>2, Zenon
    <2> HIDE DEF kept, told, all
    <2>3. \A x \in all : (IF x \in told THEN f.reply.rows[x] ELSE before[x]) = server.rows[x]
        <3>1. ASSUME NEW x \in all PROVE (IF x \in told THEN f.reply.rows[x] ELSE before[x]) = server.rows[x]
            <4>1. CASE x \in told
                BY <1>3, <4>1, Zenon
            <4>2. CASE x \notin told
                BY <1>4, <4>2, Zenon
            <4> QED
                BY <4>1, <4>2
        <3> QED
            BY <3>1
    <2>4. [x \in all |-> IF x \in told THEN f.reply.rows[x] ELSE before[x]] = [x \in all |-> server.rows[x]]
        BY <2>3, Zenon
    <2> QED
        BY <1>2, <2>1, <2>2, <2>4, Zenon
<1>5. CASE f.cursor = NoCursor
    <2>1. told = all
        BY <1>5 DEF Listed
    <2>2. \A x \in all : server.rows[x] # 0
        BY <1>1, CacheAssumption DEF Held
    <2>3. DOMAIN <<>> = {}
        OBVIOUS
    <2> HIDE DEF told, all
    <2> QED
        BY <1>4, <1>5, <2>1, <2>2, <2>3
<1>6. CASE f.cursor # NoCursor
    <2>1. PICK e \in f.base : f.base = {e} /\ f.cursor = e.cursor /\ f.since = e.since
        BY <1>6 DEF Loads, LoadTrue, StartsFrom
    <2>2. Delta(k) /\ EntryTrue(e) /\ e.key = k /\ e \in EntryType
        BY <1>6, <2>1, LoadTypes DEF Loads, LoadTrue
    <2>3. (CHOOSE d \in f.base : TRUE) = e
        BY <2>1
    <2>4. ~(know < f.cursor) /\ f.cursor \in Nat
        BY <1>1, <1>6 DEF Reload
    <2>5. know = server.know /\ ~(server.know < f.cursor)
        BY <2>4 DEF NoCursor
    <2>6. e.epoch = server.epoch /\ \A x \in Row : past[e.pos][x] # server.rows[x] => server.changed[x] > f.cursor
        <3>1. CursorGood(e.epoch, e.cursor, e.pos) /\ e.epoch \in Nat /\ server.epoch \in Nat
            BY <2>2 DEF EntryTrue, EntryType, TypeOK
        <3> QED
            BY <1>6, <2>1, <2>5, <3>1 DEF CursorGood
    <2>7. e.rows = [x \in Held(k, f.since, past[e.pos]) |-> past[e.pos][x]]
        BY <2>1, <2>2 DEF EntryTrue, Truth
    <2>8. DOMAIN e.rows = Held(k, f.since, past[e.pos]) /\ \A x \in DOMAIN e.rows : e.rows[x] = past[e.pos][x]
        BY <2>7
    <2>9. \A x \in Row : server.rows[x] # 0 => Member(k, server.rows[x])
        BY <1>1, <2>2, CacheAssumption
    <2>10. \A x \in Row : Member(k, server.rows[x]) => server.rows[x] # 0
        BY <1>1, CacheAssumption
    <2>11. told = {x \in Row : server.changed[x] > f.cursor /\ Visible(x, f.since)}
        BY <1>6, <2>9 DEF Listed
    <2>12. ASSUME NEW x
           PROVE  x \in all <=> x \in DOMAIN e.rows \cup told /\ (x \in told => server.rows[x] # 0)
        <3>1. x \in all <=> x \in Row /\ Member(k, server.rows[x]) /\ Visible(x, f.since)
            BY DEF Held
        <3>2. x \in DOMAIN e.rows <=> x \in Row /\ Member(k, past[e.pos][x]) /\ Visible(x, f.since)
            BY <2>8 DEF Held
        <3>3. x \in told <=> x \in Row /\ server.changed[x] > f.cursor /\ Visible(x, f.since)
            BY <2>11
        <3> HIDE DEF told, all
        <3> QED
            BY <2>6, <2>9, <2>10, <3>1, <3>2, <3>3
    <2>13. ASSUME NEW x \in all \ told PROVE e.rows[x] = server.rows[x]
        <3>1. x \in Row /\ past[e.pos][x] = server.rows[x]
            BY <2>6, <2>11 DEF Held
        <3>2. x \in DOMAIN e.rows
            BY <2>12
        <3> QED
            BY <2>8, <3>1, <3>2
    <2> HIDE DEF told, all
    <2> QED
        BY <1>4, <1>6, <2>3, <2>12, <2>13
<1> QED
    BY <1>5, <1>6

\* The reply shows what YNAB holds now, to be merged or to start over from.
LEMMA ServeKeeps ==
    ASSUME IInv, NEW r \in Reader, Serve(r)
    PROVE  IInv'
<1> USE DEF IInv, Order
<1> DEFINE kept == Listed(read[r].key, flight[r].since, flight[r].cursor)
           rows == [x \in kept |-> server.rows[x]]
<1>0. /\ server.rows \in [Row -> Value] /\ server.know \in Nat /\ server.epoch \in Nat /\ Position \in Nat
      /\ Position >= 1 /\ acked <= Position /\ past[Position] = server.rows
    BY InRange DEF TypeOK, Chronicle, Position
<1>1. /\ read[r].state = "serve" /\ answer' = NoAnswer
      /\ read' = [read EXCEPT ![r].state = "back"]
      /\ UNCHANGED <<server, past, cred, cache, write, acked, now>>
    BY DEF Serve
<1>2. PICK know \in {server.know, NoCursor} :
          flight' = [flight EXCEPT ![r].reply =
                        [rows |-> rows, know |-> know, pos |-> Position, epoch |-> server.epoch]]
    BY DEF Serve
<1>3. count' \in [Counted -> Nat]
    BY EventCounted DEF Serve, Counted, TypeOK
<1>4. rows \in Contents
    <2>1. kept \subseteq Row
        BY DEF Listed, Held
    <2> HIDE DEF kept
    <2>2. rows \in [kept -> Value]
        BY <1>0, <2>1
    <2> QED
        BY <2>1, <2>2 DEF Contents
<1> HIDE DEF rows
<1>5. PICK reply : reply = [rows |-> rows, know |-> know, pos |-> Position, epoch |-> server.epoch]
    OBVIOUS
<1>6. reply \in Reply /\ reply.rows = rows /\ reply.know = know /\ reply.pos = Position /\ reply.epoch = server.epoch
    BY <1>0, <1>4, <1>5 DEF Reply
<1>7. PICK f : f = [flight[r] EXCEPT !.reply = reply]
    OBVIOUS
<1>8. /\ f \in FlightType /\ f.since = flight[r].since /\ f.gen = flight[r].gen /\ f.base = flight[r].base
      /\ f.token = flight[r].token /\ f.cursor = flight[r].cursor /\ f.reply = reply
    BY <1>6, <1>7 DEF FlightType, TypeOK
<1>9. flight' = [flight EXCEPT ![r] = f]
    BY <1>2, <1>5, <1>7
<1>10. Advances(r, "back", f)
    BY <1>1, <1>8, <1>9 DEF Advances
<1>11. flight'[r] = f /\ read'[r].state = "back" /\ read'[r].key = read[r].key /\ Loading(r)
    BY <1>1, <1>9 DEF TypeOK, ReadType, Loading
<1>12. KeptOrEmptied /\ currentToken' = currentToken
    BY <1>1 DEF KeptOrEmptied, cache
<1>13. f.gen = generation' => f.token = currentToken'
    BY <1>1, <1>8, <1>11 DEF Recent, RecentAt, cache
<1>14. LoadTrue(r)'
    <2>1. LoadTrue(r) /\ \A e : EntryTrue(e)' <=> EntryTrue(e)
        BY <1>1, PastStays DEF Loads
    <2>2. CursorGood(server.epoch, know, Position)
        BY <1>0 DEF CursorGood
    <2>3. CursorGood(server.epoch, know, Position)'
        BY <1>1, <2>2 DEF CursorGood, Position
    <2>4. f.reply.rows = [x \in Listed(read[r].key, f.since, f.cursor) |-> server.rows[x]]
        BY <1>6, <1>8 DEF rows
    <2>5. ~Reload(f) => Merged(f) = Truth(read[r].key, f.since, Position)
        BY <1>6, <1>8, <1>11, <2>4, ReplyIsTrue
    <2>6. BringsTrue(r)'
        <3>1. flight'[r].reply.pos \in 1..Position'
            BY <1>0, <1>1, <1>6, <1>8, <1>11 DEF Position
        <3>2. CursorGood(flight[r].reply.epoch, flight[r].reply.know, flight[r].reply.pos)'
            BY <1>1, <1>6, <1>8, <1>11, <2>2 DEF CursorGood
        <3>3. ~Reload(f) => Merged(f) = Truth(read[r].key, flight[r].since, flight[r].reply.pos)'
            BY <1>1, <1>6, <1>8, <1>11, <2>5 DEF Truth, Held
        <3> QED
            BY <1>11, <3>1, <3>2, <3>3 DEF BringsTrue, Reload, Merged
    <2> QED
        BY <1>8, <1>11, <2>1, <2>6 DEF LoadTrue, StartsFrom
<1> QED
    BY <1>0, <1>1, <1>3, <1>6, <1>8, <1>10, <1>12, <1>13, <1>14, AdvanceKeeps

\* A reset that shows: the baseline is loaded after all.
LEMMA LoadAgainKeeps ==
    ASSUME IInv, NEW r \in Reader, LoadAgain(r)
    PROVE  IInv'
<1> USE DEF IInv, Order
<1>1. /\ read[r].state = "back" /\ answer' = NoAnswer
      /\ read' = [read EXCEPT ![r].state = "send"]
      /\ flight' = [flight EXCEPT ![r].cursor = NoCursor, ![r].reply = NoReply]
      /\ UNCHANGED <<server, past, cred, cache, write, acked, now, count>>
    BY DEF LoadAgain
<1>2. PICK f : f = [flight[r] EXCEPT !.cursor = NoCursor, !.reply = NoReply]
    OBVIOUS
<1>3. /\ f \in FlightType /\ f.since = flight[r].since /\ f.gen = flight[r].gen /\ f.base = flight[r].base
      /\ f.cursor = NoCursor
    <2>1. flight[r] \in FlightType
        BY DEF TypeOK
    <2> QED
        BY <1>2, <2>1, NothingYet DEF FlightType
<1>4. flight' = [flight EXCEPT ![r] = f]
    BY <1>1, <1>2 DEF TypeOK
<1>5. Advances(r, "send", f)
    BY <1>1, <1>3, <1>4 DEF Advances
<1>6. flight'[r] = f /\ read'[r].state = "send" /\ read'[r].key = read[r].key /\ Loading(r)
    <2>1. read \in [Reader -> ReadType] /\ flight \in [Reader -> FlightType]
        BY DEF TypeOK
    <2>2. read'[r].state = "send" /\ read'[r].key = read[r].key
        BY <1>1, <2>1 DEF ReadType
    <2> QED
        BY <1>1, <1>4, <2>1, <2>2 DEF Loading
<1>7. LoadTrue(r)'
    <2>1. LoadTrue(r) /\ \A e : EntryTrue(e)' <=> EntryTrue(e)
        BY <1>1, PastStays DEF Loads
    <2> QED
        BY <1>3, <1>6, <2>1 DEF LoadTrue
<1>8. KeptOrEmptied /\ currentToken' = currentToken /\ count' \in [Counted -> Nat]
    BY <1>1 DEF KeptOrEmptied, cache, TypeOK
<1> QED
    BY <1>5, <1>7, <1>8, AdvanceKeeps

-----------------------------------------------------------------------------
(* The end of a load.                                                      *)

\* Who had the load of r answered, who reads again, and who goes on.
LEMMA ReleasedShape ==
    ASSUME IInv, NEW r \in Reader, Loading(r), read' = Released(r)
    PROVE  /\ read' \in [Reader -> ReadType] /\ Answered(r) \subseteq Reader
           /\ \A x \in Answered(r) : read'[x] = Idle /\ ServesAt(r, x)
           /\ \A x \in Reader \ Answered(r) :
                 \/ read'[x] = read[x] /\ (read[x].state \in {"joined", "waits"} => read[x].on \in Reader \ {r})
                 \/ /\ read[x].state = "waits" /\ read'[x].state = "retry"
                    /\ read'[x].saw = read[x].saw /\ read'[x].floor = read[x].floor
           /\ r \in Answered(r) /\ \A x \in Reader : Loading(x)' <=> Loading(x) /\ x # r
           /\ \A x \in Reader \ {r} : Loading(x) => read'[x] = read[x]
<1> USE DEF IInv, Order
<1>1. read \in [Reader -> ReadType] /\ Nobody \notin Reader
    BY CacheAssumption DEF TypeOK
<1>2. Answered(r) \subseteq Reader /\ r \in Answered(r)
    BY DEF Answered
<1>3. \A x \in Answered(r) : x = r \/ (read[x].state = "joined" /\ read[x].on = r)
    BY DEF Answered
<1>4. \A x \in Answered(r) : ServesAt(r, x)
    BY <1>2, <1>3 DEF Shared
<1>5. \A x \in Answered(r) : read'[x] = Idle
    BY <1>2 DEF Released
<1>6. ASSUME NEW x \in Reader \ Answered(r)
      PROVE  /\ read'[x] \in ReadType
             /\ \/ read'[x] = read[x] /\ (read[x].state \in {"joined", "waits"} => read[x].on \in Reader \ {r})
                \/ /\ read[x].state = "waits" /\ read'[x].state = "retry"
                   /\ read'[x].saw = read[x].saw /\ read'[x].floor = read[x].floor
    <2>1. read[x] \in ReadType /\ ~(read[x].state = "joined" /\ read[x].on = r)
        BY <1>1 DEF Answered
    <2>2. CASE read[x].state = "waits" /\ read[x].on = r
        <3>1. read'[x] = [read[x] EXCEPT !.state = "retry", !.on = Nobody]
            BY <1>2, <1>6, <2>2 DEF Released
        <3> QED
            BY <2>1, <2>2, <3>1 DEF ReadType
    <2>3. CASE ~(read[x].state = "waits" /\ read[x].on = r)
        <3>1. read'[x] = read[x]
            BY <1>2, <1>6, <2>3 DEF Released
        <3>2. read[x].state \in {"joined", "waits"} => read[x].on \in Reader
            BY DEF Shared
        <3> QED
            BY <2>1, <2>3, <3>1, <3>2
    <2> QED
        BY <2>2, <2>3
<1>7. read' \in [Reader -> ReadType]
    <2>1. \A x \in Reader : read'[x] \in ReadType
        BY <1>5, <1>6, IdleType
    <2>2. read' = [x \in Reader |-> read'[x]]
        BY DEF Released
    <2> QED
        BY <2>1, <2>2
<1>8. \A x \in Reader \ {r} : Loading(x) => read'[x] = read[x]
    <2>1. ASSUME NEW x \in Reader \ {r}, Loading(x) PROVE read'[x] = read[x]
        <3>1. x \notin Answered(r) /\ read[x].state # "waits"
            BY <1>3, <2>1 DEF Loading
        <3> QED
            BY <1>6, <3>1
    <2> QED
        BY <2>1
<1>9. \A x \in Reader : Loading(x)' <=> Loading(x) /\ x # r
    <2>1. ASSUME NEW x \in Reader, Loading(x)' PROVE Loading(x) /\ x # r
        <3>1. x \notin Answered(r)
            BY <1>5, <2>1, IdleType DEF Loading
        <3> QED
            BY <1>2, <1>6, <2>1, <3>1 DEF Loading
    <2> QED
        BY <1>8, <2>1 DEF Loading
<1> QED
    BY <1>2, <1>4, <1>5, <1>6, <1>7, <1>8, <1>9

\* The load of r is over, whether it brought something or not.
Ends(r) ==
    /\ Loading(r) /\ read' = Released(r) /\ pending' = Cleared(r) /\ flight' = [flight EXCEPT ![r] = NoFlight]
    /\ UNCHANGED <<server, past, cred, currentToken, generation, write, acked, now>>
LEMMA EndKeeps ==
    ASSUME IInv, NEW r \in Reader, Ends(r), count' \in [Counted -> Nat], entries' \in Seq(EntryType)
    PROVE  /\ Order' /\ Loads' /\ \A x \in Reader : RecentAt(x)'
<1> USE DEF IInv, Order
<1>1. /\ read' \in [Reader -> ReadType] /\ Answered(r) \subseteq Reader
      /\ \A x \in Answered(r) : read'[x] = Idle /\ ServesAt(r, x)
      /\ \A x \in Reader \ Answered(r) :
            \/ read'[x] = read[x] /\ (read[x].state \in {"joined", "waits"} => read[x].on \in Reader \ {r})
            \/ /\ read[x].state = "waits" /\ read'[x].state = "retry"
               /\ read'[x].saw = read[x].saw /\ read'[x].floor = read[x].floor
      /\ r \in Answered(r) /\ \A x \in Reader : Loading(x)' <=> Loading(x) /\ x # r
      /\ \A x \in Reader \ {r} : Loading(x) => read'[x] = read[x]
    BY ReleasedShape DEF Ends
<1>2. /\ flight \in [Reader -> FlightType] /\ pending \in [Key -> Reader \cup {Nobody}] /\ Nobody \notin Reader
      /\ generation \in Nat /\ currentToken # 0
    BY CacheAssumption DEF TypeOK, Noticed, Ends, Loading
<1>3. /\ \A x \in Reader \ {r} : flight'[x] = flight[x]
      /\ flight' \in [Reader -> FlightType] /\ flight'[r] = NoFlight
      /\ UNCHANGED <<server, past, cred, currentToken, generation, write, acked, now>>
    BY <1>2, NothingYet DEF Ends
<1>4. /\ pending' \in [Key -> Reader \cup {Nobody}]
      /\ \A k \in Key : pending'[k] # Nobody => pending'[k] = pending[k] /\ pending[k] \in Reader \ {r}
    <2>1. pending' = [k \in Key |-> IF pending[k] = r THEN Nobody ELSE pending[k]]
        BY DEF Ends, Cleared
    <2> QED
        BY <1>2, <2>1
<1>5. TypeOK'
    BY <1>1, <1>3, <1>4, SMTT(30) DEF TypeOK
<1>6. Chronicle'
    BY <1>3 DEF Chronicle, Position
<1>7. Noticed'
    <2>1. ASSUME NEW x \in Reader, read'[x].state # "idle" PROVE read'[x].saw <= currentToken /\ read'[x].floor <= acked
        <3>1. x \notin Answered(r)
            BY <1>1, <2>1, IdleType
        <3> QED
            BY <1>1, <2>1, <3>1 DEF Noticed
    <2> QED
        BY <1>2, <1>3, <2>1 DEF Noticed
<1>8. Mapped'
    <2>1. ASSUME NEW k \in Key, pending'[k] # Nobody
          PROVE  Loading(pending[k])' /\ read'[pending'[k]].key = k /\ flight'[pending'[k]].gen = generation'
        <3>1. PICK o \in Reader \ {r} : o = pending[k] /\ o = pending'[k]
            BY <1>4, <2>1
        <3>2. Loading(o) /\ read[o].key = k /\ flight[o].gen = generation
            BY <1>2, <3>1 DEF Mapped
        <3>3. Loading(o)' /\ read'[o].key = k /\ flight'[o].gen = generation'
            BY <1>1, <1>3, <3>2
        <3> QED
            BY <3>1, <3>3 DEF Loading
    <2> QED
        BY <2>1 DEF Mapped, Loading
<1>9. Shared'
    <2>1. ASSUME NEW x \in Reader, NEW o \in Reader \ {r}, read'[x] = read[x], ServesAt(o, x) PROVE ServesAt(o, x)'
        <3>1. Loading(o)' /\ read'[o] = read[o] /\ flight'[o] = flight[o]
            BY <1>1, <1>3, <2>1 DEF ServesAt
        <3> QED
            BY <2>1, <3>1 DEF ServesAt
    <2>2. ASSUME NEW x \in Reader, Loading(x)' PROVE ServesAt(x, x)'
        BY <1>1, <2>1, <2>2 DEF Shared
    <2>3. ASSUME NEW x \in Reader, read'[x].state \in {"joined", "waits"}
          PROVE  /\ read'[x].on \in Reader
                 /\ read'[x].state = "joined" => ServesAt(read[x].on, x)'
                 /\ read'[x].state = "waits" => Loading(read[x].on)' /\ read'[read'[x].on].key = read'[x].key
        <3>1. x \notin Answered(r)
            BY <1>1, <2>3, IdleType
        <3>2. read'[x] = read[x] /\ read[x].on \in Reader \ {r}
            BY <1>1, <2>3, <3>1
        <3>3. PICK o \in Reader \ {r} : o = read[x].on /\ o = read'[x].on
            BY <3>2
        <3>4. ASSUME read'[x].state = "joined" PROVE ServesAt(o, x)'
            BY <2>1, <3>2, <3>3, <3>4 DEF Shared
        <3>5. ASSUME read'[x].state = "waits" PROVE Loading(o)' /\ read'[o].key = read'[x].key
            BY <1>1, <3>2, <3>3, <3>5 DEF Shared
        <3>6. read'[x].state = "joined" => ServesAt(read[x].on, x)'
            BY <3>3, <3>4 DEF ServesAt, Loading
        <3>7. read'[x].state = "waits" => Loading(read[x].on)'
            BY <3>3, <3>5 DEF Loading
        <3> QED
            BY <3>3, <3>5, <3>6, <3>7
    <2> QED
        BY <2>2, <2>3 DEF Shared
<1>10. ASSUME NEW x \in Reader PROVE RecentAt(x)'
    <2>1. CASE x = r
        BY <1>1, <1>2, <1>3, <2>1, NothingYet DEF RecentAt
    <2>2. CASE x # r
        BY <1>1, <1>3, <2>2 DEF Recent, RecentAt
    <2> QED
        BY <2>1, <2>2
<1>11. ASSUME NEW x \in Reader PROVE LoadTrue(x)'
    <2>1. CASE Loading(x)'
        <3>1. Loading(x) /\ x # r /\ read'[x] = read[x] /\ flight'[x] = flight[x]
            BY <1>1, <1>3, <2>1
        <3> QED
            BY <1>3, <3>1, LoadStays DEF Loads
    <2>2. CASE ~Loading(x)'
        BY <2>2 DEF LoadTrue
    <2> QED
        BY <2>1, <2>2
<1>12. Loads'
    BY <1>11 DEF Loads
<1> QED
    BY <1>5, <1>6, <1>7, <1>8, <1>9, <1>10, <1>12

LEMMA FailKeeps ==
    ASSUME IInv, NEW r \in Reader, Fail(r)
    PROVE  IInv'
<1> USE DEF IInv, Order
<1>1. Ends(r) /\ entries' = entries /\ answer' = NoAnswer /\ acked' = acked /\ currentToken' = currentToken
      /\ server' = server /\ past' = past
    BY DEF Fail, Ends
<1>2. count' \in [Counted -> Nat]
    BY EventCounted DEF Fail, Counted
<1>3. Order' /\ Loads' /\ \A x \in Reader : RecentAt(x)'
    <2> HIDE DEF IInv, Order
    <2>1. entries' \in Seq(EntryType)
        BY <1>1 DEF TypeOK, IInv, Order
    <2> QED
        BY <1>1, <1>2, <2>1, EndKeeps
<1>4. Recent' /\ Stored'
    BY <1>1, <1>3, PastStays DEF Recent, Stored
<1> QED
    BY <1>1, <1>3, <1>4, NoAnswerIsGood

\* What a load that ends well stores, if it may.
LEMMA EntryBrought ==
    ASSUME IInv, NEW r \in Reader, read[r].state = "back", ~Reload(flight[r])
    PROVE  /\ NewEntry(r) \in EntryType /\ EntryTrue(NewEntry(r))
           /\ NewEntry(r).key = read[r].key /\ NewEntry(r).since = flight[r].since
           /\ NewEntry(r).pos = flight[r].reply.pos /\ NewEntry(r).token = flight[r].token
<1> USE DEF IInv, Order
<1>1. BringsTrue(r)
    BY DEF Loads, LoadTrue, Loading
<1>2. PICK rows : rows = Merged(flight[r])
    OBVIOUS
<1>3. rows = Truth(read[r].key, flight[r].since, flight[r].reply.pos) /\ flight[r].reply.pos \in 1..Position
    BY <1>1, <1>2 DEF BringsTrue
<1> DEFINE held == Held(read[r].key, flight[r].since, past[flight[r].reply.pos])
<1>4. held \subseteq Row
    BY DEF Held
<1>5. past[flight[r].reply.pos] \in [Row -> Value]
    BY <1>3, ElementOfSeq DEF TypeOK, Position
<1>6. rows = [x \in held |-> past[flight[r].reply.pos][x]]
    BY <1>3 DEF Truth
<1> HIDE DEF held
<1>7. rows \in Contents /\ DOMAIN rows \subseteq Row
    <2>1. rows \in [held -> Value] /\ DOMAIN rows = held
        BY <1>4, <1>5, <1>6
    <2> QED
        BY <1>4, <2>1 DEF Contents
<1>8. Size(rows) \in Nat
    <2>1. IsFiniteSet(DOMAIN rows)
        BY <1>7, FS_Subset, CacheAssumption
    <2>2. Cardinality(DOMAIN rows) \in Nat
        BY <2>1, FS_CardinalityType
    <2> QED
        BY <2>2 DEF Size
<1> DEFINE e == NewEntry(r)
<1>9. e = [key |-> read[r].key, since |-> flight[r].since, rows |-> rows, cursor |-> flight[r].reply.know,
           fetchedAt |-> now, bytes |-> Size(rows), pos |-> flight[r].reply.pos, epoch |-> flight[r].reply.epoch,
           token |-> flight[r].token]
    BY <1>2 DEF NewEntry
<1> HIDE DEF e
<1>10. now \in Nat
    BY DEF TypeOK
<1>11. e \in EntryType
    BY <1>7, <1>8, <1>9, <1>10, LoadTypes DEF EntryType
<1>12. /\ e.key = read[r].key /\ e.since = flight[r].since /\ e.rows = rows /\ e.cursor = flight[r].reply.know
       /\ e.pos = flight[r].reply.pos /\ e.epoch = flight[r].reply.epoch /\ e.token = flight[r].token
    BY <1>9
<1>13. EntryTrue(e)
    BY <1>1, <1>3, <1>12 DEF EntryTrue, BringsTrue
<1> QED
    BY <1>11, <1>12, <1>13 DEF e

LEMMA FinishKeeps ==
    ASSUME IInv, NEW r \in Reader, Finish(r)
    PROVE  IInv'
<1> USE DEF IInv, Order
<1>1. /\ read[r].state = "back" /\ ~Reload(flight[r]) /\ Loading(r) /\ Ends(r) /\ count' = count
      /\ UNCHANGED <<server, past, currentToken, generation, acked>>
    BY DEF Finish, Ends, Loading
<1>2. PICK e : e = NewEntry(r)
    OBVIOUS
<1>3. /\ e \in EntryType /\ EntryTrue(e) /\ e.key = read[r].key /\ e.since = flight[r].since
      /\ e.pos = flight[r].reply.pos /\ e.token = flight[r].token
    BY <1>1, <1>2, EntryBrought
<1>4. flight[r].gen = generation => e.token = currentToken /\ e.pos >= acked
    BY <1>1, <1>3 DEF Recent, RecentAt
<1>5. /\ entries' \in Seq(EntryType)
      /\ \A i, j \in DOMAIN entries' : entries'[i].key = entries'[j].key => i = j
      /\ \A d \in Range(entries') : d \in Range(entries) \/ (d = e /\ flight[r].gen = generation)
    <2>0. /\ entries \in Seq(EntryType)
          /\ \A i, j \in DOMAIN entries : entries[i].key = entries[j].key => i = j
        BY DEF TypeOK, Stored
    <2>1. CASE flight[r].gen = generation
        <3>1. Put(e)
            BY <1>2, <2>1 DEF Finish
        <3> QED
            BY <1>3, <2>0, <2>1, <3>1, PutShape
    <2>2. CASE flight[r].gen # generation
        BY <2>0, <2>2 DEF Finish
    <2> QED
        BY <2>1, <2>2
<1>6. Order' /\ Loads' /\ \A x \in Reader : RecentAt(x)'
    <2>1. count' \in [Counted -> Nat]
        BY <1>1 DEF TypeOK
    <2> HIDE DEF IInv, Order
    <2> QED
        BY <1>1, <1>5, <2>1, EndKeeps
<1>7. Recent'
    <2>1. \A d \in Range(entries') : d.token = currentToken' /\ d.pos >= acked'
        BY <1>1, <1>4, <1>5 DEF Recent
    <2> QED
        BY <1>6, <2>1 DEF Recent
<1>8. Stored'
    <2>1. \A d \in Range(entries') : EntryTrue(d)
        BY <1>3, <1>5 DEF Stored
    <2> QED
        BY <1>1, <1>5, <2>1, PastStays DEF Stored
<1>9. /\ answer'.readers = {read[x] : x \in Answered(r)} /\ answer'.rows = e.rows /\ answer'.pos = e.pos
      /\ answer'.token = e.token /\ answer'.complete = (flight[r].gen = generation)
    BY <1>2 DEF Finish, Told
<1>10. \A x \in Answered(r) : x \in Reader /\ ServesAt(r, x)
    BY <1>1, ReleasedShape DEF Ends
<1>11. AnswersAreFresh'
    <2>1. \A q \in answer'.readers : answer'.pos >= q.floor /\ answer'.token >= q.saw
        BY <1>1, <1>3, <1>9, <1>10 DEF ServesAt
    <2>2. answer'.complete => answer'.pos >= acked'
        BY <1>1, <1>4, <1>9
    <2> QED
        BY <2>1, <2>2 DEF AnswersAreFresh, ReadYourWrites, CompleteIsCurrent, CredentialHolds
<1>12. AnswersAreTrue'
    <2>1. ASSUME NEW x \in Answered(r) PROVE Seen(e.rows, read[x].since) = Truth(read[x].key, read[x].since, e.pos)
        <3>1. /\ read[x].key = e.key /\ e.since <= read[x].since /\ x \in Reader
            BY <1>3, <1>10 DEF ServesAt
        <3>2. e.since \in Since /\ read[x].since \in Since
            BY <1>3, <3>1, LoadTypes DEF EntryType
        <3>3. e.rows = Truth(read[x].key, e.since, e.pos)
            BY <1>3, <3>1 DEF EntryTrue
        <3> QED
            BY <3>1, <3>2, <3>3, Narrower
    <2>2. \A k, since, pos : Truth(k, since, pos)' = Truth(k, since, pos)
        BY <1>1, PastStays
    <2>3. \A q \in answer'.readers : Seen(e.rows, q.since) = Truth(q.key, q.since, answer.pos)'
        <3>1. ASSUME NEW q \in answer'.readers PROVE Seen(e.rows, q.since) = Truth(q.key, q.since, e.pos)
            BY <1>9, <2>1, <3>1
        <3> QED
            BY <1>9, <2>2, <3>1 DEF Truth, Held
    <2> QED
        BY <1>9, <2>3 DEF AnswersAreTrue, Seen
<1> QED
    BY <1>6, <1>7, <1>8, <1>11, <1>12

-----------------------------------------------------------------------------
(* Induction, from the least-element principle (WFMin): over numbers, and   *)
(* with it over the size of the parts of a finite set, which is what a fold *)
(* recurses on.                                                             *)

\* A set with 0 and the successor of each of its numbers has every number.
LEMMA Induction ==
    ASSUME NEW T, 0 \in T, \A k \in T : k + 1 \in T
    PROVE  Nat \subseteq T
<1> DEFINE U == Nat \ T
           R == OpToRel(<, Nat)
<1>1. SUFFICES ASSUME U # {} PROVE FALSE
    OBVIOUS
<1>2. IsWellFoundedOn(R, Nat)
    BY NatLessThanWellFounded
<1>3. ASSUME NEW p \in Nat \X Nat, p[1] < p[2] PROVE p \in R
    BY <1>3, Zenon DEF OpToRel
<1> HIDE DEF R
<1>4. PICK x \in U : \A y \in U : ~(<<y, x>> \in R)
    BY <1>1, <1>2, WFMin
<1>5. x \in Nat /\ x # 0 /\ x - 1 \in Nat
    BY <1>4
<1>6. <<x - 1, x>> \in R
    BY <1>3, <1>5
<1>7. x - 1 \in T
    BY <1>4, <1>5, <1>6
<1> QED
    BY <1>4, <1>5, <1>7

\* The parts of k members or fewer.
Within(D, k) == {t \in SUBSET D : Cardinality(t) <= k}

\* A part without one of its members has one less.
LEMMA Smaller ==
    ASSUME NEW D, IsFiniteSet(D), NEW k \in Nat, NEW t \in Within(D, k), NEW p \in t
    PROVE  p \in D /\ t \ {p} \in Within(D, k - 1) /\ k - 1 \in Nat
<1>1. IsFiniteSet(t) /\ t \subseteq D
    BY FS_Subset DEF Within
<1>2. Cardinality(t \ {p}) = Cardinality(t) - 1 /\ Cardinality(t) \in Nat /\ Cardinality(t) <= k
    BY <1>1, FS_RemoveElement, FS_CardinalityType DEF Within
<1>3. Cardinality(t \ {p}) \in Nat
    BY <1>1, FS_RemoveElement, FS_CardinalityType
<1> QED
    BY <1>1, <1>2, <1>3 DEF Within

\* The parts of up to as many members are all parts.
LEMMA Everything ==
    ASSUME NEW D, IsFiniteSet(D)
    PROVE  Cardinality(D) \in Nat /\ Within(D, Cardinality(D)) = SUBSET D
BY FS_CardinalityType, FS_Subset DEF Within

\* The only part without members is the empty one.
LEMMA Nothing ==
    ASSUME NEW D, IsFiniteSet(D), NEW t \in Within(D, 0)
    PROVE  t = {}
<1>1. IsFiniteSet(t) /\ Cardinality(t) <= 0
    BY FS_Subset DEF Within
<1>2. Cardinality(t) \in Nat /\ (Cardinality(t) = 0 <=> t = {})
    BY <1>1, FS_CardinalityType, FS_EmptySet
<1> QED
    BY <1>1, <1>2

-----------------------------------------------------------------------------
(* The bytes of the entries, a fold over them: it is defined, and a number. *)

\* The member a fold takes next, the equation of its totals, and what that
\* equation says of each part.
Pick(t) == CHOOSE x \in t : TRUE
Total(f, w, S) == [t \in S |-> IF t = {} THEN 0 ELSE w[Pick(t)] + f[t \ {Pick(t)}]]
Totals(f, w, D) == f[{}] = 0 /\ \A t \in SUBSET D : t # {} => f[t] = w[Pick(t)] + f[t \ {Pick(t)}]

\* There is a total: for parts of one more member, extend it.
LEMMA TotalExists ==
    ASSUME NEW D, IsFiniteSet(D), NEW w
    PROVE  \E f : f = Total(f, w, SUBSET D)
<1> DEFINE T == {k \in Nat : \E f : f = Total(f, w, Within(D, k))}
<1>1. \E f : f = Total(f, w, Within(D, 0))
    <2> DEFINE f == [t \in Within(D, 0) |-> 0]
    <2>1. \A t \in Within(D, 0) : t = {}
        BY Nothing
    <2>2. f = Total(f, w, Within(D, 0))
        BY <2>1 DEF Total
    <2> QED
        BY <2>2
<1>2. ASSUME NEW k \in Nat, NEW f, f = Total(f, w, Within(D, k))
      PROVE  \E g : g = Total(g, w, Within(D, k + 1))
    <2> DEFINE g == Total(f, w, Within(D, k + 1))
    <2>1. ASSUME NEW t \in Within(D, k) PROVE g[t] = f[t]
        <3>1. t \in Within(D, k + 1)
            BY FS_CardinalityType, FS_Subset DEF Within
        <3>2. f[t] = IF t = {} THEN 0 ELSE w[Pick(t)] + f[t \ {Pick(t)}]
            BY <1>2 DEF Total
        <3> QED
            BY <3>1, <3>2 DEF Total
    <2>2. ASSUME NEW t \in Within(D, k + 1), t # {} PROVE g[t \ {Pick(t)}] = f[t \ {Pick(t)}]
        <3>1. k + 1 \in Nat /\ (k + 1) - 1 = k
            OBVIOUS
        <3>2. t \ {Pick(t)} \in Within(D, (k + 1) - 1)
            BY <2>2, <3>1, Smaller DEF Pick
        <3> QED
            BY <2>1, <3>1, <3>2
    <2>3. g = Total(g, w, Within(D, k + 1))
        BY <2>2 DEF Total
    <2> QED
        BY <2>3
<1>3. 0 \in T /\ \A k \in T : k + 1 \in T
    BY <1>1, <1>2
<1>4. Nat \subseteq T
    <2> HIDE DEF T
    <2> QED
        BY <1>3, Induction
<1> QED
    BY <1>4, Everything

\* Whatever satisfies the equation of a total of numbers is a number.
LEMMA TotalIsNat ==
    ASSUME NEW D, IsFiniteSet(D), NEW w, \A x \in D : w[x] \in Nat, NEW f,
           Totals(f, w, D)
    PROVE  f[D] \in Nat
<1> DEFINE T == {k \in Nat : \A t \in Within(D, k) : f[t] \in Nat}
<1>2. ASSUME NEW t \in Within(D, 0) PROVE f[t] \in Nat
    <2>1. t = {}
        BY Nothing
    <2> QED
        BY <2>1 DEF Totals
<1>3. ASSUME NEW k \in Nat, \A t \in Within(D, k) : f[t] \in Nat, NEW t \in Within(D, k + 1)
      PROVE  f[t] \in Nat
    <2>1. t \in SUBSET D
        BY DEF Within
    <2>2. CASE t = {}
        BY <2>2 DEF Totals
    <2>3. CASE t # {}
        <3>0. k + 1 \in Nat /\ (k + 1) - 1 = k
            OBVIOUS
        <3>1. t \ {Pick(t)} \in Within(D, (k + 1) - 1) /\ Pick(t) \in D
            BY <2>3, <3>0, Smaller DEF Pick
        <3>2. f[t \ {Pick(t)}] \in Nat /\ w[Pick(t)] \in Nat
            BY <1>3, <3>0, <3>1
        <3>3. f[t] = w[Pick(t)] + f[t \ {Pick(t)}]
            BY <2>1, <2>3 DEF Totals
        <3> QED
            BY <3>2, <3>3
    <2> QED
        BY <2>2, <2>3
<1>4. 0 \in T /\ \A k \in T : k + 1 \in T
    BY <1>2, <1>3
<1>5. Nat \subseteq T
    <2> HIDE DEF T
    <2> QED
        BY <1>4, Induction
<1> QED
    BY <1>5, Everything

\* The fold by which a sum is defined.
LEMMA SumUnfolds ==
    ASSUME NEW s
    PROVE  SumBytes(s) =
             (CHOOSE iter : iter = [t \in SUBSET DOMAIN s |->
                IF t = {} THEN 0 ELSE s[CHOOSE x \in t : TRUE].bytes + iter[t \ {CHOOSE x \in t : TRUE}]])[DOMAIN s]
BY Zenon DEF SumBytes, FoldSeq, FoldFunction, FoldFunctionOnSet, MapThenFoldSet

\* The bytes of any list of entries are a number.
LEMMA SumIsNat ==
    ASSUME NEW s \in Seq(EntryType)
    PROVE  SumBytes(s) \in Nat
<1> DEFINE D == DOMAIN s
           w == [i \in D |-> s[i].bytes]
           F(f) == [t \in SUBSET D |-> IF t = {} THEN 0 ELSE s[Pick(t)].bytes + f[t \ {Pick(t)}]]
           iter == CHOOSE f : f = F(f)
<1>1. SumBytes(s) = iter[D]
    BY SumUnfolds DEF Pick
<1>2. IsFiniteSet(D)
    BY LenProperties, FS_Interval
<1>3. \A x \in D : w[x] \in Nat
    <2>1. \A i \in D : s[i] \in EntryType
        BY ElementOfSeq, LenProperties
    <2> QED
        BY <2>1 DEF EntryType
<1>4. ASSUME NEW f PROVE F(f) = Total(f, w, SUBSET D)
    <2>1. ASSUME NEW t \in SUBSET D, t # {} PROVE w[Pick(t)] = s[Pick(t)].bytes
        BY <2>1 DEF Pick
    <2> HIDE DEF w
    <2> QED
        BY <2>1 DEF Total
<1>5. iter = F(iter)
    <2>1. \E f : f = F(f)
        <3> HIDE DEF D, F, w
        <3> QED
            BY <1>2, <1>4, TotalExists
    <2> HIDE DEF F
    <2> QED
        BY <2>1
<1>6. iter = Total(iter, w, SUBSET D)
    <2> HIDE DEF D, w, F, iter
    <2> QED
        BY <1>4, <1>5
<1>7. Totals(iter, w, D)
    <2> HIDE DEF D, w, F, iter
    <2> QED
        BY <1>6 DEF Total, Totals
<1> HIDE DEF D, w, F, iter
<1> QED
    BY <1>1, <1>2, <1>3, <1>7, TotalIsNat

\* No entries have no bytes.
LEMMA SumOfNone == SumBytes(<<>>) = 0
<1> DEFINE F(f) == [t \in SUBSET {} |->
                IF t = {} THEN 0 ELSE <<>>[CHOOSE x \in t : TRUE].bytes + f[t \ {CHOOSE x \in t : TRUE}]]
           iter == CHOOSE f : f = F(f)
           g == [t \in SUBSET {} |-> 0]
<1>1. DOMAIN <<>> = {}
    OBVIOUS
<1>2. SumBytes(<<>>) = iter[{}]
    BY <1>1, SumUnfolds
<1>3. iter = F(iter)
    <2>1. g = F(g)
        OBVIOUS
    <2> HIDE DEF F, g
    <2> QED
        BY <2>1
<1> HIDE DEF iter
<1> QED
    BY <1>2, <1>3

\* What a step does to the entries and their count of bytes.
LEMMA EntriesMove ==
    ASSUME [Next]_vars
    PROVE  \/ UNCHANGED <<entries, storedBytes>>
           \/ entries' = <<>> /\ storedBytes' = 0
           \/ \E r \in Reader : Put(NewEntry(r))
<1> DEFINE Goal == \/ UNCHANGED <<entries, storedBytes>>
                   \/ entries' = <<>> /\ storedBytes' = 0
                   \/ \E r \in Reader : Put(NewEntry(r))
<1>1. ASSUME NEW r \in Reader, Retry(r) \/ Serve(r) \/ LoadAgain(r) \/ Fail(r) PROVE Goal
    BY <1>1, Zenon DEF Retry, Serve, LoadAgain, Fail, cache
<1>2. ASSUME Credential PROVE Goal
    BY <1>2, Zenon DEF Credential, Invalidate
<1>3. ASSUME NEW r \in Reader, Send(r) PROVE Goal
    BY <1>2, <1>3, Zenon DEF Send
<1>4. ASSUME NEW r \in Reader, Finish(r) PROVE Goal
    BY <1>4, Zenon DEF Finish
<1>5. ASSUME NEW r \in Reader, NEW k \in Key, NEW since \in Since, Begin(r, k, since) PROVE Goal
    BY <1>5, Zenon DEF Begin
<1>6. ASSUME NEW x \in Row, NEW v \in Value, Change(x, v) \/ Process(x, v) PROVE Goal
    BY <1>6, Zenon DEF Change, Process, cache
<1>7. ASSUME BeginWrite \/ EndWrite PROVE Goal
    BY <1>7, Zenon DEF BeginWrite, EndWrite, Invalidate
<1>8. ASSUME SendWrite PROVE Goal
    BY <1>2, <1>8, Zenon DEF SendWrite
<1>9. ASSUME Reset \/ Rotate \/ Tick \/ UNCHANGED vars PROVE Goal
    BY <1>9, Zenon DEF Reset, Rotate, Tick, vars, cache
<1> QED
    BY <1>1, <1>3, <1>4, <1>5, <1>6, <1>7, <1>8, <1>9, Zenon DEF Next

\* What is counted is the bytes of the entries, and they fit.
Bytes == storedBytes = SumBytes(entries) /\ Fits(entries)

\* Evictions leave entries that fit, counted by what came and went.
LEMMA BytesStay ==
    ASSUME TypeOK, TypeOK', Bytes, [Next]_vars
    PROVE  Bytes'
<1>1. SumBytes(entries) \in Nat /\ SumBytes(entries') \in Nat
    <2>1. entries \in Seq(EntryType) /\ entries' \in Seq(EntryType)
        BY DEF TypeOK
    <2> QED
        BY <2>1, SumIsNat
<1>2. CASE UNCHANGED <<entries, storedBytes>>
    <2>1. entries' = entries /\ storedBytes' = storedBytes
        BY <1>2
    <2>2. SumBytes(entries') = SumBytes(entries)
        BY <2>1
    <2> QED
        BY <2>1, <2>2 DEF Bytes, Fits
<1>3. CASE entries' = <<>> /\ storedBytes' = 0
    <2>1. SumBytes(entries') = 0
        BY <1>3, SumOfNone
    <2>2. Len(entries') = 0
        BY <1>3
    <2> QED
        BY <1>3, <2>1, <2>2, CacheAssumption DEF Bytes, Fits
<1>4. ASSUME NEW e, Put(e) PROVE Bytes'
    <2>1. Fits(entries') /\ storedBytes' = storedBytes + SumBytes(entries') - SumBytes(entries)
        BY <1>4, Zenon DEF Put
    <2> QED
        BY <1>1, <2>1 DEF Bytes, Fits
<1> QED
    BY <1>2, <1>3, <1>4, EntriesMove

-----------------------------------------------------------------------------
(* The theorems.                                                           *)

LEMMA StepKeeps ==
    ASSUME IInv, [Next]_vars
    PROVE  IInv'
<1>1. CASE Next
    <2>1. CASE \E r \in Reader : Retry(r) \/ \E k \in Key, since \in Since : Begin(r, k, since)
        BY <2>1, EnterKeeps
    <2>2. CASE \E r \in Reader : Send(r) \/ Serve(r) \/ LoadAgain(r)
        BY <2>2, SendKeeps, ServeKeeps, LoadAgainKeeps
    <2>3. CASE \E r \in Reader : Finish(r) \/ Fail(r)
        BY <2>3, FinishKeeps, FailKeeps
    <2>4. CASE WorldStep
        BY <2>4, WorldKeeps
    <2>5. CASE OutsideStep
        BY <2>5, OutsideKeeps
    <2> QED
        BY <1>1, <2>1, <2>2, <2>3, <2>4, <2>5 DEF Next, WorldStep, OutsideStep
<1>2. CASE UNCHANGED vars
    <2>1. /\ UNCHANGED <<server, past, cred, currentToken, generation, entries, pending>>
          /\ UNCHANGED <<read, flight, write, acked, answer, now, count>>
        BY <1>2 DEF vars, cache
    <2>2. Order'
        BY <2>1 DEF IInv, Order, TypeOK, Chronicle, Noticed, Mapped, Shared, ServesAt, Loading, Position
    <2>3. Recent'
        BY <2>1 DEF IInv, Recent, RecentAt, Loading
    <2>4. Stored' /\ Loads'
        BY <2>1, PastStays, LoadStays DEF IInv, Stored, Loads
    <2>5. AnswersAreFresh' /\ AnswersAreTrue'
        BY <2>1 DEF IInv, AnswersAreFresh, ReadYourWrites, CompleteIsCurrent, CredentialHolds, AnswersAreTrue, Visible, Truth, Held
    <2> QED
        BY <2>2, <2>3, <2>4, <2>5 DEF IInv
<1> QED
    BY <1>1, <1>2

LEMMA InitGood == Init => IInv
<1> SUFFICES ASSUME Init PROVE IInv
    OBVIOUS
<1>1. PICK v \in Value \ {0} :
          server = [rows |-> [x \in Row |-> v], changed |-> [x \in Row |-> 0], know |-> Knowledge, epoch |-> 0]
    BY DEF Init
<1>2. server.rows \in [Row -> Value] /\ server.changed \in [Row -> Nat] /\ server.know \in Nat /\ server.epoch = 0
    BY <1>1, CacheAssumption
<1>3. server \in [rows : [Row -> Value], changed : [Row -> Nat], know : Nat, epoch : Nat]
    BY <1>1, <1>2
<1>4. past \in Seq([Row -> Value]) /\ Position = 1 /\ past[1] = server.rows
    BY <1>2 DEF Init, Position
<1>5. entries = <<>> /\ entries \in Seq(EntryType) /\ Range(entries) = {} /\ DOMAIN entries = {}
    BY DEF Init, Range
<1>6. /\ read \in [Reader -> ReadType] /\ flight \in [Reader -> FlightType]
      /\ \A r \in Reader : read[r].state = "idle" /\ flight[r].gen = 0
    BY IdleType, NothingYet DEF Init
<1>7. pending \in [Key -> Reader \cup {Nobody}] /\ \A k \in Key : pending[k] = Nobody
    BY DEF Init
<1>8. count \in [Counted -> Nat]
    BY DEF Init
<1>9. cred = 1 /\ currentToken = 0 /\ generation = 0 /\ now = 0 /\ acked = 1 /\ write = "idle" /\ answer = NoAnswer
    BY DEF Init
<1>10. TypeOK
    BY <1>3, <1>4, <1>5, <1>6, <1>7, <1>8, <1>9 DEF TypeOK
<1>11. Chronicle /\ Noticed /\ Mapped
    BY <1>4, <1>5, <1>6, <1>7, <1>9 DEF Chronicle, Noticed, Mapped
<1>12. Shared /\ Recent /\ Stored /\ Loads
    BY <1>5, <1>6, <1>9 DEF Shared, Recent, RecentAt, Stored, Loads, LoadTrue, Loading
<1>13. AnswersAreFresh /\ AnswersAreTrue
    BY <1>9 DEF NoAnswer, AnswersAreFresh, AnswersAreTrue, ReadYourWrites, CompleteIsCurrent, CredentialHolds
<1> QED
    BY <1>10, <1>11, <1>12, <1>13 DEF IInv, Order

\* The inductive invariant holds of every behaviour of the cache.
THEOREM CacheInvariance == Spec => []IInv
<1>1. IInv /\ [Next]_vars => IInv'
    BY StepKeeps
<1> QED
    BY <1>1, InitGood, PTL DEF Spec

\* Entries, loads, reads and what YNAB holds keep their types.
THEOREM CacheTypeCorrect == Spec => []TypeOK
<1>1. IInv => TypeOK
    BY DEF IInv, Order
<1> QED
    BY <1>1, CacheInvariance, PTL

\* No read is older than its reader may expect: not than a write of the
\* instance that ended before it began, nor read under an older credential,
\* and an answer called complete has every write that had ended.
THEOREM ReadsAreFresh == Spec => []AnswersAreFresh
<1>1. IInv => AnswersAreFresh
    BY DEF IInv
<1> QED
    BY <1>1, CacheInvariance, PTL

\* What is stored and what is answered is what one full read would have
\* returned at one time, through deltas, resets and expanded histories.
THEOREM ReadsAreTrue == Spec => []CacheIsTrue
<1>1. IInv => CacheIsTrue
    BY DEF IInv, CacheIsTrue, StoredIsTrue, AnswersAreTrue, Stored, EntryTrue
<1> QED
    BY <1>1, CacheInvariance, PTL

\* What evictions go by is the bytes of the entries, and they are within the
\* limits of bytes and number, whatever was removed, evicted or invalidated.
THEOREM EvictionsKeepLimits == Spec => []WithinLimits
<1>1. Init => Bytes
    <2> SUFFICES ASSUME Init PROVE Bytes
        OBVIOUS
    <2>1. entries = <<>> /\ storedBytes = 0
        BY DEF Init
    <2>2. SumBytes(entries) = 0 /\ Len(entries) = 0
        BY <2>1, SumOfNone
    <2> QED
        BY <2>1, <2>2, CacheAssumption DEF Bytes, Fits
<1>2. TypeOK /\ TypeOK' /\ Bytes /\ [Next]_vars => Bytes'
    BY BytesStay
<1>3. TypeOK /\ Bytes => WithinLimits
    BY DEF Bytes, Fits, WithinLimits
<1> QED
    BY <1>1, <1>2, <1>3, CacheTypeCorrect, PTL DEF Spec

\* Whoever waits waits for a load under way, and so does the map.
THEOREM NobodyWaitsForNothing == Spec => []NobodyIsStranded
<1>1. IInv => NobodyIsStranded
    BY DEF IInv, Order, Mapped, Shared, ServesAt, NobodyIsStranded
<1> QED
    BY <1>1, CacheInvariance, PTL

-----------------------------------------------------------------------------
(* The merge of category deltas (CategoryMerge), of which there is one for  *)
(* every set of groups and categories.  The argument: the order of a        *)
(* delta's rows does not matter, because each brings one group up to date   *)
(* (Partial), and since the last refresh the cache differs from the tree    *)
(* only in what the next delta names (Behind).                              *)

\* The types that YNAB's side of the instance keeps.
TreeTyped ==
    /\ groups \subseteq Group /\ home \in [Category -> groups \cup {New, Gone}]
    /\ listed \in [Category -> Group \cup {New}] /\ value \in [Category -> Content]

\* The cache maps groups to maps of categories, and has every group there is.
Shaped ==
    /\ groups \subseteq DOMAIN cached /\ DOMAIN cached \subseteq Group
    /\ cached = [g \in DOMAIN cached |-> [c \in DOMAIN cached[g] |-> cached[g][c]]]
    /\ \A g \in DOMAIN cached : DOMAIN cached[g] \subseteq Category

\* A category is listed where it is, and one that changed has been somewhere.
Placed ==
    /\ \A c \in Category : home[c] \in groups => listed[c] = home[c]
    /\ \A c \in Category : c \in changed => listed[c] \in Group

\* What the cache has is right but for what changed; a category listed under
\* a deleted group is cached nowhere else.
Behind ==
    /\ \A g \in DOMAIN cached : g \notin groups => g \in changed
    /\ \A c \in Category, g \in DOMAIN cached : c \notin changed =>
          /\ c \in DOMAIN cached[g] <=> home[c] = g
          /\ home[c] = g => cached[g][c] = value[c]
    /\ \A c \in Category : c \in changed /\ listed[c] \notin groups =>
          \A g \in DOMAIN cached : c \in DOMAIN cached[g] => g = listed[c]

MInv == TreeTyped /\ Shaped /\ Placed /\ Behind

\* The cache when the rows of the groups P have been merged: deleted ones are
\* gone, and the changed categories listed under the others are where they are.
Treated(c, P) == c \in changed /\ listed[c] \in P \cap groups
Members(g, P) == {c \in Category : IF Treated(c, P) THEN home[c] = g ELSE c \in DOMAIN cached[g]}
Under(g, P) == [c \in Members(g, P) |-> IF Treated(c, P) THEN value[c] ELSE cached[g][c]]
Partial(P) == [g \in DOMAIN cached \ (P \ groups) |-> Under(g, P)]

\* What is left of a map without some keys.
LEMMA WithoutShape ==
    ASSUME NEW f, NEW S
    PROVE  Less(f, S) = [x \in DOMAIN f \ S |-> f[x]]
<1>1. DOMAIN f \cap (DOMAIN f \ S) = DOMAIN f \ S
    OBVIOUS
<1> QED
    BY <1>1 DEF Less, Restrict

\* A deleted group's row takes the group out.
LEMMA MergeDeleted ==
    ASSUME NEW P \in SUBSET Group, NEW h \in Group, h \notin groups
    PROVE  Merge(Partial(P), RowOf(h)) = Partial(P \cup {h})
<1>1. Merge(Partial(P), RowOf(h)) = Less(Partial(P), {h})
    BY DEF Merge, RowOf
<1>2. DOMAIN Partial(P) = DOMAIN cached \ (P \ groups)
    BY DEF Partial
<1>3. DOMAIN Partial(P) \ {h} = DOMAIN cached \ ((P \cup {h}) \ groups)
    BY <1>2
<1>4. \A c : Treated(c, P) <=> Treated(c, P \cup {h})
    BY DEF Treated
<1>5. ASSUME NEW g PROVE Under(g, P) = Under(g, P \cup {h})
    <2>1. Members(g, P) = Members(g, P \cup {h})
        BY <1>4 DEF Members
    <2> QED
        BY <1>4, <2>1 DEF Under
<1>6. \A g \in DOMAIN Partial(P) : Partial(P)[g] = Under(g, P)
    BY DEF Partial
<1>7. Less(Partial(P), {h}) = [g \in DOMAIN Partial(P) \ {h} |-> Partial(P)[g]]
    BY WithoutShape
<1>8. [g \in DOMAIN Partial(P) \ {h} |-> Partial(P)[g]] = [g \in DOMAIN cached \ ((P \cup {h}) \ groups) |-> Under(g, P \cup {h})]
    BY <1>3, <1>5, <1>6
<1> QED
    BY <1>1, <1>7, <1>8 DEF Partial

\* The row of a group that is there takes its categories to it, or out.
LEMMA MergeKept ==
    ASSUME TreeTyped, Shaped, Placed, NEW P \in SUBSET Group, NEW h \in groups
    PROVE  Merge(Partial(P), RowOf(h)) = Partial(P \cup {h})
<1> DEFINE cats == {c \in Category \cap changed : listed[c] = h}
           row == [c \in cats |-> IF home[c] = h THEN value[c] ELSE 0]
           gone == {c \in DOMAIN row : row[c] = 0}
           Q == P \cup {h}
           D == DOMAIN cached \ (P \ groups)
           old == Under(h, P)
           here == Updated(old, row)
<1>1. h \in D /\ D \cup {h} = D /\ DOMAIN Partial(P) = D /\ D = DOMAIN cached \ (Q \ groups)
    BY DEF Partial, Shaped
<1>2. \A g \in D : Partial(P)[g] = Under(g, P)
    BY DEF Partial
<1>3. Merge(Partial(P), RowOf(h)) = [g \in D |-> IF g = h THEN here ELSE Less(Under(g, P), cats)]
    <2>1. RowOf(h) = [id |-> h, deleted |-> FALSE, categories |-> row]
        BY DEF RowOf
    <2>2. DOMAIN row = cats
        OBVIOUS
    <2> DEFINE r == [id |-> h, deleted |-> FALSE, categories |-> row]
               m == Partial(P)
    <2>3. r.id = h /\ r.deleted = FALSE /\ r.categories = row
        OBVIOUS
    <2>4. Merge(m, r) =
            [g \in DOMAIN m \cup {r.id} |->
                IF g = r.id THEN Updated(IF r.id \in DOMAIN m THEN m[r.id] ELSE <<>>, r.categories)
                ELSE Less(m[g], DOMAIN r.categories)]
        <3> HIDE DEF r, m
        <3> QED
            BY <2>3, Zenon DEF Merge
    <2>5. m[h] = old /\ h \in DOMAIN m /\ DOMAIN m \cup {h} = D
        <3> HIDE DEF old, D
        <3> QED
            BY <1>1, <1>2 DEF old
    <2>6. Merge(m, r) = [g \in D |-> IF g = h THEN Updated(old, row) ELSE Less(m[g], DOMAIN row)]
        <3> HIDE DEF m, r, old, row, D
        <3> QED
            BY <2>3, <2>4, <2>5
    <2>7. Merge(m, r) = [g \in D |-> IF g = h THEN here ELSE Less(Under(g, P), cats)]
        <3> HIDE DEF m, r, old, row, D, cats
        <3> QED
            BY <2>6, <2>2, <1>2 DEF m, here
    <2> QED
        BY <2>1, <2>7
<1>4. ASSUME NEW c \in Category
      PROVE  /\ Treated(c, Q) <=> Treated(c, P) \/ c \in cats
             /\ c \in cats /\ home[c] \in groups => home[c] = h
             /\ c \in gone <=> c \in cats /\ home[c] # h
             /\ value[c] # 0
    BY MergeAssumption DEF MergeAssumption, Treated, Placed, TreeTyped
<1>5. ASSUME NEW g \in D, g # h PROVE Less(Under(g, P), cats) = Under(g, Q)
    <2>1. g \in Group
        BY DEF Shaped
    <2>2. ASSUME NEW c \in cats, home[c] = g PROVE FALSE
        <3>1. c \in Category
            OBVIOUS
        <3>2. home[c] \in groups
            BY <2>1, <2>2, <3>1, MergeAssumption DEF TreeTyped, MergeAssumption
        <3> HIDE DEF cats, Q, gone
        <3> QED
            BY <1>4, <1>5, <2>2, <3>1, <3>2
    <2>3. Members(g, P) \ cats = Members(g, Q)
        <3> HIDE DEF cats, Q, gone
        <3>1. ASSUME NEW c \in Category PROVE c \in Members(g, P) \ cats <=> c \in Members(g, Q)
            BY <1>4, <2>2 DEF Members
        <3> QED
            BY <3>1 DEF Members
    <2>4. \A c \in Members(g, Q) : Treated(c, Q) <=> Treated(c, P)
        BY <1>4, <2>3 DEF Members
    <2>5. Less(Under(g, P), cats) = [c \in Members(g, P) \ cats |-> Under(g, P)[c]]
        BY WithoutShape DEF Under
    <2> HIDE DEF cats, Q
    <2> QED
        BY <2>3, <2>4, <2>5 DEF Under
<1>6. here = Under(h, Q)
    <2>1. DOMAIN old = Members(h, P) /\ DOMAIN row = cats
        BY DEF Under
    <2>2. (Members(h, P) \cup cats) \ gone = Members(h, Q)
        <3>1. ASSUME NEW c \in Category PROVE c \in (Members(h, P) \cup cats) \ gone <=> c \in Members(h, Q)
            <4> HIDE DEF cats, gone, Q
            <4> QED
                BY <1>4 DEF Members
        <3>2. cats \subseteq Category
            OBVIOUS
        <3> HIDE DEF cats, gone, Q
        <3> QED
            BY <3>1, <3>2 DEF Members
    <2>3. ASSUME NEW c \in Members(h, Q)
          PROVE  (IF c \in cats THEN row[c] ELSE old[c]) = IF Treated(c, Q) THEN value[c] ELSE cached[h][c]
        <3>1. c \in Category
            BY DEF Members
        <3>2. CASE c \in cats
            <4>1. home[c] = h
                BY <1>4, <2>3, <3>1, <3>2 DEF Members
            <4> QED
                BY <1>4, <3>1, <3>2, <4>1
        <3>3. CASE c \notin cats
            <4>1. c \in Members(h, P)
                BY <2>2, <3>3
            <4>2. old[c] = IF Treated(c, P) THEN value[c] ELSE cached[h][c]
                BY <4>1 DEF Under
            <4>3. Treated(c, Q) <=> Treated(c, P)
                <5> HIDE DEF cats, Q
                <5> QED
                    BY <1>4, <3>1, <3>3
            <4> HIDE DEF cats, Q, old, row
            <4> QED
                BY <3>3, <4>2, <4>3
        <3> QED
            BY <3>2, <3>3
    <2>4. here = [c \in (DOMAIN old \cup DOMAIN row) \ gone |-> IF c \in DOMAIN row THEN row[c] ELSE old[c]]
        <3> HIDE DEF old, row
        <3> QED
            BY DEF Updated, gone
    <2> HIDE DEF cats, Q, old, row, gone, here
    <2> QED
        BY <2>1, <2>2, <2>3, <2>4 DEF Under
<1> HIDE DEF cats, Q, D, here
<1>7. [g \in D |-> IF g = h THEN here ELSE Less(Under(g, P), cats)] = [g \in D |-> Under(g, Q)]
    BY <1>5, <1>6
<1>8. Partial(Q) = [g \in D |-> Under(g, Q)]
    BY <1>1 DEF Partial
<1> QED
    BY <1>3, <1>7, <1>8 DEF Q

\* One more row is one more group brought up to date.
LEMMA MergeAdvances ==
    ASSUME TreeTyped, Shaped, Placed, NEW P \in SUBSET Group, NEW h \in Group
    PROVE  Merge(Partial(P), RowOf(h)) = Partial(P \cup {h})
BY MergeDeleted, MergeKept

\* Before the first row the cache is as it was.
LEMMA PartialOfNone ==
    ASSUME Shaped
    PROVE  Partial({}) = cached
<1>1. \A c : ~Treated(c, {})
    BY DEF Treated
<1>2. ASSUME NEW g \in DOMAIN cached PROVE Under(g, {}) = [c \in DOMAIN cached[g] |-> cached[g][c]]
    <2>1. Members(g, {}) = DOMAIN cached[g]
        BY <1>1 DEF Members, Shaped
    <2> QED
        BY <1>1, <2>1 DEF Under
<1>3. Partial({}) = [g \in DOMAIN cached |-> Under(g, {})]
    BY DEF Partial
<1>4. Partial({}) = [g \in DOMAIN cached |-> [c \in DOMAIN cached[g] |-> cached[g][c]]]
    BY <1>2, <1>3
<1> QED
    BY <1>4 DEF Shaped

\* The nonempty sets of the first n places.
Nonempty(n) == {t \in SUBSET (1..n) : t # {}}

\* The fold takes the last row of those left: there is one.
LEMMA MaxIsIn ==
    ASSUME NEW n \in Nat, NEW t \in SUBSET (1..n), t # {}
    PROVE  Max(t) \in t
<1> DEFINE HasMax(t_1) == \E x \in t_1 : \A y \in t_1 : x >= y
           T == {k \in Nat : \A t_1 \in Nonempty(k) : HasMax(t_1)}
<1>1. \A t_1 \in Nonempty(0) : HasMax(t_1)
    <2>1. 1..0 = {}
        OBVIOUS
    <2>2. Nonempty(0) = {}
        BY <2>1 DEF Nonempty
    <2> QED
        BY <2>2
<1>2. ASSUME NEW k \in Nat, \A t_1 \in Nonempty(k) : HasMax(t_1), NEW u \in Nonempty(k + 1)
      PROVE  HasMax(u)
    <2>1. u \subseteq 1..(k + 1) /\ u # {}
        BY DEF Nonempty
    <2>2. CASE k + 1 \in u
        BY <2>1, <2>2
    <2>3. CASE k + 1 \notin u
        <3>1. u \in Nonempty(k)
            BY <2>1, <2>3 DEF Nonempty
        <3> QED
            BY <1>2, <3>1
    <2> QED
        BY <2>2, <2>3
<1>3. 0 \in T /\ \A k \in T : k + 1 \in T
    BY <1>1, <1>2
<1>4. Nat \subseteq T
    <2> HIDE DEF T
    <2> QED
        BY <1>3, Induction
<1>5. HasMax(t)
    BY <1>4 DEF Nonempty
<1> QED
    BY <1>5 DEF Max

\* The fold by which the rows are merged.
LEMMA FoldUnfolds ==
    ASSUME NEW s, NEW b
    PROVE  FoldLeft(Merge, b, s) =
             (CHOOSE iter : iter = [t \in SUBSET DOMAIN s |->
                IF t = {} THEN b ELSE Merge(iter[t \ {Max(t)}], s[Max(t)])])[DOMAIN s]
BY Zenon DEF FoldLeft, MapThenFoldSet

\* The groups of some of the rows, and the equation of the fold over them.
Ids(s, t) == {s[i].id : i \in t}
Folds(iter, s, n) ==
    /\ iter[{}] = cached
    /\ \A t \in SUBSET (1..n) : t # {} => iter[t] = Merge(iter[t \ {Max(t)}], s[Max(t)])

\* The last row of a part names a group, and the other rows name the others.
RowAdds(s, t) ==
    LET row == s[Max(t)]
        others == Ids(s, t \ {Max(t)})
    IN  /\ others \in SUBSET Group /\ row.id \in Group
        /\ row = RowOf(row.id) /\ Ids(s, t) = others \cup {row.id}

LEMMA RowIds ==
    ASSUME NEW n \in Nat, NEW s \in [1..n -> {RowOf(g) : g \in Group}], NEW t \in SUBSET (1..n), t # {}
    PROVE  RowAdds(s, t)
<1>1. Max(t) \in t /\ Max(t) \in 1..n
    BY MaxIsIn
<1>2. ASSUME NEW i \in 1..n PROVE s[i].id \in Group /\ s[i] = RowOf(s[i].id)
    <2>1. PICK g \in Group : s[i] = RowOf(g)
        OBVIOUS
    <2>2. RowOf(g).id = g
        BY DEF RowOf
    <2> QED
        BY <2>1, <2>2
<1> DEFINE m == Max(t)
<1> HIDE DEF m
<1>3. m \in t /\ m \in 1..n
    BY <1>1 DEF m
<1>4. Ids(s, t \ {m}) \in SUBSET Group
    BY <1>2 DEF Ids
<1>5. Ids(s, t) = Ids(s, t \ {m}) \cup {s[m].id}
    BY <1>3 DEF Ids
<1> QED
    BY <1>2, <1>3, <1>4, <1>5 DEF m, RowAdds

\* After all rows of a delta, in any order, their groups are up to date.
LEMMA FoldIsPartial ==
    ASSUME TreeTyped, Shaped, Placed, NEW n \in Nat,
           NEW s \in [1..n -> {RowOf(g) : g \in Group}]
    PROVE  FoldLeft(Merge, cached, s) = Partial(Ids(s, 1..n))
<1> DEFINE D == 1..n
           F(f) == [t \in SUBSET D |-> IF t = {} THEN cached ELSE Merge(f[t \ {Max(t)}], s[Max(t)])]
           iter == CHOOSE f : f = F(f)
           W == [t \in SUBSET D |-> Partial(Ids(s, t))]
<1>1. FoldLeft(Merge, cached, s) = iter[D]
    BY FoldUnfolds
<1>2. ASSUME NEW t \in SUBSET D, t # {}
      PROVE  Merge(Partial(Ids(s, t \ {Max(t)})), s[Max(t)]) = Partial(Ids(s, t))
    <2> DEFINE P == Ids(s, t \ {Max(t)})
               h == s[Max(t)].id
    <2>1. P \in SUBSET Group /\ h \in Group /\ s[Max(t)] = RowOf(h) /\ Ids(s, t) = P \cup {h}
        <3>1. RowAdds(s, t)
            BY <1>2, RowIds
        <3> QED
            BY <3>1 DEF RowAdds
    <2> HIDE DEF P, h
    <2>2. Merge(Partial(P), RowOf(h)) = Partial(P \cup {h})
        BY <2>1, MergeAdvances
    <2> QED
        BY <2>1, <2>2 DEF P
<1>3. Partial(Ids(s, {})) = cached
    <2>1. Ids(s, {}) = {}
        BY DEF Ids
    <2> QED
        BY <2>1, PartialOfNone
<1>4. W = F(W)
    <2>1. ASSUME NEW t \in SUBSET D, t # {} PROVE W[t] = Merge(W[t \ {Max(t)}], s[Max(t)])
        <3>1. t \ {Max(t)} \in SUBSET D
            OBVIOUS
        <3>2. W[t] = Partial(Ids(s, t)) /\ W[t \ {Max(t)}] = Partial(Ids(s, t \ {Max(t)}))
            BY <3>1
        <3> HIDE DEF W
        <3> QED
            BY <1>2, <2>1, <3>2
    <2>2. W[{}] = cached
        BY <1>3
    <2>3. ASSUME NEW t \in SUBSET D PROVE W[t] = IF t = {} THEN cached ELSE Merge(W[t \ {Max(t)}], s[Max(t)])
        <3> HIDE DEF W
        <3> QED
            BY <2>1, <2>2
    <2>4. W = [t \in SUBSET D |-> W[t]]
        OBVIOUS
    <2> HIDE DEF W, D
    <2> QED
        BY <2>3, <2>4
<1>5. iter = F(iter)
    <2>1. \E f : f = F(f)
        <3> HIDE DEF F, W
        <3> QED
            BY <1>4
    <2> HIDE DEF F
    <2> QED
        BY <2>1
<1>6. Folds(iter, s, n)
    <2> HIDE DEF iter
    <2> QED
        BY <1>5 DEF Folds
<1> DEFINE T == {k \in Nat : \A t \in Within(D, k) : iter[t] = Partial(Ids(s, t))}
<1>7. ASSUME NEW k \in Nat, NEW t \in Within(D, k), t # {}
      PROVE  t \ {Max(t)} \in Within(D, k - 1) /\ k - 1 \in Nat
    <2>1. IsFiniteSet(D)
        BY FS_Interval
    <2>2. t \in SUBSET D
        BY DEF Within
    <2>3. Max(t) \in t
        BY <1>7, <2>2, MaxIsIn
    <2> HIDE DEF D
    <2> QED
        BY <2>1, <2>3, Smaller
<1> HIDE DEF iter, F, W
<1>8. ASSUME NEW k \in Nat, NEW t \in Within(D, k), t # {},
             k - 1 \in Nat => \A u \in Within(D, k - 1) : iter[u] = Partial(Ids(s, u))
      PROVE  iter[t] = Partial(Ids(s, t))
    <2>1. iter[t \ {Max(t)}] = Partial(Ids(s, t \ {Max(t)}))
        BY <1>7, <1>8
    <2>2. t \in SUBSET D
        BY DEF Within
    <2>3. iter[t] = Merge(iter[t \ {Max(t)}], s[Max(t)])
        BY <1>6, <1>8, <2>2 DEF Folds
    <2>4. Merge(Partial(Ids(s, t \ {Max(t)})), s[Max(t)]) = Partial(Ids(s, t))
        BY <1>2, <1>8, <2>2
    <2> QED
        BY <2>1, <2>3, <2>4
<1>9. iter[{}] = Partial(Ids(s, {}))
    BY <1>3, <1>6 DEF Folds
<1>10. 0 \in T
    <2>1. \A t \in Within(D, 0) : t = {}
        BY Nothing, FS_Interval
    <2> QED
        BY <1>9, <2>1
<1>11. ASSUME NEW k \in T PROVE k + 1 \in T
    <2>1. k \in Nat /\ \A u \in Within(D, k) : iter[u] = Partial(Ids(s, u))
        BY <1>11
    <2>2. k + 1 \in Nat /\ (k + 1) - 1 = k
        BY <2>1
    <2>3. ASSUME NEW t \in Within(D, k + 1) PROVE iter[t] = Partial(Ids(s, t))
        <3>1. CASE t = {}
            BY <1>9, <3>1
        <3>2. CASE t # {}
            BY <1>8, <2>1, <2>2, <3>2
        <3> QED
            BY <3>1, <3>2
    <2> QED
        BY <2>2, <2>3
<1>12. Nat \subseteq T
    <2> HIDE DEF T
    <2> QED
        BY <1>10, <1>11, Induction
<1>13. D \in Within(D, n)
    <2>1. Cardinality(D) = n
        BY FS_Interval
    <2> QED
        BY <2>1 DEF Within
<1> QED
    BY <1>1, <1>12, <1>13

\* An order of a finite set lists every member.
LEMMA AllListed ==
    ASSUME NEW S, IsFiniteSet(S), NEW s \in SetToSeqs(S)
    PROVE  Cardinality(S) \in Nat /\ s \in [1..Cardinality(S) -> S] /\ \A x \in S : \E i \in 1..Cardinality(S) : s[i] = x
<1> DEFINE n == Cardinality(S)
<1>1. n \in Nat
    BY FS_CardinalityType
<1>2. s \in [1..n -> S] /\ \A i, j \in 1..n : i # j => s[i] # s[j]
    BY DEF SetToSeqs
<1>3. s \in Injection(1..n, S)
    BY <1>2 DEF Injection, IsInjective
<1>4. Cardinality(1..n) = n
    BY <1>1, FS_Interval
<1>5. s \in Surjection(1..n, S)
    BY <1>3, <1>4, FS_Injection
<1> QED
    BY <1>1, <1>2, <1>5 DEF Surjection

\* A delta has a row for every group that changed or lists a change.
LEMMA RowsAre ==
    /\ IsFiniteSet(ChangedRows) /\ ChangedRows \subseteq {RowOf(g) : g \in Group}
    /\ \A g \in Group : g \in changed \/ (\E c \in Category \cap changed : listed[c] = g) => RowOf(g) \in ChangedRows
    /\ \A g : RowOf(g).id = g
<1> DEFINE Named == {g \in Group : g \in changed \/ \E c \in Category \cap changed : listed[c] = g}
<1>1. IsFiniteSet(Named)
    BY FS_Subset, MergeAssumption DEF MergeAssumption
<1>2. ChangedRows = {RowOf(g) : g \in Named}
    BY DEF ChangedRows
<1>3. IsFiniteSet({RowOf(g) : g \in Named})
    <2> DEFINE f == [g \in Named |-> RowOf(g)]
               S == {RowOf(g) : g \in Named}
    <2>1. f \in Surjection(Named, S)
        <3> HIDE DEF Named
        <3> QED
            BY DEF Surjection
    <2> HIDE DEF Named, S
    <2> QED
        BY <1>1, <2>1, FS_Surjection DEF S
<1>4. \A g : RowOf(g).id = g
    BY DEF RowOf
<1> QED
    BY <1>2, <1>3, <1>4

\* A refresh brings every group with a change up to date.
LEMMA RefreshMerges ==
    ASSUME MInv, Refresh
    PROVE  \E P \in SUBSET Group :
             /\ cached' = Partial(P)
             /\ \A g \in Group : g \in changed \/ (\E c \in Category \cap changed : listed[c] = g) => g \in P
<1>1. PICK s \in SetToSeqs(ChangedRows) : cached' = FoldLeft(Merge, cached, s)
    BY Zenon DEF Refresh
<1> DEFINE n == Cardinality(ChangedRows)
           P == Ids(s, 1..n)
<1>2. n \in Nat /\ s \in [1..n -> ChangedRows] /\ \A x \in ChangedRows : \E i \in 1..n : s[i] = x
    BY RowsAre, AllListed
<1> HIDE DEF n
<1>3. s \in [1..n -> {RowOf(g) : g \in Group}]
    BY <1>2, RowsAre
<1>4. cached' = Partial(P)
    BY <1>1, <1>2, <1>3, FoldIsPartial DEF MInv
<1>5. P \in SUBSET Group
    <2>1. ASSUME NEW i \in 1..n PROVE s[i].id \in Group
        <3>1. PICK g \in Group : s[i] = RowOf(g)
            BY <1>3
        <3> QED
            BY <3>1, RowsAre
    <2> QED
        BY <2>1 DEF Ids
<1>6. ASSUME NEW g \in Group, g \in changed \/ (\E c \in Category \cap changed : listed[c] = g) PROVE g \in P
    <2>1. RowOf(g) \in ChangedRows /\ RowOf(g).id = g
        BY <1>6, RowsAre
    <2>2. PICK i \in 1..n : s[i] = RowOf(g)
        BY <1>2, <2>1
    <2> QED
        BY <2>1, <2>2 DEF Ids
<1> HIDE DEF P
<1> QED
    BY <1>4, <1>5, <1>6

\* When they are, the cache is the tree.
LEMMA PartialIsTree ==
    ASSUME MInv, NEW P \in SUBSET Group,
           \A g \in Group : g \in changed \/ (\E c \in Category \cap changed : listed[c] = g) => g \in P
    PROVE  Partial(P) = Tree
<1>1. DOMAIN cached \ (P \ groups) = groups
    BY DEF MInv, Shaped, Behind
<1>2. ASSUME NEW g \in groups, NEW c \in Category
      PROVE  /\ c \in Members(g, P) <=> home[c] = g
             /\ home[c] = g /\ ~Treated(c, P) => cached[g][c] = value[c]
    <2>1. g \in DOMAIN cached /\ g \in Group
        BY DEF MInv, Shaped, TreeTyped
    <2>2. CASE c \notin changed
        BY <2>1, <2>2 DEF MInv, Behind, Treated, Members
    <2>3. CASE c \in changed /\ listed[c] \in groups
        BY <2>1, <2>3 DEF MInv, Placed, Treated, Members
    <2>4. CASE c \in changed /\ listed[c] \notin groups
        <3>1. ~Treated(c, P) /\ home[c] # g
            BY <2>4 DEF MInv, Placed, Treated
        <3>2. c \notin DOMAIN cached[g]
            BY <2>1, <2>4 DEF MInv, Behind
        <3> QED
            BY <3>1, <3>2 DEF Members
    <2> QED
        BY <2>2, <2>3, <2>4
<1>3. ASSUME NEW g \in groups PROVE Under(g, P) = [c \in Children(g) |-> value[c]]
    <2>1. Members(g, P) = Children(g)
        BY <1>2 DEF Members, Children
    <2> QED
        BY <1>2, <2>1 DEF Under, Children
<1> QED
    BY <1>1, <1>3 DEF Partial, Tree

\* A cache that is the tree is a good start for the next delta.
LEMMA TreeIsGood ==
    TreeTyped /\ Placed /\ cached = Tree /\ changed = {} => MInv
<1> SUFFICES ASSUME TreeTyped, Placed, cached = Tree, changed = {} PROVE MInv
    OBVIOUS
<1>1. DOMAIN cached = groups
    BY DEF Tree
<1>2. \A g \in groups : cached[g] = [c \in Children(g) |-> value[c]]
    BY DEF Tree
<1>3. \A g \in groups : DOMAIN cached[g] = Children(g)
    BY <1>2
<1>4. cached = [g \in DOMAIN cached |-> [c \in DOMAIN cached[g] |-> cached[g][c]]]
    BY <1>1, <1>2, <1>3 DEF Tree
<1>5. Shaped
    BY <1>1, <1>3, <1>4 DEF Shaped, TreeTyped, Children
<1>6. ASSUME NEW c \in Category, NEW g \in groups
      PROVE  /\ c \in DOMAIN cached[g] <=> home[c] = g
             /\ home[c] = g => cached[g][c] = value[c]
    <2>1. cached[g] = [d \in Children(g) |-> value[d]] /\ DOMAIN cached[g] = Children(g)
        BY <1>2, <1>3
    <2>2. c \in Children(g) <=> home[c] = g
        BY DEF Children
    <2> HIDE DEF Tree
    <2> QED
        BY <2>1, <2>2
<1>7. Behind
    <2> HIDE DEF Tree
    <2> QED
        BY <1>1, <1>6 DEF Behind
<1> QED
    BY <1>5, <1>7 DEF MInv

\* With nothing changed, the cache is the tree.
LEMMA GoodIsTree ==
    ASSUME MInv
    PROVE  MergedIsTree
<1> SUFFICES ASSUME changed = {} PROVE cached = Tree
    BY DEF MergedIsTree
<1>1. Partial({}) = Tree
    BY PartialIsTree
<1> QED
    BY <1>1, PartialOfNone DEF MInv

\* Each change of YNAB, and each refresh, keeps the invariant.
LEMMA MergeStep ==
    ASSUME MInv, KeepsArrivals, [MergeNext]_mergeVars
    PROVE  MInv'
<1>1. ASSUME NEW c \in Category, NEW g \in Group, NEW v \in Content, Place(c, g, v) PROVE MInv'
    <2>1. /\ g \in groups /\ home' = [home EXCEPT ![c] = g] /\ listed' = [listed EXCEPT ![c] = g]
          /\ value' = [value EXCEPT ![c] = v] /\ changed' = changed \cup {c}
          /\ cached' = cached /\ groups' = groups
        BY <1>1 DEF Place, Changes
    <2>2. TreeTyped'
        BY <2>1 DEF MInv, TreeTyped
    <2>3. Shaped'
        BY <2>1 DEF MInv, Shaped
    <2>4. Placed'
        BY <2>1, MergeAssumption DEF MergeAssumption, MInv, TreeTyped, Placed
    <2>5. Behind'
        BY <2>1, MergeAssumption DEF MergeAssumption, MInv, TreeTyped, Shaped, Placed, Behind
    <2> QED
        BY <2>2, <2>3, <2>4, <2>5 DEF MInv
<1>2. ASSUME NEW c \in Category, Delete(c) PROVE MInv'
    <2>1. /\ home[c] \in groups /\ home' = [home EXCEPT ![c] = Gone] /\ listed' = listed
          /\ value' = value /\ changed' = changed \cup {c}
          /\ cached' = cached /\ groups' = groups
        BY <1>2 DEF Delete, Changes
    <2>2. TreeTyped'
        BY <2>1 DEF MInv, TreeTyped
    <2>3. Shaped'
        BY <2>1 DEF MInv, Shaped
    <2>4. Placed'
        BY <2>1, MergeAssumption DEF MergeAssumption, MInv, TreeTyped, Placed
    <2>5. Behind'
        BY <2>1, MergeAssumption DEF MergeAssumption, MInv, TreeTyped, Shaped, Placed, Behind
    <2> QED
        BY <2>2, <2>3, <2>4, <2>5 DEF MInv
<1>3. ASSUME NEW g \in Group, DeleteGroup(g) PROVE MInv'
    <2>1. /\ g \in groups /\ groups' = groups \ {g}
          /\ home' = [c \in Category |-> IF home[c] = g THEN Gone ELSE home[c]]
          /\ changed' = changed \cup ({g} \cup Children(g))
          /\ cached' = cached /\ listed' = listed /\ value' = value
        BY <1>3 DEF DeleteGroup, Changes
    <2>2. \A c \in Category : listed[c] = g => \A h \in DOMAIN cached : c \in DOMAIN cached[h] => h = g
        BY <1>3 DEF DeleteGroup, Arrived
    <2>3. TreeTyped'
        BY <2>1 DEF MInv, TreeTyped
    <2>4. Shaped'
        BY <2>1 DEF MInv, Shaped
    <2>5. \A c \in Category : /\ c \in changed' <=> c \in changed \/ home[c] = g
                              /\ home[c] = g => listed[c] = g
        BY <2>1, MergeAssumption DEF MergeAssumption, MInv, Placed, Children
    <2>6. Placed'
        BY <2>1, <2>5, MergeAssumption DEF MergeAssumption, MInv, TreeTyped, Placed
    <2>7. Behind'
        BY <2>1, <2>2, <2>5, MergeAssumption DEF MergeAssumption, MInv, TreeTyped, Shaped, Behind
    <2> QED
        BY <2>3, <2>4, <2>6, <2>7 DEF MInv
<1>4. CASE Refresh
    <2>1. cached' = Tree
        BY <1>4, RefreshMerges, PartialIsTree
    <2>2. changed' = {} /\ UNCHANGED <<groups, home, listed, value>>
        BY <1>4 DEF Refresh
    <2>3. TreeTyped' /\ Placed'
        BY <2>2 DEF MInv, TreeTyped, Placed
    <2>4. cached' = Tree'
        BY <2>1, <2>2 DEF Tree, Children
    <2>5. (cached = Tree /\ changed = {})'
        BY <2>2, <2>4
    <2> QED
        BY <2>3, <2>5, TreeIsGood, PTL
<1>5. CASE UNCHANGED mergeVars
    BY <1>5 DEF mergeVars, ynabTree, MInv, TreeTyped, Shaped, Placed, Behind
<1> QED
    BY <1>1, <1>2, <1>3, <1>4, <1>5 DEF MergeNext

\* The first baseline satisfies it.
LEMMA MergeStarts ==
    ASSUME MergeInit
    PROVE  MInv
<1>1. TreeTyped
    BY DEF MergeInit, TreeTyped
<1>2. Placed
    BY DEF MergeInit, Placed
<1> QED
    BY <1>1, <1>2, TreeIsGood DEF MergeInit

\* After a refresh the cache has YNAB's tree, whatever was created, moved,
\* edited and deleted since the last one and in whatever order its rows come,
\* for any groups, categories and bounds, as long as no group is deleted with
\* a category that has arrived there unread (KeepsArrivals).
THEOREM DeltasMakeTheTree ==
    ASSUME KeepsArrivals
    PROVE  MergeSpec => []MergedIsTree
<1>1. MergeInit => MInv
    BY MergeStarts
<1>2. MInv /\ [MergeNext]_mergeVars => MInv'
    BY MergeStep
<1>3. MInv => MergedIsTree
    BY GoodIsTree
<1> QED
    BY <1>1, <1>2, <1>3, PTL DEF MergeSpec
=============================================================================
