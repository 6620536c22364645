---------------------------- MODULE AccessProofs ----------------------------
(***************************************************************************)
(* Proofs about what stands between a tool call and YNAB.                  *)
(*                                                                         *)
(* The way of requests, for every bucket, number of requests, retries and  *)
(* delays: no hour sees more of them than the bucket allows, and no write  *)
(* is carried out twice.  The argument for the limit: what the bucket      *)
(* holds and has paid out since a request was sent is at most what it held *)
(* at first and has gained since (Paid), so when the next one is sent the  *)
(* time between the two accounts for all of them.                          *)
(*                                                                         *)
(* The credential store, for any consents and calls: it implements         *)
(* AtomicCredentials, keeps the refresh token that YNAB accepts, and gives *)
(* out no expired access token.  The argument: only the call at the head   *)
(* of the queue can have a refresh that is waited for (Attended), so its   *)
(* record is the one it read (AtHead), and where no refresh has come to    *)
(* harm no other one is on its way (Unharmed).                             *)
(*                                                                         *)
(* The storage of journals, for any number of chunks and revisions, and    *)
(* the token cache of local processes, for any number of them.             *)
(*                                                                         *)
(* The parts side by side, in the behaviours of Access (Parts).            *)
(***************************************************************************)
EXTENDS Access, SequenceTheorems, TLAPS

\* The requests recorded from the i-th on are paid for by a full bucket and
\* the time since.
Paid ==
    \A i \in DOMAIN apiRequestTimes :
        /\ apiRequestTimes[i] <= updatedAt
        /\ (Len(apiRequestTimes) - i + 1) * Refill + level
              <= Full + (updatedAt - apiRequestTimes[i])

\* And so are those between any two of them.
PaidBetween ==
    \A i, j \in DOMAIN apiRequestTimes :
        i <= j => (j - i + 1) * Refill <= Full + (apiRequestTimes[j] - apiRequestTimes[i])

\* A write is abroad or carried out, once at most, and then not to be sent.
SentOnce ==
    \A r \in Request \ Reads :
        /\ applied[r] + abroad[r] <= 1
        /\ pc[r] \in {"new", "waits", "backs off"} => applied[r] + abroad[r] = 0

LInv == TypeOK /\ Paid /\ PaidBetween /\ SentOnce

-----------------------------------------------------------------------------
(* Lemmas about the bucket.                                                *)

\* What a full bucket holds is a number of tokens.
LEMMA FullIsNat == Full \in Nat /\ Refill \in Nat \ {0}
BY LimiterAssumption DEF Full

\* The types of the bucket, one by one.
LEMMA BucketTypes ==
    ASSUME TypeOK
    PROVE  /\ now \in Nat /\ updatedAt \in Nat /\ updatedAt <= now
           /\ level \in Nat /\ level <= Full
           /\ apiRequestTimes \in Seq(Nat)
<1>1. now \in Nat /\ updatedAt \in 0..now /\ level \in 0..Full /\ apiRequestTimes \in Seq(Nat)
    BY DEF TypeOK
<1> QED
    BY <1>1, FullIsNat

\* The bucket is never fuller than it can be, nor than the time allows.
LEMMA RefilledBounds ==
    ASSUME TypeOK
    PROVE  /\ Refilled \in Nat /\ Refilled <= Full
           /\ Refilled <= level + (now - updatedAt)
BY BucketTypes, FullIsNat DEF Refilled

\* A token more.
LEMMA OneMore ==
    ASSUME NEW a \in Int
    PROVE  (a + 1) * Refill = a * Refill + Refill /\ a * Refill \in Int
BY FullIsNat

\* The end of a sequence from its k-th element on, one element having been added.
LEMMA Shifted ==
    ASSUME NEW s \in Seq(Nat), NEW e \in Nat, NEW k \in 1..(Len(s) + 1)
    PROVE  LET t == SubSeq(Append(s, e), k, Len(Append(s, e)))
           IN  /\ t \in Seq(Nat)
               /\ Len(t) = Len(s) + 2 - k
               /\ \A i \in 1..Len(t) :
                    t[i] = IF i + k - 1 <= Len(s) THEN s[i + k - 1] ELSE e
<1> DEFINE a == Append(s, e)
           t == SubSeq(a, k, Len(a))
<1>1. a \in Seq(Nat) /\ Len(a) = Len(s) + 1 /\ Len(s) \in Nat
    BY AppendProperties, LenProperties
<1>2. ASSUME NEW i \in 1..(Len(s) + 1)
      PROVE  a[i] = IF i <= Len(s) THEN s[i] ELSE e
    BY AppendProperties, LenProperties
<1>3. /\ t \in Seq(Nat)
      /\ Len(t) = Len(s) + 2 - k
      /\ \A i \in 1..(Len(s) + 2 - k) : t[i] = a[k + i - 1]
    <2>1. /\ k \in 1..(Len(a) + 1) /\ Len(a) \in (k - 1)..Len(a) /\ Len(a) - k + 1 = Len(s) + 2 - k
          /\ k <= Len(a) => Len(a) - k + 1 = Len(s) + 2 - k
          /\ ~(k <= Len(a)) => Len(s) + 2 - k = 0
        BY <1>1
    <2> HIDE DEF a
    <2>2. \A i \in k..Len(a) : a[i] \in Nat
        <3>1. ASSUME NEW i \in k..Len(a) PROVE a[i] \in Nat
            <4>1. i \in 1..Len(a)
                BY <1>1, <2>1
            <4> QED
                BY <1>1, <4>1, ElementOfSeq
        <3> QED
            BY <3>1
    <2>3. /\ SubSeq(a, k, Len(a)) \in Seq(Nat)
          /\ Len(SubSeq(a, k, Len(a))) = IF k <= Len(a) THEN Len(a) - k + 1 ELSE 0
          /\ \A i \in 1..(Len(a) - k + 1) : SubSeq(a, k, Len(a))[i] = a[k + i - 1]
        <3>1. k \in Int /\ Len(a) \in Int
            BY <1>1, <2>1
        <3> QED
            BY <2>2, <3>1, SubSeqProperties
    <2>4. Len(t) = Len(s) + 2 - k
        BY <2>1, <2>3
    <2> QED
        BY <2>1, <2>3, <2>4
<1> HIDE DEF a, t
<1>4. ASSUME NEW i \in 1..Len(t)
      PROVE  t[i] = IF i + k - 1 <= Len(s) THEN s[i + k - 1] ELSE e
    <2>1. k + i - 1 \in 1..(Len(s) + 1) /\ i \in 1..(Len(s) + 2 - k) /\ k + i - 1 = i + k - 1
        BY <1>1, <1>3
    <2>2. t[i] = a[k + i - 1]
        BY <1>3, <2>1
    <2>3. a[k + i - 1] = IF k + i - 1 <= Len(s) THEN s[k + i - 1] ELSE e
        BY <1>2, <2>1
    <2> QED
        BY <2>1, <2>2, <2>3
<1> QED
    BY <1>3, <1>4 DEF t, a

\* What recordApiRequest leaves: the last of the times, up to now.
LEMMA Recorded ==
    ASSUME TypeOK, Record
    PROVE  \E k \in 1..(Len(apiRequestTimes) + 1) :
             /\ apiRequestTimes' \in Seq(Nat)
             /\ Len(apiRequestTimes') = Len(apiRequestTimes) + 2 - k
             /\ \A i \in 1..Len(apiRequestTimes') :
                  apiRequestTimes'[i] = IF i + k - 1 <= Len(apiRequestTimes)
                                        THEN apiRequestTimes[i + k - 1] ELSE now
<1>1. apiRequestTimes \in Seq(Nat) /\ now \in Nat
    BY BucketTypes
<1>2. Len(Append(apiRequestTimes, now)) = Len(apiRequestTimes) + 1
    BY <1>1, AppendProperties
<1>3. PICK k \in 1..(Len(apiRequestTimes) + 1) :
        apiRequestTimes' = SubSeq(Append(apiRequestTimes, now), k, Len(Append(apiRequestTimes, now)))
    BY <1>2, Zenon DEF Record
<1> DEFINE t == SubSeq(Append(apiRequestTimes, now), k, Len(Append(apiRequestTimes, now)))
<1>4. /\ t \in Seq(Nat)
      /\ Len(t) = Len(apiRequestTimes) + 2 - k
      /\ \A i \in 1..Len(t) :
           t[i] = IF i + k - 1 <= Len(apiRequestTimes) THEN apiRequestTimes[i + k - 1] ELSE now
    BY <1>1, Shifted, Zenon
<1>5. apiRequestTimes' = t
    BY <1>3
<1> HIDE DEF t
<1> QED
    BY <1>4, <1>5, Zenon

\* The sum in Paid, when the bucket gains what the time allows and pays a token.
LEMMA PaidOne ==
    ASSUME NEW p \in Int, NEW l \in Nat, NEW t \in Nat, NEW u \in Nat, NEW v \in Nat,
           NEW gained \in Nat, NEW c \in Nat, NEW f \in Nat,
           p + l <= f + (u - t), gained <= l + (v - u)
    PROVE  (p + c) + (gained - c) <= f + (v - t)
OBVIOUS

\* A request that finds a token pays for it.
LEMMA SendIsPaid ==
    ASSUME LInv, NEW r \in Request, Send(r)
    PROVE  Paid' /\ PaidBetween'
<1> DEFINE n == Len(apiRequestTimes)
           m == Len(apiRequestTimes')
<1>1. /\ now \in Nat /\ updatedAt \in Nat /\ updatedAt <= now
      /\ level \in Nat /\ level <= Full
      /\ apiRequestTimes \in Seq(Nat) /\ n \in Nat
    BY BucketTypes DEF LInv
<1>2. PICK k \in 1..(n + 1) :
        /\ apiRequestTimes' \in Seq(Nat)
        /\ m = n + 2 - k
        /\ \A i \in 1..m : apiRequestTimes'[i] = IF i + k - 1 <= n THEN apiRequestTimes[i + k - 1] ELSE now
    BY Recorded DEF LInv, Send
<1>3. /\ level' = Refilled - Refill /\ level' \in Nat /\ updatedAt' = now
      /\ Refilled \in Nat /\ Refilled <= Full /\ Refilled <= level + (now - updatedAt)
    BY RefilledBounds, FullIsNat DEF LInv, Send
<1> HIDE DEF n, m
<1>4. ASSUME NEW i \in 1..m
      PROVE  /\ apiRequestTimes'[i] \in Nat
             /\ apiRequestTimes'[i] <= now
             /\ (m - i + 1) * Refill + level' <= Full + (now - apiRequestTimes'[i])
    <2>1. CASE i + k - 1 <= n
        <3> DEFINE h == i + k - 1
        <3>1. h \in 1..n /\ apiRequestTimes'[i] = apiRequestTimes[h]
            BY <1>1, <1>2, <2>1
        <3>2. h \in DOMAIN apiRequestTimes
            BY <1>1, <3>1 DEF n
        <3>3. apiRequestTimes[h] \in Nat
            BY <1>1, <3>2
        <3>4. /\ apiRequestTimes[h] <= updatedAt
              /\ (n - h + 1) * Refill + level <= Full + (updatedAt - apiRequestTimes[h])
            BY <3>2 DEF LInv, Paid, n
        <3>5. m - i + 1 = (n - h + 1) + 1 /\ n - h + 1 \in Int
            BY <1>1, <1>2
        <3>6. (m - i + 1) * Refill = (n - h + 1) * Refill + Refill /\ (n - h + 1) * Refill \in Int
            BY <3>5, OneMore
        <3> HIDE DEF h
        <3>7. ((n - h + 1) * Refill + Refill) + (Refilled - Refill) <= Full + (now - apiRequestTimes[h])
            BY <1>1, <1>3, <3>3, <3>4, <3>6, FullIsNat, PaidOne
        <3>8. (m - i + 1) * Refill + level' = ((n - h + 1) * Refill + Refill) + (Refilled - Refill)
            BY <1>3, <3>6
        <3>9. (m - i + 1) * Refill + level' <= Full + (now - apiRequestTimes[h])
            BY <3>7, <3>8
        <3>10. apiRequestTimes[h] <= now
            BY <1>1, <3>3, <3>4
        <3> QED
            BY <3>1, <3>3, <3>9, <3>10
    <2>2. CASE i + k - 1 > n
        <3>1. apiRequestTimes'[i] = now /\ m - i + 1 = 1
            BY <1>1, <1>2, <2>2
        <3> QED
            BY <1>1, <1>3, <3>1, FullIsNat
    <2> QED
        BY <2>1, <2>2, <1>1, <1>2
<1>5. DOMAIN apiRequestTimes' = 1..m
    BY <1>2 DEF m
<1>6. Paid'
    <2> SUFFICES ASSUME NEW i \in 1..m
                 PROVE  /\ apiRequestTimes'[i] <= updatedAt'
                        /\ (m - i + 1) * Refill + level' <= Full + (updatedAt' - apiRequestTimes'[i])
        BY <1>5 DEF Paid, Full, m
    <2> QED
        BY <1>3, <1>4
<1>7. PaidBetween'
    <2> SUFFICES ASSUME NEW i \in 1..m, NEW j \in 1..m, i <= j
                 PROVE  (j - i + 1) * Refill <= Full + (apiRequestTimes'[j] - apiRequestTimes'[i])
        BY <1>5 DEF PaidBetween, Full
    <2>1. CASE j + k - 1 <= n
        <3>1. /\ i + k - 1 \in 1..n /\ j + k - 1 \in 1..n
              /\ (j + k - 1) - (i + k - 1) + 1 = j - i + 1 /\ i + k - 1 <= j + k - 1
            BY <1>1, <1>2, <2>1
        <3>2. /\ apiRequestTimes'[i] = apiRequestTimes[i + k - 1]
              /\ apiRequestTimes'[j] = apiRequestTimes[j + k - 1]
            BY <1>2, <3>1
        <3>3. i + k - 1 \in DOMAIN apiRequestTimes /\ j + k - 1 \in DOMAIN apiRequestTimes
            BY <1>1, <3>1 DEF n
        <3>4. ((j + k - 1) - (i + k - 1) + 1) * Refill
                <= Full + (apiRequestTimes[j + k - 1] - apiRequestTimes[i + k - 1])
            BY <3>1, <3>3 DEF LInv, PaidBetween
        <3>5. (j - i + 1) * Refill = ((j + k - 1) - (i + k - 1) + 1) * Refill
            BY <3>1
        <3> QED
            BY <3>2, <3>4, <3>5
    <2>2. CASE j + k - 1 > n
        <3>1. apiRequestTimes'[j] = now /\ m - i + 1 = j - i + 1
            BY <1>1, <1>2, <2>2
        <3>2. (j - i + 1) * Refill \in Int
            BY FullIsNat
        <3>3. (j - i + 1) * Refill + level' <= Full + (now - apiRequestTimes'[i])
            BY <1>4, <3>1
        <3>4. apiRequestTimes'[i] \in Nat /\ level' \in Nat /\ Full \in Nat
            BY <1>3, <1>4, FullIsNat
        <3> DEFINE w == (j - i + 1) * Refill
        <3>5. w \in Int /\ w + level' <= Full + (now - apiRequestTimes'[i])
            BY <3>2, <3>3
        <3> HIDE DEF w
        <3>6. w <= Full + (now - apiRequestTimes'[i])
            BY <1>1, <3>4, <3>5
        <3> QED
            BY <3>1, <3>6 DEF w
    <2> QED
        BY <2>1, <2>2, <1>1, <1>2
<1> QED
    BY <1>6, <1>7

\* One that finds none takes nothing.
LEMMA WaitIsPaid ==
    ASSUME LInv, NEW r \in Request, Wait(r)
    PROVE  Paid' /\ PaidBetween'
<1> DEFINE n == Len(apiRequestTimes)
<1>1. /\ now \in Nat /\ updatedAt \in Nat /\ updatedAt <= now
      /\ level \in Nat /\ level <= Full
      /\ apiRequestTimes \in Seq(Nat) /\ n \in Nat /\ DOMAIN apiRequestTimes = 1..n
    BY BucketTypes, LenProperties DEF LInv
<1>2. /\ level' = Refilled /\ updatedAt' = now /\ apiRequestTimes' = apiRequestTimes
      /\ Refilled \in Nat /\ Refilled <= level + (now - updatedAt)
    BY RefilledBounds DEF LInv, Wait
<1>3. PaidBetween'
    BY <1>2 DEF LInv, PaidBetween, Full
<1>4. ASSUME NEW i \in 1..n
      PROVE  apiRequestTimes[i] <= now /\ (n - i + 1) * Refill + Refilled <= Full + (now - apiRequestTimes[i])
    <2>1. /\ apiRequestTimes[i] <= updatedAt
          /\ (n - i + 1) * Refill + level <= Full + (updatedAt - apiRequestTimes[i])
        BY <1>1 DEF LInv, Paid
    <2>2. apiRequestTimes[i] \in Nat /\ (n - i + 1) * Refill \in Int
        BY <1>1, FullIsNat
    <2>3. ((n - i + 1) * Refill + 0) + (Refilled - 0) <= Full + (now - apiRequestTimes[i])
        BY <1>1, <1>2, <2>1, <2>2, FullIsNat, PaidOne
    <2> QED
        BY <1>1, <1>2, <2>1, <2>2, <2>3
<1>5. Paid'
    BY <1>1, <1>2, <1>4 DEF Paid, Full
<1> QED
    BY <1>3, <1>5

\* Nor does a step that leaves the bucket alone.
LEMMA OthersPay ==
    ASSUME LInv, UNCHANGED bucket
    PROVE  Paid' /\ PaidBetween'
BY DEF LInv, bucket, Paid, PaidBetween, Full

-----------------------------------------------------------------------------
(* Types, and what has become of a write.                                  *)

\* Delays are lengths of time.
LEMMA DelaysAreNat ==
    ASSUME TypeOK, NEW r \in Request
    PROVE  Delays(r) \subseteq Nat /\ Backoff(attempt[r]) \in Nat
<1>1. attempt[r] \in 0..MaxRetries
    BY DEF TypeOK
<1>2. Backoff(attempt[r]) \in Nat
    BY <1>1, LimiterAssumption
<1> QED
    BY <1>2, LimiterAssumption DEF Delays

\* A function that is changed at a point keeps its type.
LEMMA Changed ==
    ASSUME NEW S, NEW T, NEW f \in [S -> T], NEW x \in S, NEW v \in T
    PROVE  [f EXCEPT ![x] = v] \in [S -> T]
OBVIOUS

Label == {"new", "waits", "flies", "backs off", "ended"}

\* The types of what each request has of its own.
OwnTypes == pc \in [Request -> Label] /\ due \in [Request -> Nat] /\ attempt \in [Request -> 0..MaxRetries]

\* The types of what becomes of the writes.
FateTypes == abroad \in [Request -> 0..1] /\ applied \in [Request -> Nat] /\ faults \in 0..MaxFaults

\* The type invariant, by parts.
LEMMA TypeParts ==
    TypeOK <=> /\ now \in Nat /\ updatedAt \in 0..now /\ level \in 0..Full
               /\ apiRequestTimes \in Seq(Nat)
               /\ OwnTypes /\ FateTypes
BY DEF TypeOK, OwnTypes, FateTypes, Label

\* A request goes somewhere, its timer is set and its retries are counted.
LEMMA Moves ==
    ASSUME OwnTypes, NEW r \in Request, NEW l \in Label, NEW t \in Nat,
           Goto(r, l), due' = [due EXCEPT ![r] = t]
    PROVE  /\ pc' \in [Request -> Label] /\ due' \in [Request -> Nat]
           /\ attempt' = attempt => attempt' \in [Request -> 0..MaxRetries]
BY Changed DEF OwnTypes, Goto

\* A request ends.
LEMMA EndTyped ==
    ASSUME OwnTypes, NEW r \in Request, End(r)
    PROVE  OwnTypes'
<1>1. pc' \in [Request -> Label] /\ due' \in [Request -> Nat]
    BY Moves DEF End, Label
<1>2. 0 \in 0..MaxRetries
    BY LimiterAssumption
<1>3. attempt' \in [Request -> 0..MaxRetries]
    BY <1>2, Changed DEF OwnTypes, End
<1> QED
    BY <1>1, <1>3 DEF OwnTypes

\* It is retried, or ends.
LEMMA RetryTyped ==
    ASSUME OwnTypes, now \in Nat, NEW r \in Request, NEW D \in SUBSET Nat, Retry(r, D)
    PROVE  OwnTypes'
<1>1. ASSUME NEW delay \in D, Retries(r, delay)
      PROVE  OwnTypes'
    <2>1. now + delay \in Nat
        OBVIOUS
    <2>2. pc' \in [Request -> Label] /\ due' \in [Request -> Nat]
        BY <1>1, <2>1, Moves DEF Retries, Label
    <2>3. attempt[r] \in 0..MaxRetries /\ attempt[r] < MaxRetries /\ MaxRetries \in Nat
        BY <1>1, LimiterAssumption DEF Retries, OwnTypes
    <2>4. attempt[r] + 1 \in 0..MaxRetries
        BY <2>3
    <2>5. attempt' \in [Request -> 0..MaxRetries]
        BY <1>1, <2>4, Changed DEF OwnTypes, Retries
    <2> QED
        BY <2>2, <2>5 DEF OwnTypes
<1> QED
    BY <1>1, EndTyped DEF Retry

\* Faults are bounded.
LEMMA FaultTyped ==
    ASSUME faults \in 0..MaxFaults, Fault
    PROVE  faults' \in 0..MaxFaults
BY LimiterAssumption DEF Fault

\* A write is given up to YNAB, or no longer on its way.
LEMMA AbroadTyped ==
    ASSUME FateTypes, NEW r \in Request, NEW n \in {0, 1}
    PROVE  [abroad EXCEPT ![r] = n] \in [Request -> 0..1]
<1>1. n \in 0..1
    OBVIOUS
<1> QED
    BY <1>1, Changed DEF FateTypes

\* Every step keeps the types.
LEMMA StepTyped ==
    ASSUME LInv, [Next]_vars
    PROVE  TypeOK'
<1>1. /\ now \in Nat /\ updatedAt \in Nat /\ updatedAt <= now
      /\ level \in Nat /\ level <= Full /\ apiRequestTimes \in Seq(Nat)
      /\ Full \in Nat /\ Refill \in Nat \ {0} /\ Timeout \in Nat
    BY BucketTypes, FullIsNat, LimiterAssumption DEF LInv
<1>2. OwnTypes /\ FateTypes /\ TypeOK
    BY TypeParts DEF LInv
<1>3. Refilled \in Nat /\ Refilled <= Full
    BY <1>2, RefilledBounds
<1>4. ASSUME UNCHANGED <<now, bucket>>, OwnTypes', FateTypes' PROVE TypeOK'
    BY <1>2, <1>4, TypeParts DEF bucket, TypeOK, OwnTypes, FateTypes, Label, Full
<1>5. ASSUME now' = now, updatedAt' = now, level' \in Nat, level' <= Full,
             apiRequestTimes' \in Seq(Nat), OwnTypes', FateTypes'
      PROVE  TypeOK'
    <2>1. now' \in Nat /\ updatedAt' \in 0..now' /\ level' \in 0..Full
        BY <1>1, <1>5
    <2> QED
        BY <1>5, <2>1 DEF TypeOK, OwnTypes, FateTypes, Label, Full
<1>6. ASSUME NEW r \in Request, Send(r) PROVE TypeOK'
    <2>1. now' = now /\ updatedAt' = now /\ level' \in Nat /\ level' <= Full
        BY <1>1, <1>3, <1>6 DEF Send
    <2>2. apiRequestTimes' \in Seq(Nat)
        BY <1>2, <1>6, Recorded DEF Send
    <2>3. now + Timeout \in Nat
        BY <1>1
    <2>4. OwnTypes'
        BY <1>2, <1>6, <2>3, Moves DEF Send, OwnTypes, Label
    <2>5. FateTypes'
        BY <1>2, <1>6, AbroadTyped DEF Send, FateTypes
    <2> QED
        BY <1>5, <2>1, <2>2, <2>4, <2>5
<1>7. ASSUME NEW r \in Request, Wait(r) PROVE TypeOK'
    <2>1. /\ now' = now /\ updatedAt' = now /\ level' \in Nat /\ level' <= Full
          /\ apiRequestTimes' \in Seq(Nat)
        BY <1>1, <1>3, <1>7 DEF Wait
    <2>2. Refilled < Refill
        BY <1>7 DEF Wait
    <2>3. now + (Refill - Refilled) \in Nat
        BY <1>1, <1>3, <2>2
    <2>4. OwnTypes'
        BY <1>2, <1>7, <2>3, Moves DEF Wait, OwnTypes, Label
    <2>5. FateTypes'
        BY <1>2, <1>7 DEF Wait, FateTypes
    <2> QED
        BY <1>5, <2>1, <2>4, <2>5
<1>8. ASSUME NEW r \in Request, Reply(r) PROVE TypeOK'
    BY <1>2, <1>4, <1>8, EndTyped DEF Reply, FateTypes
<1>9. ASSUME NEW r \in Request, Limited(r) PROVE TypeOK'
    <2>1. OwnTypes'
        BY <1>1, <1>2, <1>9, RetryTyped, DelaysAreNat DEF Limited
    <2>2. FateTypes'
        BY <1>2, <1>9, FaultTyped, AbroadTyped DEF Limited, FateTypes
    <2> QED
        BY <1>4, <1>9, <2>1, <2>2 DEF Limited
<1>10. ASSUME NEW r \in Request, Unavailable(r) PROVE TypeOK'
    <2>1. OwnTypes'
        BY <1>1, <1>2, <1>10, RetryTyped, EndTyped, DelaysAreNat DEF Unavailable
    <2>2. FateTypes'
        BY <1>2, <1>10, FaultTyped DEF Unavailable, FateTypes
    <2> QED
        BY <1>4, <1>10, <2>1, <2>2 DEF Unavailable
<1>11. ASSUME NEW r \in Request, Lost(r) PROVE TypeOK'
    <2>1. {Backoff(attempt[r])} \in SUBSET Nat
        BY <1>2, DelaysAreNat
    <2>2. OwnTypes'
        BY <1>1, <1>2, <1>11, <2>1, RetryTyped, EndTyped DEF Lost
    <2>3. FateTypes'
        BY <1>2, <1>11, FaultTyped DEF Lost, FateTypes
    <2> QED
        BY <1>4, <1>11, <2>2, <2>3 DEF Lost
<1>12. ASSUME NEW r \in Request, Apply(r) PROVE TypeOK'
    <2>1. applied[r] + 1 \in Nat
        BY <1>2 DEF FateTypes
    <2>2. abroad' \in [Request -> 0..1]
        BY <1>2, <1>12, AbroadTyped DEF Apply
    <2>3. applied' \in [Request -> Nat]
        BY <1>2, <1>12, <2>1, Changed DEF Apply, FateTypes
    <2>4. OwnTypes' /\ FateTypes'
        BY <1>2, <1>12, <2>2, <2>3 DEF Apply, OwnTypes, FateTypes
    <2> QED
        BY <1>4, <1>12, <2>4 DEF Apply
<1>13. CASE Tick
    <2>1. OwnTypes' /\ FateTypes'
        BY <1>2, <1>13 DEF Tick, OwnTypes, FateTypes
    <2>2. now' = now + 1 /\ updatedAt' = updatedAt /\ level' = level /\ apiRequestTimes' = apiRequestTimes
        BY <1>13 DEF Tick, bucket
    <2>3. now' \in Nat /\ updatedAt' \in 0..now' /\ level' \in 0..Full /\ apiRequestTimes' \in Seq(Nat)
        BY <1>1, <2>2
    <2> QED
        BY <2>1, <2>3 DEF TypeOK, OwnTypes, FateTypes, Label, Full
<1>14. CASE UNCHANGED vars
    BY <1>2, <1>4, <1>14 DEF vars, OwnTypes, FateTypes
<1> QED
    BY <1>6, <1>7, <1>8, <1>9, <1>10, <1>11, <1>12, <1>13, <1>14 DEF Next, Step

\* What SentOnce says of a write.
Once(w) ==
    /\ applied[w] + abroad[w] <= 1
    /\ pc[w] \in {"new", "waits", "backs off"} => applied[w] + abroad[w] = 0

\* Every step keeps a write from being sent twice: it is sent again only
\* after the reply that says it was not carried out.
LEMMA StepOnce ==
    ASSUME LInv, [Next]_vars
    PROVE  SentOnce'
<1> SUFFICES ASSUME NEW w \in Request \ Reads PROVE Once(w)'
    BY DEF SentOnce, Once
<1>1. Once(w)
    BY DEF LInv, SentOnce, Once
<1>2. OwnTypes /\ FateTypes /\ w \in Request /\ w \notin Reads
    BY TypeParts DEF LInv
<1>3. /\ DOMAIN pc = Request /\ DOMAIN abroad = Request /\ DOMAIN applied = Request
      /\ applied[w] \in Nat /\ abroad[w] \in 0..1
    BY <1>2 DEF OwnTypes, FateTypes
<1>4. ASSUME NEW r \in Request, NEW l, Goto(r, l)
      PROVE  pc'[w] = IF w = r THEN l ELSE pc[w]
    BY <1>2, <1>3, <1>4 DEF Goto
<1>5. ASSUME NEW r \in Request, Send(r) PROVE Once(w)'
    <2>1. pc[r] \in {"new", "waits", "backs off"} /\ pc'[w] = (IF w = r THEN "flies" ELSE pc[w])
        BY <1>4, <1>5 DEF Send, Asks
    <2>2. applied'[w] = applied[w] /\ abroad'[w] = IF w = r THEN 1 ELSE abroad[w]
        BY <1>2, <1>3, <1>5 DEF Send
    <2>3. CASE w = r
        <3>1. applied[w] + abroad[w] = 0
            BY <1>1, <2>1, <2>3 DEF Once
        <3>2. applied[w] = 0
            BY <1>3, <3>1
        <3>3. applied'[w] + abroad'[w] = 1
            BY <2>2, <2>3, <3>2
        <3>4. pc'[w] = "flies"
            BY <2>1, <2>3
        <3> QED
            BY <3>3, <3>4 DEF Once
    <2> QED
        BY <1>1, <2>1, <2>2, <2>3 DEF Once
<1>6. ASSUME NEW r \in Request, Wait(r) PROVE Once(w)'
    <2>1. pc[r] \in {"new", "waits", "backs off"} /\ pc'[w] = (IF w = r THEN "waits" ELSE pc[w])
        BY <1>4, <1>6 DEF Wait, Asks
    <2>2. applied' = applied /\ abroad' = abroad
        BY <1>6 DEF Wait
    <2> QED
        BY <1>1, <2>1, <2>2 DEF Once
<1>7. ASSUME NEW r \in Request, End(r), applied' = applied, abroad' = abroad PROVE Once(w)'
    <2>1. pc'[w] = (IF w = r THEN "ended" ELSE pc[w])
        BY <1>4, <1>7 DEF End
    <2> QED
        BY <1>1, <1>7, <2>1 DEF Once
<1>8. ASSUME NEW r \in Reads, NEW D, Retry(r, D), applied' = applied,
             abroad' = abroad \/ abroad' = [abroad EXCEPT ![r] = 0]
      PROVE  Once(w)'
    <2>1. r \in Request /\ w # r
        BY <1>2, LimiterAssumption
    <2>2. pc'[w] = pc[w]
        BY <1>4, <1>8, <2>1 DEF Retry, Retries, End
    <2>3. abroad'[w] = abroad[w]
        BY <1>2, <1>3, <1>8, <2>1
    <2> QED
        BY <1>1, <1>8, <2>2, <2>3 DEF Once
<1>9. ASSUME NEW r \in Request, Limited(r) PROVE Once(w)'
    <2>1. CASE r \in Reads
        BY <1>8, <1>9, <2>1 DEF Limited
    <2>2. CASE r \notin Reads
        <3>1. abroad[r] = 1 /\ abroad' = [abroad EXCEPT ![r] = 0] /\ applied' = applied
            BY <1>9, <2>2 DEF Limited
        <3>2. CASE w = r
            <4>1. applied[w] + abroad[w] <= 1
                BY <1>1 DEF Once
            <4>2. applied[w] = 0
                BY <1>3, <3>1, <3>2, <4>1
            <4>3. applied'[w] + abroad'[w] = 0
                BY <1>2, <1>3, <3>1, <3>2, <4>2
            <4>4. applied'[w] + abroad'[w] <= 1
                BY <4>3
            <4> QED
                BY <4>3, <4>4 DEF Once
        <3>3. CASE w # r
            <4>1. pc'[w] = pc[w]
                BY <1>4, <1>9, <3>3 DEF Limited, Retry, Retries, End
            <4>2. abroad'[w] = abroad[w] /\ applied'[w] = applied[w]
                BY <1>2, <1>3, <3>1, <3>3
            <4> QED
                BY <1>1, <4>1, <4>2 DEF Once
        <3> QED
            BY <3>2, <3>3
    <2> QED
        BY <2>1, <2>2
<1>10. ASSUME NEW r \in Request, Unavailable(r) PROVE Once(w)'
    BY <1>7, <1>8, <1>10 DEF Unavailable
<1>11. ASSUME NEW r \in Request, Lost(r) PROVE Once(w)'
    BY <1>7, <1>8, <1>11 DEF Lost
<1>12. ASSUME NEW r \in Request, Reply(r) PROVE Once(w)'
    BY <1>7, <1>12 DEF Reply
<1>13. ASSUME NEW r \in Request, Apply(r) PROVE Once(w)'
    <2>1. pc' = pc /\ abroad[r] = 1
        BY <1>13 DEF Apply
    <2>2. CASE w = r
        <3>1. abroad'[w] = 0 /\ applied'[w] = applied[w] + 1
            BY <1>2, <1>3, <1>13, <2>2 DEF Apply
        <3>2. applied'[w] + abroad'[w] = applied[w] + abroad[w]
            BY <1>3, <2>1, <2>2, <3>1
        <3> QED
            BY <1>1, <2>1, <3>2 DEF Once
    <2>3. CASE w # r
        <3>1. abroad'[w] = abroad[w] /\ applied'[w] = applied[w]
            BY <1>2, <1>3, <1>13, <2>3 DEF Apply
        <3> QED
            BY <1>1, <2>1, <3>1 DEF Once
    <2> QED
        BY <2>2, <2>3
<1>14. CASE Tick \/ UNCHANGED vars
    BY <1>1, <1>14 DEF Tick, vars, Once
<1> QED
    BY <1>5, <1>6, <1>9, <1>10, <1>11, <1>12, <1>13, <1>14 DEF Next, Step

-----------------------------------------------------------------------------
(* The theorems.                                                           *)

\* At first the bucket is full and nothing has been sent.
LEMMA InitHolds == Init => LInv
<1> SUFFICES ASSUME Init PROVE LInv
    OBVIOUS
<1>1. 0 \in 0..MaxRetries /\ 0 \in 0..MaxFaults /\ 0 \in 0..1 /\ 0 \in Nat
    BY LimiterAssumption
<1>2. OwnTypes
    BY <1>1, LimiterAssumption DEF Init, OwnTypes, Label
<1>3. FateTypes
    BY <1>1 DEF Init, FateTypes
<1>4. now \in Nat /\ updatedAt \in 0..now /\ level \in 0..Full /\ apiRequestTimes \in Seq(Nat)
    BY FullIsNat DEF Init
<1>5. TypeOK
    BY <1>2, <1>3, <1>4, TypeParts
<1>6. Paid /\ PaidBetween
    BY DEF Init, Paid, PaidBetween
<1>7. SentOnce
    <2> SUFFICES ASSUME NEW w \in Request \ Reads PROVE applied[w] + abroad[w] = 0 /\ applied[w] + abroad[w] <= 1
        BY DEF SentOnce
    <2>1. applied[w] = 0 /\ abroad[w] = 0
        BY DEF Init
    <2> QED
        BY <2>1
<1> QED
    BY <1>5, <1>6, <1>7 DEF LInv

\* And every step keeps what makes the limit hold.
LEMMA StepHolds == LInv /\ [Next]_vars => LInv'
<1> SUFFICES ASSUME LInv, [Next]_vars PROVE LInv'
    OBVIOUS
<1>1. Paid' /\ PaidBetween'
    <2>1. CASE UNCHANGED bucket
        BY <2>1, OthersPay
    <2>2. CASE \E r \in Request : Send(r)
        BY <2>2, SendIsPaid
    <2>3. CASE \E r \in Request : Wait(r)
        BY <2>3, WaitIsPaid
    <2>4. UNCHANGED bucket \/ (\E r \in Request : Send(r)) \/ (\E r \in Request : Wait(r))
        BY DEF Next, Step, Tick, Reply, Limited, Unavailable, Lost, Apply, vars
    <2> QED
        BY <2>1, <2>2, <2>3, <2>4
<1> QED
    BY <1>1, StepTyped, StepOnce DEF LInv

\* Every reachable state satisfies the invariant.
THEOREM LimiterInvariant == Spec => []LInv
BY InitHolds, StepHolds, PTL DEF Spec

\* An hour is the time between two of the requests.
LEMMA HourFollows == LInv => HourlyLimit
<1> SUFFICES ASSUME LInv, NEW i \in DOMAIN apiRequestTimes, NEW j \in DOMAIN apiRequestTimes,
                    i <= j, apiRequestTimes[j] - apiRequestTimes[i] <= Hour
             PROVE  (j - i + 1) * Refill <= Full + Hour
    BY DEF HourlyLimit
<1>1. apiRequestTimes \in Seq(Nat) /\ Full \in Nat /\ Refill \in Nat /\ Hour \in Nat
    BY BucketTypes, FullIsNat, LimiterAssumption DEF LInv
<1>2. (j - i + 1) * Refill <= Full + (apiRequestTimes[j] - apiRequestTimes[i])
    BY DEF LInv, PaidBetween
<1>3. i \in Int /\ j \in Int /\ apiRequestTimes[i] \in Nat /\ apiRequestTimes[j] \in Nat
    BY <1>1
<1>4. (j - i) + 1 = j - i + 1 /\ j - i \in Int /\ j - i + 1 \in Int
    BY <1>3
<1>5. (j - i + 1) * Refill = (j - i) * Refill + Refill /\ (j - i) * Refill \in Int
    BY <1>4, OneMore
<1> DEFINE w == (j - i + 1) * Refill
<1>6. w \in Int
    BY <1>1, <1>5
<1>7. w <= Full + (apiRequestTimes[j] - apiRequestTimes[i])
    BY <1>2
<1> HIDE DEF w
<1>8. w <= Full + Hour
    BY <1>1, <1>3, <1>6, <1>7
<1> QED
    BY <1>8 DEF w

\* Whatever the burst, the rate, the number of requests made at once and of
\* retries, no hour sees more requests than the bucket holds and gains.
THEOREM HourIsLimited == Spec => []HourlyLimit
BY HourFollows, LimiterInvariant, PTL

\* A write that was carried out once is not abroad any more.
LEMMA OnceFollows == LInv => AppliedAtMostOnce
<1> SUFFICES ASSUME LInv, NEW w \in Request \ Reads PROVE applied[w] <= 1
    BY DEF AppliedAtMostOnce
<1>1. applied[w] \in Nat /\ abroad[w] \in 0..1
    BY TypeParts DEF LInv, FateTypes
<1>2. applied[w] + abroad[w] <= 1
    BY DEF LInv, SentOnce
<1> QED
    BY <1>1, <1>2

\* A write is carried out at most once, whatever is retried, lost or late.
THEOREM WritesApplyOnce == Spec => []AppliedAtMostOnce
BY OnceFollows, LimiterInvariant, PTL

-----------------------------------------------------------------------------
(* The credential store.                                                     *)

\* A refresh is of a call for a token, and unless that has been answered its
\* call is the one that is served.
Attended ==
    \A c \in Call : Store!Waiting(c) =>
        Path(c) = "token" /\ (answer[c] = "none" => Store!Turn(c))

\* A record, as far as YNAB accepts refresh tokens up to v: its own is one of
\* them, and its expiry is too late by the time a reply took at most.
Right(s, v) ==
    /\ s.refresh <= v /\ (s # Store!Empty => s.refresh > 0)
    /\ s.expiresAt <= s.ends + Latency

\* YNAB knows every refresh token that is kept or on its way.
Counted ==
    /\ \A b \in Consent : valid[b] > 0 /\ Right(store[b], valid[b])
    /\ \A c \in Call : Store!Waiting(c) => sent[c].refresh > 0 /\ sent[c].refresh <= valid[Of(c)]

\* The record of the call that is served is the one it read, and once YNAB has
\* rotated its refresh token no other refresh on its way is granted.
Served(c) ==
    /\ store[Of(c)].refresh = sent[c].refresh
    /\ sent[c].state = "denied" => sent[c].refresh < valid[Of(c)]
    /\ sent[c].state = "rotated" =>
        /\ valid[Of(c)] = sent[c].refresh + 1
        /\ \A d \in Call : Of(d) = Of(c) /\ sent[d].state = "sent" => sent[d].refresh < valid[Of(c)]
AtHead == \A c \in Call : Store!Turn(c) /\ Store!Waiting(c) => Served(c)

\* Where no refresh has met a failure, one on its way is that of the call that
\* is served, and carries the token that YNAB accepts.
Unharmed ==
    \A c \in Call : Of(c) \notin harmed /\ Store!Waiting(c) =>
        /\ sent[c].state = "sent" => Store!Turn(c)
        /\ Store!Turn(c) /\ sent[c].state # "rotated" =>
               sent[c].state # "denied" /\ sent[c].refresh = valid[Of(c)]

\* The reply to the call that is served arrives in time.
Timely ==
    \A c \in Call : Store!Turn(c) /\ sent[c].state \in {"rotated", "kept"} =>
        now <= sent[c].at + Latency

StoreInv ==
    Store!TypeOK /\ Attended /\ Counted /\ AtHead /\ Unharmed /\ Timely /\ StillAuthorized

\* What is assumed of the constants.
LEMMA StoreConstants ==
    /\ \A c \in Call : Of(c) \in Consent
    /\ Life \in Nat /\ Window \in Nat /\ Latency \in Nat /\ MaxTime \in Nat /\ MaxFaults \in Nat
    /\ Latency <= Window /\ Latency < Life
BY AccessAssumption, LimiterAssumption

\* What the type invariant says of the queue.
LEMMA QueueFacts ==
    ASSUME Store!TypeOK
    PROVE  /\ queue \in Seq(Call) /\ Len(queue) \in Nat /\ DOMAIN queue = 1..Len(queue)
           /\ \A i, j \in 1..Len(queue) : queue[i] = queue[j] => i = j
           /\ \A c \in Call : Store!Turn(c) <=> Len(queue) > 0 /\ queue[1] = c
           /\ \A i \in 1..Len(queue) : queue[i] \in Call /\ answer[queue[i]] = "none"
<1>1. queue \in Seq(Call) /\ Len(queue) \in Nat /\ DOMAIN queue = 1..Len(queue)
    BY LenProperties DEF Store!TypeOK
<1>2. \A i, j \in 1..Len(queue) : queue[i] = queue[j] => i = j
    BY <1>1 DEF Store!TypeOK, Store!IsInjective
<1>3. \A c \in Call : Store!Turn(c) <=> Len(queue) > 0 /\ queue[1] = c
    BY <1>1 DEF Store!Turn
<1>4. ASSUME NEW i \in 1..Len(queue) PROVE queue[i] \in Call /\ answer[queue[i]] = "none"
    <2>1. queue[i] \in Call
        BY <1>1
    <2>2. Store!Contains(queue, queue[i])
        BY <1>1 DEF Store!Contains
    <2> QED
        BY <2>1, <2>2 DEF Store!TypeOK
<1> QED
    BY <1>1, <1>2, <1>3, <1>4

\* The queue is typed, by what it holds.
LEMMA QueueTyped ==
    ASSUME NEW q \in Seq(Call), NEW a \in [Call -> {"none", "done", "refused", "failed"}],
           \A i, j \in 1..Len(q) : q[i] = q[j] => i = j,
           \A i \in 1..Len(q) : a[q[i]] = "none"
    PROVE  /\ Store!IsInjective(q)
           /\ \A c \in Call : a[c] # "none" => ~Store!Contains(q, c)
<1>1. DOMAIN q = 1..Len(q)
    BY LenProperties
<1> QED
    BY <1>1 DEF Store!IsInjective, Store!Contains

\* An answered call leaves the head of the queue to the next one, whose turn
\* was not yet.
LEMMA Answered ==
    ASSUME Store!TypeOK, NEW c \in Call, Store!Turn(c),
           NEW a \in {"done", "refused", "failed"}, Store!Answer(c, a)
    PROVE  /\ queue' = Tail(queue)
           /\ queue' \in Seq(Call) /\ Store!IsInjective(queue')
           /\ answer' = [answer EXCEPT ![c] = a]
           /\ answer' \in [Call -> {"none", "done", "refused", "failed"}]
           /\ \A d \in Call : answer'[d] # "none" => ~Store!Contains(queue', d)
           /\ \A d \in Call : Store!Turn(d)' => d # c /\ ~Store!Turn(d) /\ answer[d] = "none"
<1>1. /\ queue \in Seq(Call) /\ Len(queue) \in Nat /\ DOMAIN queue = 1..Len(queue)
      /\ \A i, j \in 1..Len(queue) : queue[i] = queue[j] => i = j
      /\ Len(queue) > 0 /\ queue[1] = c
      /\ \A i \in 1..Len(queue) : queue[i] \in Call /\ answer[queue[i]] = "none"
      /\ \A d \in Call : Store!Turn(d) <=> Len(queue) > 0 /\ queue[1] = d
    BY QueueFacts
<1>2. queue # <<>>
    BY <1>1
<1>3. queue' = Tail(queue)
    <2>1. queue' = Store!RemoveAt(queue, 1)
        BY <1>1 DEF Store!Answer
    <2>2. queue' = SubSeq(queue, 1, 0) \o SubSeq(queue, 2, Len(queue))
        BY <2>1 DEF Store!RemoveAt
    <2>3. SubSeq(queue, 1, 0) = <<>>
        BY SubSeqEmpty
    <2>4. SubSeq(queue, 2, Len(queue)) = Tail(queue)
        BY <1>1, <1>2, TailIsSubSeq
    <2>5. Tail(queue) \in Seq(Call)
        BY <1>1, <1>2, HeadTailProperties
    <2> QED
        BY <2>2, <2>3, <2>4, <2>5, ConcatEmptySeq
<1>4. /\ queue' \in Seq(Call) /\ Len(queue') = Len(queue) - 1
      /\ \A i \in 1..Len(queue') : queue'[i] = queue[i + 1]
    BY <1>1, <1>2, <1>3, HeadTailProperties
<1>5. answer' = [answer EXCEPT ![c] = a] /\ answer' \in [Call -> {"none", "done", "refused", "failed"}]
    BY DEF Store!Answer, Store!TypeOK
<1>6. ASSUME NEW i \in 1..Len(queue')
      PROVE  /\ queue'[i] = queue[i + 1] /\ i + 1 \in 1..Len(queue) /\ queue'[i] # c
             /\ answer'[queue'[i]] = "none" /\ answer[queue'[i]] = "none"
    <2>1. queue'[i] = queue[i + 1] /\ i + 1 \in 1..Len(queue) /\ 1 \in 1..Len(queue) /\ i + 1 # 1
        BY <1>1, <1>4
    <2>2. queue[i + 1] # c
        BY <1>1, <2>1
    <2>3. queue[i + 1] \in Call /\ answer[queue[i + 1]] = "none"
        BY <1>1, <2>1
    <2>4. answer \in [Call -> {"none", "done", "refused", "failed"}]
        BY DEF Store!TypeOK
    <2> QED
        BY <1>5, <2>1, <2>2, <2>3, <2>4
<1>7. \A i, j \in 1..Len(queue') : queue'[i] = queue'[j] => i = j
    <2> SUFFICES ASSUME NEW i \in 1..Len(queue'), NEW j \in 1..Len(queue'), queue'[i] = queue'[j]
                 PROVE  i = j
        OBVIOUS
    <2> DEFINE p == i + 1
               q == j + 1
    <2>1. queue[p] = queue[q] /\ p \in 1..Len(queue) /\ q \in 1..Len(queue)
        BY <1>6
    <2>2. i \in Int /\ j \in Int /\ (p = q => i = j)
        BY <1>6
    <2>3. \A x, y \in 1..Len(queue) : queue[x] = queue[y] => x = y
        BY <1>1, Zenon
    <2> HIDE DEF p, q
    <2>4. p = q
        BY <2>1, <2>3, Zenon
    <2> QED
        BY <2>2, <2>4
<1>8. Store!IsInjective(queue') /\ \A d \in Call : answer'[d] # "none" => ~Store!Contains(queue', d)
    <2> DEFINE q == queue'
               b == answer'
    <2>1. q \in Seq(Call) /\ b \in [Call -> {"none", "done", "refused", "failed"}]
        BY <1>4, <1>5
    <2>2. \A i \in 1..Len(q) : b[q[i]] = "none"
        BY <1>6
    <2>3. \A i, j \in 1..Len(q) : q[i] = q[j] => i = j
        BY <1>7
    <2> HIDE DEF q, b
    <2>4. Store!IsInjective(q) /\ \A d \in Call : b[d] # "none" => ~Store!Contains(q, d)
        BY <2>1, <2>2, <2>3, QueueTyped, Zenon
    <2> QED
        BY <2>4 DEF q, b
<1>9. ASSUME NEW d \in Call, Store!Turn(d)'
      PROVE  d # c /\ ~Store!Turn(d) /\ answer[d] = "none"
    <2>1. queue' # <<>> /\ Head(queue') = d
        BY <1>9 DEF Store!Turn
    <2>2. 1 \in 1..Len(queue') /\ queue'[1] = d
        BY <1>4, <2>1
    <2>3. d # c /\ answer[d] = "none"
        BY <1>6, <2>2
    <2> QED
        BY <1>1, <2>3
<1> QED
    BY <1>3, <1>4, <1>5, <1>8, <1>9

\* Only one call is served at a time, and a refresh is of the one that is.
LEMMA OneIsServed ==
    ASSUME StoreInv, NEW c \in Call, Store!Turn(c)
    PROVE  /\ \A d \in Call : Store!Turn(d) => d = c
           /\ \A d \in Call : Store!Waiting(d) /\ answer[d] = "none" => d = c
           /\ answer[c] = "none" /\ Of(c) \in Consent
           /\ \A b \in Consent \ harmed :
                 store[b] = Store!Empty \/ store[b].refresh = valid[b] \/ (b = Of(c) /\ sent[c].state = "rotated")
<1>1. \A d \in Call : Store!Turn(d) => d = c
    BY DEF Store!Turn
<1>2. answer[c] = "none"
    BY QueueFacts DEF StoreInv
<1> QED
    BY <1>1, <1>2, StoreConstants DEF StoreInv, Attended, StillAuthorized, Store!StillAuthorized

\* When a call is answered and its record is right, all is as it should be: no
\* other call has a refresh that is waited for.
LEMMA AnswerKeeps ==
    ASSUME StoreInv, NEW c \in Call, Store!Turn(c),
           NEW a \in {"done", "refused", "failed"}, Store!Answer(c, a),
           UNCHANGED <<asks, sent, valid, now>>, generation' \in Nat, faults' \in 0..MaxFaults,
           harmed \subseteq harmed', harmed' \subseteq Consent,
           Of(c) \in harmed' \/ sent[c].state # "sent",
           store' \in [Consent -> Store!Records],
           \A b \in Consent : Right(store'[b], valid[b]),
           \A b \in Consent \ harmed' : store'[b] = Store!Empty \/ store'[b].refresh = valid[b]
    PROVE  StoreInv'
<1>1. Store!TypeOK /\ Attended /\ Counted /\ Unharmed
    BY DEF StoreInv
<1>2. /\ queue' \in Seq(Call) /\ Store!IsInjective(queue')
      /\ answer' = [answer EXCEPT ![c] = a]
      /\ answer' \in [Call -> {"none", "done", "refused", "failed"}]
      /\ \A d \in Call : answer'[d] # "none" => ~Store!Contains(queue', d)
      /\ \A d \in Call : Store!Turn(d)' => d # c /\ ~Store!Turn(d) /\ answer[d] = "none"
    BY <1>1, Answered
<1>3. Store!TypeOK'
    BY <1>1, <1>2 DEF Store!TypeOK
<1>4. ASSUME NEW d \in Call, Store!Waiting(d)'
      PROVE  Store!Waiting(d) /\ ~Store!Turn(d)' /\ answer'[d] # "none"
    <2>1. Store!Waiting(d)
        BY <1>4 DEF Store!Waiting
    <2>2. ~Store!Turn(d)'
        BY <1>2, <2>1, OneIsServed
    <2>3. answer'[d] # "none"
        BY <1>1, <1>2, <2>1, OneIsServed DEF Store!TypeOK
    <2> QED
        BY <2>1, <2>2, <2>3
<1>5. Attended'
    BY <1>1, <1>4 DEF Attended
<1>6. Counted'
    BY <1>1, <1>4 DEF Counted, Right
<1>7. AtHead'
    BY <1>4 DEF AtHead
<1>8. Unharmed'
    <2> SUFFICES ASSUME NEW d \in Call, (Of(d) \notin harmed)', Store!Waiting(d)'
                 PROVE  sent'[d].state # "sent"
        BY <1>4 DEF Unharmed
    <2>1. Store!Waiting(d) /\ Of(d) \notin harmed
        BY <1>4
    <2>2. sent[d].state = "sent" => Store!Turn(d)
        BY <1>1, <2>1 DEF Unharmed
    <2>3. Store!Turn(d) => d = c
        BY OneIsServed
    <2> QED
        BY <2>2, <2>3
<1>9. Timely'
    <2> SUFFICES ASSUME NEW d \in Call, Store!Turn(d)', sent'[d].state # "unsent" PROVE FALSE
        BY DEF Timely
    <2> QED
        BY <1>4 DEF Store!Waiting
<1>10. StillAuthorized'
    BY DEF StillAuthorized, Store!StillAuthorized, Store!Empty
<1> QED
    BY <1>3, <1>5, <1>6, <1>7, <1>8, <1>9, <1>10 DEF StoreInv

\* A record of no refresh token is right.
LEMMA EmptyIsRight ==
    ASSUME StoreInv, NEW b \in Consent
    PROVE  Store!Empty \in Store!Records /\ Right(Store!Empty, valid[b]) /\ valid[b] \in Nat /\ valid[b] > 0
<1>1. valid[b] \in Nat /\ valid[b] > 0
    BY DEF StoreInv, Counted, Store!TypeOK
<1> QED
    BY <1>1, StoreConstants DEF Store!Empty, Store!Records, Right

\* A creation keeps what is right.
LEMMA CreateKeeps ==
    ASSUME StoreInv, NEW c \in Call, Store!Create(c)
    PROVE  StoreInv'
<1>1. Store!Turn(c) /\ ~Store!Waiting(c)
    BY DEF Store!Create, Store!Serve
<1>2. /\ UNCHANGED <<asks, sent, valid, now, generation, faults, harmed>>
      /\ generation \in Nat /\ faults \in 0..MaxFaults /\ harmed \subseteq Consent
      /\ store \in [Consent -> Store!Records] /\ sent[c].state = "unsent" /\ now \in Nat
    BY <1>1, StoreConstants DEF Store!Create, Store!Calm, StoreInv, Store!TypeOK, Store!Waiting
<1>3. \A b \in Consent : Right(store[b], valid[b])
    BY DEF StoreInv, Counted
<1>4. \A b \in Consent \ harmed : store[b] = Store!Empty \/ store[b].refresh = valid[b]
    BY <1>1, <1>2, OneIsServed
<1>5. CASE store' = store /\ Store!Answer(c, "refused")
    BY <1>1, <1>2, <1>3, <1>4, <1>5, AnswerKeeps
<1>6. CASE store' # store \/ Store!Answer(c, "done")
    <2> DEFINE new == [refresh |-> valid[Of(c)], expiresAt |-> now + Life, ends |-> now + Life]
    <2>1. CASE Store!Creatable(c)
        <3>1. Of(c) \in Consent /\ valid[Of(c)] \in Nat /\ valid[Of(c)] > 0
            BY StoreConstants, EmptyIsRight
        <3>2. new \in Store!Records /\ Right(new, valid[Of(c)]) /\ new.refresh = valid[Of(c)]
            BY <1>2, <3>1, StoreConstants DEF Store!Records, Right
        <3>3. store' = [store EXCEPT ![Of(c)] = new] /\ Store!Answer(c, "done")
            BY <2>1 DEF Store!Create
        <3> HIDE DEF new
        <3>4. store' \in [Consent -> Store!Records]
            BY <1>2, <3>2, <3>3
        <3>5. \A b \in Consent : store'[b] = IF b = Of(c) THEN new ELSE store[b]
            BY <1>2, <3>3
        <3>6. \A b \in Consent : Right(store'[b], valid[b])
            BY <1>3, <3>2, <3>5
        <3>7. \A b \in Consent \ harmed' : store'[b] = Store!Empty \/ store'[b].refresh = valid[b]
            BY <1>2, <1>4, <3>2, <3>5
        <3> QED
            BY <1>1, <1>2, <3>3, <3>4, <3>6, <3>7, AnswerKeeps
    <2>2. CASE ~Store!Creatable(c)
        BY <1>1, <1>2, <1>3, <1>4, <2>2, AnswerKeeps DEF Store!Create
    <2> QED
        BY <2>1, <2>2
<1> QED
    BY <1>5, <1>6 DEF Store!Create

\* A deletion of everything does.
LEMMA DeleteAllKeeps ==
    ASSUME StoreInv, NEW c \in Call, Store!DeleteAll(c)
    PROVE  StoreInv'
<1>1. Store!Turn(c) /\ ~Store!Waiting(c) /\ Store!Answer(c, "done")
    BY DEF Store!DeleteAll, Store!Serve
<1>2. /\ UNCHANGED <<asks, sent, valid, now, faults, harmed>>
      /\ generation' \in Nat /\ faults \in 0..MaxFaults /\ harmed \subseteq Consent
      /\ store' = [b \in Consent |-> Store!Empty] /\ sent[c].state = "unsent"
    BY <1>1 DEF Store!DeleteAll, Store!Calm, StoreInv, Store!TypeOK, Store!Waiting
<1>3. \A b \in Consent : store'[b] = Store!Empty /\ Right(store'[b], valid[b])
    BY <1>2, EmptyIsRight
<1>4. store' \in [Consent -> Store!Records]
    BY <1>2, EmptyIsRight
<1> QED
    BY <1>1, <1>2, <1>3, <1>4, AnswerKeeps

\* So do the requests that need a record and find it fresh, or none.
LEMMA ExistsKeeps ==
    ASSUME StoreInv, NEW c \in Call, Store!Exists(c)
    PROVE  StoreInv'
<1>1. Store!Turn(c) /\ ~Store!Waiting(c)
    BY DEF Store!Exists, Store!Serve
<1>2. /\ UNCHANGED <<asks, sent, valid, now, generation, faults, harmed>>
      /\ generation \in Nat /\ faults \in 0..MaxFaults /\ harmed \subseteq Consent
      /\ store \in [Consent -> Store!Records] /\ sent[c].state = "unsent" /\ Of(c) \in Consent
    BY <1>1, StoreConstants DEF Store!Exists, Store!Calm, StoreInv, Store!TypeOK, Store!Waiting
<1>3. \A b \in Consent : Right(store[b], valid[b])
    BY DEF StoreInv, Counted
<1>4. \A b \in Consent \ harmed : store[b] = Store!Empty \/ store[b].refresh = valid[b]
    BY <1>1, <1>2, OneIsServed
<1>5. /\ Store!Answer(c, "refused") \/ Store!Answer(c, "done")
      /\ store' = store \/ store' = [store EXCEPT ![Of(c)] = Store!Empty]
    BY DEF Store!Exists
<1>6. store' \in [Consent -> Store!Records] /\ \A b \in Consent : store'[b] = store[b] \/ store'[b] = Store!Empty
    BY <1>2, <1>5, EmptyIsRight
<1>7. \A b \in Consent : Right(store'[b], valid[b])
    BY <1>3, <1>6, EmptyIsRight
<1>8. \A b \in Consent \ harmed' : store'[b] = Store!Empty \/ store'[b].refresh = valid[b]
    BY <1>2, <1>4, <1>6
<1> QED
    BY <1>1, <1>2, <1>5, <1>6, <1>7, <1>8, AnswerKeeps

\* And the reply to a refresh, granted or denied.
LEMMA ReceiveKeeps ==
    ASSUME StoreInv, NEW c \in Call, Store!Receive(c)
    PROVE  StoreInv'
<1>1. Store!Turn(c) /\ Store!Waiting(c) /\ sent[c].state \in {"rotated", "kept", "denied"}
    BY DEF Store!Receive, Store!Waiting
<1>2. /\ UNCHANGED <<asks, sent, valid, now, generation, faults, harmed>>
      /\ generation \in Nat /\ faults \in 0..MaxFaults /\ harmed \subseteq Consent
      /\ store \in [Consent -> Store!Records] /\ Of(c) \in Consent /\ now \in Nat
      /\ sent[c] \in Store!Refreshes
    BY StoreConstants DEF Store!Receive, Store!Calm, StoreInv, Store!TypeOK
<1>3. (\A b \in Consent : Right(store[b], valid[b])) /\ Served(c)
    BY <1>1 DEF StoreInv, Counted, AtHead
<1>4. \A b \in Consent \ harmed : store[b] = Store!Empty \/ store[b].refresh = valid[b] \/ (b = Of(c) /\ sent[c].state = "rotated")
    BY <1>1, OneIsServed
<1>5. CASE sent[c].state = "denied"
    BY <1>1, <1>2, <1>3, <1>4, <1>5, AnswerKeeps DEF Store!Receive
<1>6. CASE sent[c].state # "denied"
    <2>1. store' = [store EXCEPT ![Of(c)] = Store!Refreshed(c)] /\ Store!Answer(c, "done")
        BY <1>6 DEF Store!Receive
    <2>2. sent[c].refresh \in Nat /\ sent[c].at \in Nat /\ sent[c].refresh > 0
          /\ sent[c].refresh <= valid[Of(c)] /\ valid[Of(c)] \in Nat
        BY <1>1, <1>2, EmptyIsRight DEF Store!Refreshes, StoreInv, Counted
    <2>3. now <= sent[c].at + Latency
        BY <1>1, <1>6 DEF StoreInv, Timely
    <2>4. Store!Refreshed(c) \in Store!Records /\ Right(Store!Refreshed(c), valid[Of(c)])
        BY <1>2, <1>3, <2>2, <2>3, StoreConstants DEF Store!Refreshed, Store!Records, Right, Served
    <2>5. Of(c) \notin harmed => Store!Refreshed(c).refresh = valid[Of(c)]
        BY <1>1, <1>3, <1>6 DEF Store!Refreshed, Served, StoreInv, Unharmed
    <2>6. store' \in [Consent -> Store!Records]
          /\ \A b \in Consent : store'[b] = IF b = Of(c) THEN Store!Refreshed(c) ELSE store[b]
        BY <1>2, <2>1, <2>4
    <2>7. \A b \in Consent : Right(store'[b], valid[b])
        BY <1>3, <2>4, <2>6
    <2>8. \A b \in Consent \ harmed' : store'[b] = Store!Empty \/ store'[b].refresh = valid[b]
        BY <1>2, <1>4, <2>5, <2>6
    <2> QED
        BY <1>1, <1>2, <1>6, <2>1, <2>6, <2>7, <2>8, AnswerKeeps
<1> QED
    BY <1>5, <1>6

\* A failure of the call that is served: a refresh of its has come to harm.
LEMMA FailsKeeps ==
    ASSUME StoreInv, NEW c \in Call, Store!Fails(c)
    PROVE  StoreInv'
<1>1. Store!Turn(c) /\ Store!Answer(c, "failed") /\ UNCHANGED <<asks, sent, valid, now, generation, store>>
    BY DEF Store!Fails
<1>2. /\ generation \in Nat /\ faults \in 0..MaxFaults /\ harmed \subseteq Consent
      /\ store \in [Consent -> Store!Records] /\ Of(c) \in Consent
    BY StoreConstants DEF StoreInv, Store!TypeOK
<1>3. faults' \in 0..MaxFaults
    BY <1>2, StoreConstants DEF Store!Fails, Store!Fault
<1>4. harmed' = harmed \cup (IF Store!Waiting(c) THEN {Of(c)} ELSE {})
    BY DEF Store!Fails, Store!Refreshing
<1>5. harmed \subseteq harmed' /\ harmed' \subseteq Consent /\ (Of(c) \in harmed' \/ sent[c].state = "unsent")
    BY <1>2, <1>4 DEF Store!Waiting
<1>6. \A b \in Consent : Right(store[b], valid[b])
    BY DEF StoreInv, Counted
<1>7. \A b \in Consent \ harmed' : store[b] = Store!Empty \/ store[b].refresh = valid[b]
    BY <1>1, <1>5, OneIsServed
<1> QED
    BY <1>1, <1>2, <1>3, <1>5, <1>6, <1>7, AnswerKeeps

\* As long as it stays the turn of the calls with a refresh, what else happens
\* around the queue keeps what is right.
LEMMA SameTurns ==
    ASSUME StoreInv, Store!TypeOK', UNCHANGED <<store, answer, sent, valid, harmed, now>>,
           \A d \in Call : Store!Waiting(d) => (Store!Turn(d)' <=> Store!Turn(d))
    PROVE  StoreInv'
<1>1. \A d \in Call : Store!Waiting(d)' <=> Store!Waiting(d)
    BY DEF Store!Waiting
<1>2. \A d \in Call : sent[d].state # "unsent" => Store!Waiting(d)
    BY DEF Store!Waiting
<1>3. Attended' /\ Counted' /\ Unharmed'
    BY <1>1 DEF StoreInv, Attended, Counted, Unharmed, Right
<1>4. AtHead'
    BY <1>1 DEF StoreInv, AtHead, Served
<1>5. Timely' /\ StillAuthorized'
    BY <1>2 DEF StoreInv, Timely, StillAuthorized, Store!StillAuthorized, Store!Empty
<1> QED
    BY <1>3, <1>4, <1>5 DEF StoreInv

\* The preparation of a creation, and steps of others.
LEMMA PrepareKeeps ==
    ASSUME StoreInv, UNCHANGED <<store, generation, queue, answer, sent, valid, now, faults, harmed>>,
           asks' \in [Call -> Nat]
    PROVE  StoreInv'
<1>1. Store!TypeOK'
    BY DEF StoreInv, Store!TypeOK
<1>2. \A d \in Call : Store!Turn(d)' <=> Store!Turn(d)
    BY DEF Store!Turn
<1> QED
    BY <1>1, <1>2, SameTurns

\* A request that arrives takes no turn from one that waits for a refresh.
LEMMA ArriveTurns ==
    ASSUME StoreInv, NEW c \in Call, Store!Arrive(c)
    PROVE  /\ Store!TypeOK' /\ UNCHANGED <<store, answer, sent, valid, harmed, now, generation, asks>>
           /\ \A d \in Call : Store!Waiting(d) => (Store!Turn(d)' <=> Store!Turn(d))
<1>1. /\ queue \in Seq(Call) /\ Len(queue) \in Nat /\ DOMAIN queue = 1..Len(queue)
      /\ \A i, j \in 1..Len(queue) : queue[i] = queue[j] => i = j
      /\ \A d \in Call : Store!Turn(d) <=> Len(queue) > 0 /\ queue[1] = d
      /\ \A i \in 1..Len(queue) : queue[i] \in Call /\ answer[queue[i]] = "none"
    BY QueueFacts DEF StoreInv
<1>2. /\ queue' \in Seq(Call) /\ Len(queue') = Len(queue) + 1
      /\ \A i \in 1..Len(queue) : queue'[i] = queue[i]
      /\ queue'[Len(queue) + 1] = c
    BY <1>1, AppendProperties DEF Store!Arrive
<1>3. answer[c] = "none" /\ \A i \in 1..Len(queue) : queue[i] # c
    BY DEF Store!Arrive, Store!Contains
<1>4. UNCHANGED <<store, answer, sent, valid, harmed, now, generation, asks, faults>>
    BY DEF Store!Arrive, Store!Calm
<1>5. \A i \in 1..Len(queue') : IF i = Len(queue) + 1 THEN queue'[i] = c ELSE i \in 1..Len(queue) /\ queue'[i] = queue[i]
    BY <1>1, <1>2
<1>6. \A i, j \in 1..Len(queue') : queue'[i] = queue'[j] => i = j
    BY <1>1, <1>3, <1>5
<1>7. answer \in [Call -> {"none", "done", "refused", "failed"}] /\ \A i \in 1..Len(queue') : answer[queue'[i]] = "none"
    BY <1>1, <1>3, <1>5 DEF StoreInv, Store!TypeOK
<1>8. Store!IsInjective(queue') /\ \A d \in Call : answer[d] # "none" => ~Store!Contains(queue', d)
    BY <1>2, <1>6, <1>7, QueueTyped
<1>9. Store!TypeOK'
    BY <1>2, <1>4, <1>8 DEF StoreInv, Store!TypeOK
<1>10. ASSUME NEW d \in Call, Store!Waiting(d)
       PROVE  Store!Turn(d)' <=> Store!Turn(d)
    <2>1. Store!Turn(d)' <=> queue'[1] = d
        BY <1>1, <1>2 DEF Store!Turn
    <2>2. CASE Len(queue) > 0
        BY <1>1, <1>2, <2>1, <2>2
    <2>3. CASE Len(queue) = 0
        <3>1. answer[c] = "none" => ~Store!Waiting(c)
            BY <1>1, <2>3 DEF StoreInv, Attended
        <3>2. queue'[1] = c
            BY <1>2, <2>3
        <3> QED
            BY <1>1, <1>3, <1>10, <2>1, <2>3, <3>1, <3>2
    <2> QED
        BY <1>1, <2>2, <2>3
<1> QED
    BY <1>4, <1>9, <1>10

\* A request that arrives goes to the end of the queue.
LEMMA ArriveKeeps ==
    ASSUME StoreInv, NEW c \in Call, Store!Arrive(c)
    PROVE  StoreInv'
BY ArriveTurns, SameTurns

\* Time passes, but no longer than a reply may take.
LEMMA TickKeeps ==
    ASSUME StoreInv, Store!Tick
    PROVE  StoreInv'
<1>1. UNCHANGED <<store, generation, queue, asks, answer, sent, valid, faults, harmed>> /\ now' = now + 1
    BY DEF Store!Tick, Store!object, Store!Calm
<1>2. now \in 0..MaxTime /\ now < MaxTime /\ MaxTime \in Nat /\ sent \in [Call -> Store!Refreshes]
    BY StoreConstants DEF StoreInv, Store!TypeOK, Store!Tick
<1>3. now' \in 0..MaxTime
    BY <1>1, <1>2
<1>4. Store!TypeOK'
    BY <1>1, <1>3 DEF StoreInv, Store!TypeOK
<1>5. \A d \in Call : (Store!Turn(d)' <=> Store!Turn(d)) /\ (Store!Waiting(d)' <=> Store!Waiting(d))
    BY <1>1 DEF Store!Turn, Store!Waiting
<1>6. Attended' /\ Counted' /\ Unharmed'
    BY <1>1, <1>5 DEF StoreInv, Attended, Counted, Unharmed, Right
<1>7. AtHead'
    BY <1>1, <1>5 DEF StoreInv, AtHead, Served
<1>8. StillAuthorized'
    BY <1>1, <1>5 DEF StoreInv, StillAuthorized, Store!StillAuthorized, Store!Empty
<1>9. Timely'
    <2> SUFFICES ASSUME NEW d \in Call, Store!Turn(d), sent[d].state \in {"rotated", "kept"}
                 PROVE  now + 1 <= sent[d].at + Latency
        BY <1>1, <1>5 DEF Timely
    <2>1. now < sent[d].at + Latency /\ sent[d].at \in Nat
        BY <1>2 DEF Store!Tick, Store!Refreshes
    <2> QED
        BY <1>2, <2>1, StoreConstants
<1> QED
    BY <1>4, <1>6, <1>7, <1>8, <1>9 DEF StoreInv

\* The object restarts: all that wait have failed, with the refresh of one.
LEMMA RestartKeeps ==
    ASSUME StoreInv, Store!Restart
    PROVE  StoreInv'
<1>1. /\ queue \in Seq(Call) /\ Len(queue) \in Nat /\ DOMAIN queue = 1..Len(queue)
      /\ \A d \in Call : Store!Turn(d) <=> Len(queue) > 0 /\ queue[1] = d
      /\ \A i \in 1..Len(queue) : queue[i] \in Call
    BY QueueFacts DEF StoreInv
<1>2. /\ UNCHANGED <<store, generation, asks, sent, valid, now>> /\ queue' = <<>>
      /\ answer' = [d \in Call |-> IF Store!Contains(queue, d) THEN "failed" ELSE answer[d]]
      /\ harmed' = harmed \cup Store!Refreshing(Store!ToSet(queue))
    BY DEF Store!Restart
<1>3. harmed \subseteq harmed' /\ harmed' \subseteq Consent
    BY <1>1, <1>2, StoreConstants DEF StoreInv, Store!TypeOK, Store!Refreshing, Store!ToSet
<1>4. ASSUME NEW d \in Call, Store!Turn(d), Store!Waiting(d) PROVE Of(d) \in harmed'
    <2>1. d \in Store!ToSet(queue)
        BY <1>1, <1>4 DEF Store!ToSet
    <2> QED
        BY <1>2, <1>4, <2>1 DEF Store!Refreshing
<1>5. \A d \in Call : ~Store!Turn(d)' /\ (Store!Waiting(d)' <=> Store!Waiting(d))
    BY <1>2 DEF Store!Turn, Store!Waiting
<1>6. Store!TypeOK'
    <2>1. faults' \in 0..MaxFaults
        BY StoreConstants DEF StoreInv, Store!TypeOK, Store!Restart, Store!Fault
    <2>2. answer' \in [Call -> {"none", "done", "refused", "failed"}]
        BY <1>2 DEF StoreInv, Store!TypeOK
    <2>3. queue' \in Seq(Call) /\ \A i \in 1..Len(queue') : FALSE
        BY <1>2
    <2>4. Store!IsInjective(queue') /\ \A d \in Call : answer'[d] # "none" => ~Store!Contains(queue', d)
        BY <2>2, <2>3, QueueTyped
    <2> QED
        BY <1>2, <1>3, <2>1, <2>2, <2>3, <2>4 DEF StoreInv, Store!TypeOK
<1>7. Attended'
    <2> SUFFICES ASSUME NEW d \in Call, Store!Waiting(d)
                 PROVE  Path(d) = "token" /\ answer'[d] # "none"
        BY <1>5 DEF Attended
    <2>1. Path(d) = "token" /\ (answer[d] = "none" => Store!Turn(d))
        BY DEF StoreInv, Attended
    <2>2. Store!Turn(d) => Store!Contains(queue, d)
        BY <1>1 DEF Store!Contains
    <2> QED
        BY <1>2, <2>1, <2>2
<1>8. Counted'
    BY <1>2, <1>5 DEF StoreInv, Counted, Right
<1>9. AtHead'
    BY <1>5 DEF AtHead
<1>10. Unharmed'
    BY <1>2, <1>3, <1>4, <1>5 DEF StoreInv, Unharmed
<1>11. Timely'
    BY <1>5 DEF Timely
<1>12. StillAuthorized'
    BY <1>2, <1>3, <1>4 DEF StoreInv, StillAuthorized, Store!StillAuthorized, Store!Empty, Store!Waiting
<1> QED
    BY <1>6, <1>7, <1>8, <1>9, <1>10, <1>11, <1>12 DEF StoreInv

\* A refresh is sent: it carries what the record holds, and where none has come
\* to harm that is what YNAB accepts.
LEMMA SendKeeps ==
    ASSUME StoreInv, NEW c \in Call, Store!Send(c)
    PROVE  StoreInv'
<1>1. /\ Store!Turn(c) /\ ~Store!Waiting(c) /\ Path(c) = "token" /\ store[Of(c)] # Store!Empty
      /\ UNCHANGED <<store, generation, queue, asks, answer, valid, now, faults, harmed>>
    BY DEF Store!Send, Store!Serve, Store!object, Store!Calm, Store!Record
<1>2. /\ Of(c) \in Consent /\ store[Of(c)] \in Store!Records /\ now \in Nat
      /\ sent \in [Call -> Store!Refreshes]
    BY StoreConstants DEF StoreInv, Store!TypeOK
<1> DEFINE new == [state |-> "sent", refresh |-> store[Of(c)].refresh, at |-> now]
<1>3. new \in Store!Refreshes /\ new.state = "sent" /\ new.refresh = store[Of(c)].refresh
    BY <1>2 DEF Store!Refreshes, Store!Records
<1>4. sent' = [sent EXCEPT ![c] = new]
    BY DEF Store!Send, Store!Record
<1> HIDE DEF new
<1>5. sent' \in [Call -> Store!Refreshes] /\ \A d \in Call : sent'[d] = IF d = c THEN new ELSE sent[d]
    BY <1>2, <1>3, <1>4
<1>6. Store!TypeOK'
    BY <1>1, <1>5 DEF StoreInv, Store!TypeOK
<1>7. /\ \A d \in Call : Store!Turn(d)' <=> Store!Turn(d)
      /\ \A d \in Call : Store!Waiting(d)' <=> Store!Waiting(d) \/ d = c
      /\ \A d \in Call : Store!Turn(d) => d = c
    BY <1>1, <1>3, <1>5, OneIsServed DEF Store!Turn, Store!Waiting
<1>8. /\ store[Of(c)].refresh > 0 /\ store[Of(c)].refresh <= valid[Of(c)]
      /\ Of(c) \notin harmed => store[Of(c)].refresh = valid[Of(c)]
      /\ \A b \in Consent \ harmed : store[b] = Store!Empty \/ store[b].refresh = valid[b]
    BY <1>1, <1>2, OneIsServed DEF StoreInv, Counted, Right, Store!Waiting
<1>9. Attended'
    BY <1>1, <1>7 DEF StoreInv, Attended
<1>10. Counted'
    <2> SUFFICES ASSUME NEW d \in Call, Store!Waiting(d)'
                 PROVE  sent'[d].refresh > 0 /\ sent'[d].refresh <= valid[Of(d)]
        BY <1>1 DEF StoreInv, Counted, Right
    <2> QED
        BY <1>3, <1>5, <1>7, <1>8 DEF StoreInv, Counted
<1>11. AtHead'
    BY <1>1, <1>3, <1>5, <1>7 DEF AtHead, Served
<1>12. Unharmed'
    <2> SUFFICES ASSUME NEW d \in Call, Of(d) \notin harmed, Store!Waiting(d)'
                 PROVE  /\ sent'[d].state = "sent" => Store!Turn(d)
                        /\ Store!Turn(d) => sent'[d].state # "denied" /\ sent'[d].refresh = valid[Of(d)]
        BY <1>1, <1>7 DEF Unharmed
    <2>1. CASE d = c
        BY <1>1, <1>3, <1>5, <1>8, <2>1
    <2>2. CASE d # c
        BY <1>5, <1>7, <2>2 DEF StoreInv, Unharmed
    <2> QED
        BY <2>1, <2>2
<1>13. Timely'
    BY <1>3, <1>5, <1>7 DEF Timely
<1>14. StillAuthorized'
    BY <1>1, <1>8 DEF StillAuthorized, Store!StillAuthorized, Store!Empty
<1> QED
    BY <1>6, <1>9, <1>10, <1>11, <1>12, <1>13, <1>14 DEF StoreInv

\* YNAB's token endpoint answers a refresh, of the call that is served or of one
\* that nobody waits for any more.
LEMMA ExchangeKeeps ==
    ASSUME StoreInv, NEW c \in Call, Store!Exchange(c)
    PROVE  StoreInv'
<1>1. /\ sent[c].state = "sent" /\ Store!Waiting(c)
      /\ UNCHANGED <<store, generation, queue, asks, answer, now, faults, harmed>>
    BY DEF Store!Exchange, Store!object, Store!Calm, Store!Waiting
<1>2. /\ Of(c) \in Consent /\ valid \in [Consent -> Nat] /\ now \in Nat /\ store \in [Consent -> Store!Records]
      /\ sent \in [Call -> Store!Refreshes] /\ sent[c] \in Store!Refreshes /\ sent[c].refresh \in Nat
      /\ \A d \in Call : sent[d].refresh \in Nat /\ valid[Of(d)] \in Nat /\ Of(d) \in Consent
    BY StoreConstants DEF StoreInv, Store!TypeOK, Store!Refreshes
<1>3. PICK n \in Store!Refreshes :
        /\ sent' = [sent EXCEPT ![c] = n] /\ n.refresh = sent[c].refresh
        /\ \/ /\ n.state = "rotated" /\ n.at = now /\ n.refresh = valid[Of(c)]
              /\ valid' = [valid EXCEPT ![Of(c)] = valid[Of(c)] + 1]
           \/ n.state = "kept" /\ n.at = now /\ n.refresh = valid[Of(c)] /\ valid' = valid
           \/ n.state = "denied" /\ n.refresh # valid[Of(c)] /\ valid' = valid
    <2>1. CASE sent[c].refresh = valid[Of(c)] /\ valid' # valid
        <3>1. [sent[c] EXCEPT !.state = "rotated", !.at = now] \in Store!Refreshes
            BY <1>2 DEF Store!Refreshes
        <3> QED
            BY <1>2, <2>1, <3>1 DEF Store!Exchange, Store!Refreshes
    <2>2. CASE sent[c].refresh = valid[Of(c)] /\ valid' = valid
        <3>1. [sent[c] EXCEPT !.state = "kept", !.at = now] \in Store!Refreshes
            BY <1>2 DEF Store!Refreshes
        <3>2. valid' # [valid EXCEPT ![Of(c)] = valid[Of(c)] + 1]
            BY <1>2, <2>2
        <3> QED
            BY <1>2, <2>2, <3>1, <3>2 DEF Store!Exchange, Store!Refreshes
    <2>3. CASE sent[c].refresh # valid[Of(c)]
        <3>1. [sent[c] EXCEPT !.state = "denied"] \in Store!Refreshes
            BY <1>2 DEF Store!Refreshes
        <3> QED
            BY <1>2, <2>3, <3>1 DEF Store!Exchange, Store!Refreshes
    <2> QED
        BY <2>1, <2>2, <2>3
<1>4. /\ sent' \in [Call -> Store!Refreshes] /\ sent'[c] = n
      /\ \A d \in Call : d # c => sent'[d] = sent[d]
      /\ valid' \in [Consent -> Nat] /\ valid'[Of(c)] \in {valid[Of(c)], valid[Of(c)] + 1}
      /\ \A b \in Consent : b # Of(c) => valid'[b] = valid[b]
    BY <1>2, <1>3
<1>5. Store!TypeOK'
    BY <1>1, <1>4 DEF StoreInv, Store!TypeOK
<1>6. /\ \A d \in Call : Store!Turn(d)' <=> Store!Turn(d)
      /\ \A d \in Call : Store!Waiting(d)' <=> Store!Waiting(d)
      /\ \A d, e \in Call : Store!Turn(d) /\ Store!Turn(e) => d = e
    BY <1>1, <1>3, <1>4 DEF Store!Turn, Store!Waiting
<1>7. sent[c].refresh > 0 /\ sent[c].refresh <= valid[Of(c)]
    BY <1>1 DEF StoreInv, Counted
<1>8. Attended'
    BY <1>1, <1>6 DEF StoreInv, Attended
<1>9. Counted'
    <2>1. ASSUME NEW b \in Consent PROVE valid'[b] > 0 /\ Right(store[b], valid'[b])
        <3>1. valid[b] > 0 /\ Right(store[b], valid[b]) /\ valid[b] \in Nat /\ store[b].refresh \in Nat
            BY <1>2 DEF StoreInv, Counted, Store!Records
        <3> QED
            BY <1>4, <3>1 DEF Right
    <2>2. ASSUME NEW d \in Call, Store!Waiting(d)
          PROVE  sent'[d].refresh > 0 /\ sent'[d].refresh <= valid'[Of(d)]
        <3>1. sent'[d].refresh = sent[d].refresh
            BY <1>3, <1>4
        <3>2. sent[d].refresh > 0 /\ sent[d].refresh <= valid[Of(d)]
            BY <2>2 DEF StoreInv, Counted
        <3> QED
            BY <1>2, <1>4, <3>1, <3>2
    <2> QED
        BY <1>1, <1>6, <2>1, <2>2 DEF Counted, Right
<1>10. ASSUME NEW d \in Call, sent'[d].state = "sent"
       PROVE  d # c /\ sent[d].state = "sent" /\ sent'[d].refresh = sent[d].refresh /\ Store!Waiting(d)
    BY <1>3, <1>4, <1>10 DEF Store!Waiting
<1>11. AtHead'
    <2> SUFFICES ASSUME NEW h \in Call, Store!Turn(h), Store!Waiting(h)
                 PROVE  Served(h)'
        BY <1>6 DEF AtHead
    <2>1. Served(h)
        BY DEF StoreInv, AtHead
    <2>2. CASE h = c
        <3>1. store'[Of(c)].refresh = n.refresh /\ sent'[c].refresh = n.refresh
            BY <1>1, <1>3, <1>4, <2>1, <2>2 DEF Served
        <3>2. n.state = "denied" => n.refresh < valid'[Of(c)]
            BY <1>2, <1>3, <1>7
        <3>3. ASSUME n.state = "rotated"
              PROVE  /\ valid'[Of(c)] = n.refresh + 1
                     /\ \A d \in Call : Of(d) = Of(c) /\ sent'[d].state = "sent" => sent'[d].refresh < valid'[Of(c)]
            <4>1. valid'[Of(c)] = n.refresh + 1 /\ n.refresh = valid[Of(c)]
                BY <1>2, <1>3, <3>3
            <4>2. ASSUME NEW d \in Call, Of(d) = Of(c), sent'[d].state = "sent"
                  PROVE  sent'[d].refresh < valid'[Of(c)]
                <5>1. sent'[d].refresh = sent[d].refresh /\ sent[d].refresh <= valid[Of(c)] /\ sent[d].refresh \in Nat
                    BY <1>2, <1>10, <4>2 DEF StoreInv, Counted
                <5> QED
                    BY <1>2, <4>1, <5>1
            <4> QED
                BY <4>1, <4>2
        <3> QED
            BY <1>4, <2>2, <3>1, <3>2, <3>3 DEF Served
    <2>3. CASE h # c /\ Of(h) = Of(c)
        <3>1. sent'[h] = sent[h] /\ store'[Of(h)].refresh = sent[h].refresh
            BY <1>1, <1>4, <2>1, <2>3 DEF Served
        <3>2. sent[h].state = "denied" => sent[h].refresh < valid'[Of(h)]
            BY <1>2, <1>4, <2>1, <2>3 DEF Served
        <3>3. ASSUME sent[h].state = "rotated"
              PROVE  valid' = valid
            <4>1. sent[c].refresh < valid[Of(c)]
                BY <1>1, <2>1, <2>3, <3>3 DEF Served
            <4> QED
                BY <1>2, <1>3, <4>1
        <3> QED
            BY <1>10, <2>1, <3>1, <3>2, <3>3 DEF Served
    <2>4. CASE h # c /\ Of(h) # Of(c)
        <3>1. sent'[h] = sent[h] /\ valid'[Of(h)] = valid[Of(h)] /\ store' = store
            BY <1>1, <1>2, <1>4, <2>4
        <3> QED
            BY <1>10, <2>1, <3>1 DEF Served
    <2> QED
        BY <2>2, <2>3, <2>4
<1>12. Unharmed'
    <2> SUFFICES ASSUME NEW d \in Call, Of(d) \notin harmed, Store!Waiting(d)
                 PROVE  /\ sent'[d].state = "sent" => Store!Turn(d)
                        /\ Store!Turn(d) /\ sent'[d].state # "rotated" =>
                               sent'[d].state # "denied" /\ sent'[d].refresh = valid'[Of(d)]
        BY <1>1, <1>6 DEF Unharmed
    <2>1. /\ sent[d].state = "sent" => Store!Turn(d)
          /\ Store!Turn(d) /\ sent[d].state # "rotated" =>
                 sent[d].state # "denied" /\ sent[d].refresh = valid[Of(d)]
        BY DEF StoreInv, Unharmed
    <2>2. CASE d = c
        BY <1>1, <1>3, <1>4, <2>1, <2>2
    <2>3. CASE d # c /\ Of(d) = Of(c)
        <3>1. Store!Turn(c)
            BY <1>1, <2>3 DEF StoreInv, Unharmed
        <3> QED
            BY <1>4, <1>6, <2>1, <2>3, <3>1
    <2>4. CASE d # c /\ Of(d) # Of(c)
        BY <1>2, <1>4, <2>1, <2>4
    <2> QED
        BY <2>2, <2>3, <2>4
<1>13. Timely'
    <2> SUFFICES ASSUME NEW d \in Call, Store!Turn(d), sent'[d].state \in {"rotated", "kept"}
                 PROVE  now <= sent'[d].at + Latency
        BY <1>1, <1>6 DEF Timely
    <2>1. CASE d = c
        BY <1>2, <1>3, <1>4, <2>1, StoreConstants
    <2>2. CASE d # c
        BY <1>4, <2>2 DEF StoreInv, Timely
    <2> QED
        BY <2>1, <2>2
<1>14. StillAuthorized'
    <2> SUFFICES ASSUME NEW b \in Consent \ harmed
                 PROVE  \/ store[b] = Store!Empty \/ store[b].refresh = valid'[b]
                        \/ \E d \in Call : Of(d) = b /\ Store!Turn(d) /\ sent'[d].state = "rotated"
        BY <1>1, <1>6 DEF StillAuthorized, Store!StillAuthorized, Store!Empty
    <2>1. \/ store[b] = Store!Empty \/ store[b].refresh = valid[b]
          \/ \E d \in Call : Of(d) = b /\ Store!Turn(d) /\ sent[d].state = "rotated"
        BY DEF StoreInv, StillAuthorized, Store!StillAuthorized
    <2>2. CASE b = Of(c)
        <3>1. Store!Turn(c)
            BY <1>1, <2>2 DEF StoreInv, Unharmed
        <3>2. ~\E d \in Call : Of(d) = b /\ Store!Turn(d) /\ sent[d].state = "rotated"
            BY <1>1, <1>6, <3>1
        <3>3. valid' = valid \/ n.state = "rotated"
            BY <1>3
        <3> QED
            BY <1>4, <2>1, <2>2, <3>1, <3>2, <3>3
    <2>3. CASE b # Of(c)
        BY <1>4, <2>1, <2>3
    <2> QED
        BY <2>2, <2>3
<1> QED
    BY <1>5, <1>8, <1>9, <1>11, <1>12, <1>13, <1>14 DEF StoreInv

\* At first no call is waited for.
LEMMA StoreInit == Store!Init => StoreInv
<1> SUFFICES ASSUME Store!Init PROVE StoreInv
    OBVIOUS
<1>1. /\ generation = 0 /\ queue = <<>> /\ asks = [c \in Call |-> 0]
      /\ answer = [c \in Call |-> "none"] /\ sent = [c \in Call |-> Store!NotSent]
      /\ valid = [b \in Consent |-> 1] /\ now = 0 /\ faults = 0 /\ harmed = {}
      /\ store \in [Consent -> {Store!Empty, [refresh |-> 1, expiresAt |-> 0, ends |-> 0]}]
    BY DEF Store!Init
<1>2. /\ Store!NotSent \in Store!Refreshes /\ Store!NotSent.state = "unsent"
      /\ {Store!Empty, [refresh |-> 1, expiresAt |-> 0, ends |-> 0]} \subseteq Store!Records
    BY DEF Store!NotSent, Store!Refreshes, Store!Empty, Store!Records
<1>3. queue \in Seq(Call) /\ \A i \in 1..Len(queue) : FALSE
    BY <1>1
<1>4. answer \in [Call -> {"none", "done", "refused", "failed"}]
    BY <1>1
<1>5. Store!IsInjective(queue) /\ \A c \in Call : answer[c] # "none" => ~Store!Contains(queue, c)
    BY <1>3, <1>4, QueueTyped
<1>6. Store!TypeOK
    BY <1>1, <1>2, <1>3, <1>4, <1>5, StoreConstants DEF Store!TypeOK
<1>7. \A c \in Call : ~Store!Waiting(c) /\ sent[c].state = "unsent"
    BY <1>1, <1>2 DEF Store!Waiting
<1>8. \A b \in Consent : valid[b] = 1 /\ Right(store[b], valid[b]) /\ (store[b] = Store!Empty \/ store[b].refresh = valid[b])
    BY <1>1, StoreConstants DEF Right, Store!Empty
<1>9. Counted /\ StillAuthorized
    BY <1>7, <1>8 DEF Counted, StillAuthorized, Store!StillAuthorized
<1>10. Attended /\ AtHead /\ Unharmed /\ Timely
    BY <1>7 DEF Attended, AtHead, Unharmed, Timely
<1> QED
    BY <1>6, <1>9, <1>10 DEF StoreInv

\* Every step keeps what is right.
LEMMA StoreStep == StoreInv /\ [Store!Next]_Store!vars => StoreInv'
<1> SUFFICES ASSUME StoreInv, [Store!Next]_Store!vars PROVE StoreInv'
    OBVIOUS
<1>1. ASSUME NEW c \in Call, Store!Prepare(c) PROVE StoreInv'
    <2>1. asks' \in [Call -> Nat]
        BY <1>1 DEF Store!Prepare, StoreInv, Store!TypeOK
    <2> QED
        BY <1>1, <2>1, PrepareKeeps DEF Store!Prepare, Store!Calm
<1>2. CASE UNCHANGED Store!vars
    <2>1. asks' \in [Call -> Nat]
        BY <1>2 DEF StoreInv, Store!TypeOK, Store!vars, Store!object
    <2> QED
        BY <1>2, <2>1, PrepareKeeps DEF Store!vars, Store!object
<1> QED
    BY <1>1, <1>2, ArriveKeeps, CreateKeeps, DeleteAllKeeps, ExistsKeeps, SendKeeps, ReceiveKeeps,
       ExchangeKeeps, FailsKeeps, RestartKeeps, TickKeeps DEF Store!Next, Store!Handle

\* Every reachable state of the credential store satisfies the invariant.
THEOREM StoreInvariance == Store!Spec => []StoreInv
BY StoreInit, StoreStep, PTL DEF Store!Spec

\* Whatever sessions, removals and restarts do at the same time, a consent whose
\* refreshes met no failure keeps the refresh token that YNAB accepts.
THEOREM StaysAuthorized == Store!Spec => []StillAuthorized
<1>1. StoreInv => StillAuthorized
    BY DEF StoreInv
<1> QED
    BY <1>1, StoreInvariance, PTL

\* A token is given while it is fresh, or as it arrives.
LEMMA GivenAlive ==
    ASSUME StoreInv, [Store!Next]_Store!vars, NEW c \in Call,
           Path(c) = "token", answer[c] = "none", answer'[c] = "done"
    PROVE  now < store'[Of(c)].ends
<1>1. /\ Of(c) \in Consent /\ now \in Nat /\ DOMAIN answer = Call
      /\ store \in [Consent -> Store!Records] /\ sent[c] \in Store!Refreshes
    BY StoreConstants DEF StoreInv, Store!TypeOK
<1>2. ASSUME NEW d \in Call, NEW a, Store!Answer(d, a) PROVE d = c /\ a = "done"
    BY <1>1, <1>2 DEF Store!Answer
<1>3. CASE Store!Exists(c)
    <2>1. Store!Fresh(c) /\ store' = store
        BY <1>2, <1>3 DEF Store!Exists
    <2>2. now + Window < store[Of(c)].expiresAt
        BY <2>1 DEF Store!Fresh, Store!Record
    <2>3. /\ store[Of(c)].expiresAt <= store[Of(c)].ends + Latency
          /\ store[Of(c)].expiresAt \in Nat /\ store[Of(c)].ends \in Nat
        BY <1>1 DEF StoreInv, Counted, Right, Store!Records
    <2> QED
        BY <1>1, <2>1, <2>2, <2>3, StoreConstants
<1>4. CASE Store!Receive(c)
    <2>1. sent[c].state # "denied" /\ store' = [store EXCEPT ![Of(c)] = Store!Refreshed(c)]
        BY <1>2, <1>4 DEF Store!Receive
    <2>2. store'[Of(c)].ends = sent[c].at + Life
        BY <1>1, <2>1 DEF Store!Refreshed
    <2>3. now <= sent[c].at + Latency /\ sent[c].at \in Nat
        BY <1>1, <1>4, <2>1 DEF StoreInv, Timely, Store!Receive, Store!Refreshes
    <2> QED
        BY <1>1, <2>2, <2>3, StoreConstants
<1>5. answer' # answer
    OBVIOUS
<1>6. ASSUME NEW d \in Call, Store!Create(d) \/ Store!DeleteAll(d) \/ Store!Fails(d) PROVE FALSE
    BY <1>2, <1>6 DEF Store!Create, Store!DeleteAll, Store!Fails
<1>7. ASSUME NEW d \in Call, Store!Exists(d) \/ Store!Receive(d) PROVE d = c
    BY <1>2, <1>7 DEF Store!Exists, Store!Receive
<1>8. ~Store!Restart
    BY DEF Store!Restart
<1>9. ASSUME NEW d \in Call, Store!Prepare(d) \/ Store!Arrive(d) \/ Store!Send(d) \/ Store!Exchange(d) PROVE FALSE
    BY <1>5, <1>9 DEF Store!Prepare, Store!Arrive, Store!Send, Store!Exchange, Store!object
<1>10. ~Store!Tick /\ ~UNCHANGED Store!vars
    BY <1>5 DEF Store!Tick, Store!vars, Store!object
<1> QED
    BY <1>3, <1>4, <1>6, <1>7, <1>8, <1>9, <1>10 DEF Store!Next, Store!Handle

\* The access token a session is given has not expired, as long as no reply
\* takes longer than the safety window.
THEOREM TokensAreAlive == Store!Spec => TokenIsAlive
<1>1. ASSUME StoreInv, [Store!Next]_Store!vars
      PROVE  [\A c \in Call : Path(c) = "token" /\ answer[c] = "none" /\ answer'[c] = "done" =>
                  now < store'[Of(c)].ends]_Store!vars
    BY <1>1, GivenAlive
<1> QED
    BY <1>1, StoreInvariance, PTL DEF Store!Spec, TokenIsAlive, Store!TokenIsAlive

-----------------------------------------------------------------------------
(* The store carries out each request at once.                               *)

\* What is stored and what counts as accepted, seen from the call that is
\* served.
LEMMA SeenFromServed ==
    ASSUME StoreInv, NEW c \in Call, Store!Turn(c)
    PROVE  /\ \A b \in Consent : Store!Accepted[b] =
                 IF b = Of(c) /\ sent[c].state = "rotated" THEN valid[b] - 1 ELSE valid[b]
           /\ sent[c].state # "rotated" => Store!Accepted = valid
<1>1. \A d \in Call : Store!Turn(d) <=> d = c
    BY OneIsServed
<1>2. \A b \in Consent : Store!Accepted[b] =
                 IF b = Of(c) /\ sent[c].state = "rotated" THEN valid[b] - 1 ELSE valid[b]
    BY <1>1 DEF Store!Accepted
<1>3. ASSUME sent[c].state # "rotated" PROVE Store!Accepted = valid
    <2>1. \A b \in Consent : Store!Accepted[b] = valid[b]
        BY <1>2, <1>3
    <2> QED
        BY <2>1 DEF Store!Accepted, StoreInv, Store!TypeOK
<1> QED
    BY <1>2, <1>3

\* After an answer nothing is pending.
LEMMA PendingAfterAnswer ==
    ASSUME StoreInv, StoreInv', NEW c \in Call, Store!Turn(c), sent' = sent,
           NEW a \in {"done", "refused", "failed"}, Store!Answer(c, a)
    PROVE  /\ Store!Accepted' = valid' /\ answer[c] = "none"
           /\ answer' = [answer EXCEPT ![c] = a]
<1>1. \A d \in Call : Store!Turn(d)' => d # c /\ ~Store!Turn(d) /\ answer[d] = "none"
    BY Answered DEF StoreInv
<1>2. \A d \in Call : Store!Turn(d)' => sent'[d].state # "rotated"
    BY <1>1, OneIsServed DEF Store!Waiting
<1>3. Store!Accepted' = valid'
    <2>1. \A b \in Consent : (Store!Accepted')[b] = valid'[b]
        BY <1>2 DEF Store!Accepted
    <2> QED
        BY <2>1 DEF Store!Accepted, StoreInv, Store!TypeOK
<1> QED
    BY <1>3, OneIsServed DEF Store!Answer

\* What is stored changes as the record does.
LEMMA StoredChanges ==
    ASSUME StoreInv
    PROVE  /\ store' = store => Store!Stored' = Store!Stored
           /\ \A b \in Consent : Store!Stored[b] = store[b].refresh
           /\ \A b \in Consent : store[b] # Store!Empty => Store!Stored[b] > 0 /\ Store!Stored[b] # 0
           /\ \A b \in Consent : store[b] = Store!Empty => Store!Stored[b] = 0
           /\ \A b \in Consent, s \in Store!Records :
                  store' = [store EXCEPT ![b] = s] => Store!Stored' = [Store!Stored EXCEPT ![b] = s.refresh]
<1>1. store' = store => Store!Stored' = Store!Stored
    BY DEF Store!Stored
<1>2. store \in [Consent -> Store!Records]
    BY DEF StoreInv, Store!TypeOK
<1>3. \A b \in Consent : Store!Stored[b] = store[b].refresh /\ store[b].refresh \in Nat
    BY <1>2 DEF Store!Stored, Store!Records
<1>4. ASSUME NEW b \in Consent
      PROVE  /\ store[b] # Store!Empty => Store!Stored[b] > 0 /\ Store!Stored[b] # 0
             /\ store[b] = Store!Empty => Store!Stored[b] = 0
    BY <1>3 DEF StoreInv, Counted, Right, Store!Empty
<1>5. ASSUME NEW b \in Consent, NEW s \in Store!Records, store' = [store EXCEPT ![b] = s]
      PROVE  Store!Stored' = [Store!Stored EXCEPT ![b] = s.refresh]
    <2>1. \A d \in Consent : store'[d].refresh = IF d = b THEN s.refresh ELSE store[d].refresh
        BY <1>2, <1>5
    <2> QED
        BY <2>1 DEF Store!Stored
<1> QED
    BY <1>1, <1>3, <1>4, <1>5

\* A step of the abstract store.
AtomicStep == [Store!Atomic!Next]_(Store!Atomic!vars)

\* Creating a record reads and puts the store in one step of the queue.
LEMMA CreateIsAtomic ==
    ASSUME StoreInv, StoreInv', NEW c \in Call, Store!Create(c)
    PROVE  AtomicStep
<1>1. /\ Store!Turn(c) /\ ~Store!Waiting(c) /\ Path(c) = "create"
      /\ UNCHANGED <<generation, asks, sent, valid>> /\ Of(c) \in Consent /\ sent[c].state = "unsent"
    BY StoreConstants DEF Store!Create, Store!Serve, Store!Waiting
<1>2. Store!Accepted = valid
    BY <1>1, SeenFromServed
<1>3. CASE Store!Creatable(c)
    <2>1. Store!Answer(c, "done") /\ store' = [store EXCEPT ![Of(c)] =
                    [refresh |-> valid[Of(c)], expiresAt |-> now + Life, ends |-> now + Life]]
        BY <1>3 DEF Store!Create
    <2>2. [refresh |-> valid[Of(c)], expiresAt |-> now + Life, ends |-> now + Life] \in Store!Records
        BY <1>1, StoreConstants DEF StoreInv, Store!TypeOK, Store!Records
    <2>3. Store!Stored' = [Store!Stored EXCEPT ![Of(c)] = Store!Accepted[Of(c)]]
        BY <1>1, <1>2, <2>1, <2>2, StoredChanges
    <2>4. asks[c] = generation /\ Store!Stored[Of(c)] = Store!Atomic!Empty
        BY <1>1, <1>3, StoredChanges DEF Store!Creatable, Store!Record, Store!Atomic!Empty
    <2>5. Store!Accepted' = Store!Accepted /\ answer[c] = "none" /\ answer' = [answer EXCEPT ![c] = "done"]
        BY <1>1, <1>2, <2>1, PendingAfterAnswer
    <2>6. Store!Atomic!Create(c)
        BY <1>1, <2>3, <2>4, <2>5 DEF Store!Atomic!Create, Store!Atomic!Tell
    <2> QED
        BY <2>6 DEF AtomicStep, Store!Atomic!Next
<1>4. CASE ~Store!Creatable(c)
    <2>1. Store!Answer(c, "refused") /\ store' = store
        BY <1>4 DEF Store!Create
    <2>2. asks[c] # generation \/ Store!Stored[Of(c)] # Store!Atomic!Empty
        BY <1>1, <1>4, StoredChanges DEF Store!Creatable, Store!Record, Store!Atomic!Empty
    <2>3. Store!Accepted' = Store!Accepted /\ answer[c] = "none" /\ answer' = [answer EXCEPT ![c] = "refused"]
        BY <1>1, <1>2, <2>1, PendingAfterAnswer
    <2>4. Store!Stored' = Store!Stored
        BY <2>1, StoredChanges
    <2>5. Store!Atomic!Refuse(c)
        BY <1>1, <2>2, <2>3, <2>4 DEF Store!Atomic!Refuse, Store!Atomic!Tell
    <2> QED
        BY <2>5 DEF AtomicStep, Store!Atomic!Next
<1> QED
    BY <1>3, <1>4

\* Deleting everything empties every record and raises the generation in one step.
LEMMA DeleteAllIsAtomic ==
    ASSUME StoreInv, StoreInv', NEW c \in Call, Store!DeleteAll(c)
    PROVE  AtomicStep
<1>1. /\ Store!Turn(c) /\ ~Store!Waiting(c) /\ Path(c) = "delete-all" /\ Store!Answer(c, "done")
      /\ UNCHANGED <<asks, sent, valid>> /\ sent[c].state = "unsent"
      /\ store' = [b \in Consent |-> Store!Empty] /\ generation' = generation + 1
    BY DEF Store!DeleteAll, Store!Serve, Store!Waiting
<1>2. Store!Accepted' = Store!Accepted /\ answer[c] = "none" /\ answer' = [answer EXCEPT ![c] = "done"]
    BY <1>1, SeenFromServed, PendingAfterAnswer
<1>3. Store!Stored' = [b \in Consent |-> Store!Atomic!Empty]
    BY <1>1 DEF Store!Stored, Store!Empty, Store!Atomic!Empty
<1>4. Store!Atomic!DeleteAll(c)
    BY <1>1, <1>2, <1>3 DEF Store!Atomic!DeleteAll, Store!Atomic!Tell
<1> QED
    BY <1>4 DEF AtomicStep, Store!Atomic!Next

\* exists, remove and a token read that needs no refresh answer from the store as it is.
LEMMA ExistsIsAtomic ==
    ASSUME StoreInv, StoreInv', NEW c \in Call, Store!Exists(c)
    PROVE  AtomicStep
<1>1. /\ Store!Turn(c) /\ ~Store!Waiting(c) /\ Path(c) \in {"exists", "remove", "token"}
      /\ UNCHANGED <<generation, asks, sent, valid>> /\ Of(c) \in Consent /\ sent[c].state = "unsent"
    BY StoreConstants DEF Store!Exists, Store!Serve, Store!Waiting
<1>2. Store!Accepted = valid
    BY <1>1, SeenFromServed
<1>3. ASSUME NEW a \in {"done", "refused", "failed"}, Store!Answer(c, a)
      PROVE  Store!Accepted' = Store!Accepted /\ answer[c] = "none" /\ answer' = [answer EXCEPT ![c] = a]
    BY <1>1, <1>2, <1>3, PendingAfterAnswer
<1>4. CASE store[Of(c)] = Store!Empty
    <2>1. Store!Answer(c, "refused") /\ store' = store
        BY <1>4 DEF Store!Exists, Store!Record
    <2>2. Store!Stored[Of(c)] = Store!Atomic!Empty /\ Store!Stored[Of(c)] # Store!Accepted[Of(c)]
        BY <1>1, <1>2, <1>4, StoredChanges, EmptyIsRight DEF Store!Atomic!Empty
    <2>3. Store!Stored' = Store!Stored
        BY <2>1, StoredChanges
    <2>4. Store!Atomic!Refuse(c)
        BY <1>1, <1>3, <2>1, <2>2, <2>3 DEF Store!Atomic!Refuse, Store!Atomic!Tell
    <2> QED
        BY <2>4 DEF AtomicStep, Store!Atomic!Next
<1>5. CASE store[Of(c)] # Store!Empty
    <2>1. /\ Store!Answer(c, "done")
          /\ store' = IF Path(c) = "remove" THEN [store EXCEPT ![Of(c)] = Store!Empty] ELSE store
        BY <1>5 DEF Store!Exists, Store!Record
    <2>2. Store!Stored[Of(c)] # Store!Atomic!Empty
        BY <1>1, <1>5, StoredChanges DEF Store!Atomic!Empty
    <2>3. CASE Path(c) = "remove"
        <3>1. Store!Empty \in Store!Records /\ Store!Empty.refresh = Store!Atomic!Empty
            BY <1>1, EmptyIsRight DEF Store!Empty, Store!Atomic!Empty
        <3>2. Store!Stored' = [Store!Stored EXCEPT ![Of(c)] = Store!Atomic!Empty]
            BY <1>1, <2>1, <2>3, <3>1, StoredChanges
        <3>3. Store!Atomic!Remove(c)
            BY <1>1, <1>3, <2>1, <2>2, <2>3, <3>2 DEF Store!Atomic!Remove, Store!Atomic!Tell
        <3> QED
            BY <3>3 DEF AtomicStep, Store!Atomic!Next
    <2>4. CASE Path(c) # "remove"
        <3>1. Store!Stored' = Store!Stored
            BY <2>1, <2>4, StoredChanges
        <3>2. Store!Atomic!Exists(c)
            BY <1>1, <1>3, <2>1, <2>2, <2>4, <3>1 DEF Store!Atomic!Exists, Store!Atomic!Tell
        <3> QED
            BY <3>2 DEF AtomicStep, Store!Atomic!Next
    <2> QED
        BY <2>3, <2>4
<1> QED
    BY <1>4, <1>5

\* The refresh takes effect when the object takes the provider's reply: it puts
\* the new record, or drops the one the provider denied.
LEMMA ReceiveIsAtomic ==
    ASSUME StoreInv, StoreInv', NEW c \in Call, Store!Receive(c)
    PROVE  AtomicStep
<1>1. /\ Store!Turn(c) /\ Store!Waiting(c) /\ sent[c].state \in {"rotated", "kept", "denied"}
      /\ UNCHANGED <<generation, asks, sent, valid>> /\ Of(c) \in Consent
    BY StoreConstants DEF Store!Receive, Store!Waiting
<1>2. Served(c) /\ Path(c) = "token"
    BY <1>1 DEF StoreInv, AtHead, Attended
<1>3. /\ sent[c].refresh \in Nat /\ sent[c].refresh > 0 /\ valid \in [Consent -> Nat] /\ valid[Of(c)] \in Nat
      /\ sent[c].at \in Nat /\ now \in Nat
      /\ Store!Stored[Of(c)] = sent[c].refresh /\ Store!Stored \in [Consent -> Nat]
    <2>1. sent[c] \in Store!Refreshes /\ valid \in [Consent -> Nat] /\ store \in [Consent -> Store!Records] /\ now \in Nat
        BY StoreConstants DEF StoreInv, Store!TypeOK
    <2>2. Store!Stored \in [Consent -> Nat]
        BY <2>1 DEF Store!Stored, Store!Records
    <2>3. Store!Stored[Of(c)] = sent[c].refresh
        BY <1>1, <1>2, StoredChanges DEF Served
    <2> QED
        BY <1>1, <2>1, <2>2, <2>3 DEF Store!Refreshes, StoreInv, Counted
<1>4. ASSUME NEW a \in {"done", "refused", "failed"}, Store!Answer(c, a)
      PROVE  Store!Accepted' = valid /\ answer[c] = "none" /\ answer' = [answer EXCEPT ![c] = a]
    BY <1>1, <1>4, PendingAfterAnswer
<1>5. CASE sent[c].state = "denied"
    <2>1. Store!Answer(c, "refused") /\ store' = store
        BY <1>5 DEF Store!Receive
    <2>2. Store!Accepted = valid /\ Store!Stored' = Store!Stored
        BY <1>1, <1>5, <2>1, SeenFromServed, StoredChanges
    <2>3. Store!Stored[Of(c)] # Store!Accepted[Of(c)]
        BY <1>2, <1>3, <1>5, <2>2 DEF Served
    <2>4. Store!Atomic!Refuse(c)
        BY <1>1, <1>2, <1>4, <2>1, <2>2, <2>3 DEF Store!Atomic!Refuse, Store!Atomic!Tell
    <2> QED
        BY <2>4 DEF AtomicStep, Store!Atomic!Next
<1>6. ASSUME sent[c].state # "denied"
      PROVE  /\ Store!Answer(c, "done")
             /\ Store!Stored' = [Store!Stored EXCEPT ![Of(c)] =
                    IF sent[c].state = "rotated" THEN sent[c].refresh + 1 ELSE sent[c].refresh]
    <2>1. store' = [store EXCEPT ![Of(c)] = Store!Refreshed(c)] /\ Store!Answer(c, "done")
        BY <1>6 DEF Store!Receive
    <2>2. Store!Refreshed(c) \in Store!Records
        BY <1>3, StoreConstants DEF Store!Refreshed, Store!Records
    <2>3. Store!Refreshed(c).refresh = IF sent[c].state = "rotated" THEN sent[c].refresh + 1 ELSE sent[c].refresh
        BY DEF Store!Refreshed
    <2>4. Store!Stored' = [Store!Stored EXCEPT ![Of(c)] = Store!Refreshed(c).refresh]
        BY <1>1, <2>1, <2>2, StoredChanges
    <2> QED
        BY <2>1, <2>3, <2>4
<1>7. CASE sent[c].state = "kept"
    <2>1. Store!Accepted = valid
        BY <1>1, <1>7, SeenFromServed
    <2>2. Store!Stored' = Store!Stored /\ Store!Stored[Of(c)] # Store!Atomic!Empty
        BY <1>3, <1>6, <1>7 DEF Store!Atomic!Empty
    <2>3. Store!Atomic!Exists(c)
        BY <1>1, <1>2, <1>4, <1>6, <1>7, <2>1, <2>2 DEF Store!Atomic!Exists, Store!Atomic!Tell
    <2> QED
        BY <2>3 DEF AtomicStep, Store!Atomic!Next
<1>8. CASE sent[c].state = "rotated"
    <2>1. valid[Of(c)] = sent[c].refresh + 1
        BY <1>2, <1>8 DEF Served
    <2>2. \A b \in Consent : Store!Accepted[b] = IF b = Of(c) THEN sent[c].refresh ELSE valid[b]
        BY <1>1, <1>3, <1>8, <2>1, SeenFromServed
    <2>3. valid = [Store!Accepted EXCEPT ![Of(c)] = Store!Accepted[Of(c)] + 1]
        <3>1. DOMAIN Store!Accepted = Consent
            BY DEF Store!Accepted
        <3> DEFINE later == [Store!Accepted EXCEPT ![Of(c)] = Store!Accepted[Of(c)] + 1]
        <3>2. DOMAIN later = Consent /\ later = [b \in Consent |-> later[b]]
            BY <3>1
        <3>3. \A b \in Consent : later[b] = valid[b]
            BY <1>1, <2>1, <2>2, <3>1
        <3> HIDE DEF later
        <3>4. later = valid
            BY <1>3, <3>2, <3>3
        <3> QED
            BY <3>4 DEF later
    <2>4. Store!Stored[Of(c)] = Store!Accepted[Of(c)]
        BY <1>1, <1>3, <2>2
    <2>5. Store!Answer(c, "done") /\ Store!Accepted' = valid
        BY <1>4, <1>6, <1>8
    <2>6. Store!Stored' = [Store!Stored EXCEPT ![Of(c)] = (Store!Accepted')[Of(c)]]
        BY <1>6, <1>8, <2>1, <2>5
    <2>7. Store!Accepted' = [Store!Accepted EXCEPT ![Of(c)] = Store!Accepted[Of(c)] + 1]
        BY <2>3, <2>5
    <2>8. Store!Atomic!Refresh(c)
        BY <1>1, <1>2, <1>4, <2>4, <2>5, <2>6, <2>7 DEF Store!Atomic!Refresh, Store!Atomic!Tell
    <2> QED
        BY <2>8 DEF AtomicStep, Store!Atomic!Next
<1> QED
    BY <1>1, <1>5, <1>7, <1>8

\* As long as no rotation becomes or ceases to be pending, what counts as
\* accepted changes with nothing.
LEMMA SamePending ==
    ASSUME valid' = valid,
           \A d \in Call : Store!Turn(d)' /\ sent'[d].state = "rotated"
                               <=> Store!Turn(d) /\ sent[d].state = "rotated"
    PROVE  Store!Accepted' = Store!Accepted
BY DEF Store!Accepted

\* A step that changes none of what the abstract store is made of.
LEMMA Stutters ==
    ASSUME UNCHANGED <<Store!Stored, Store!Accepted, generation, asks, answer>>
    PROVE  AtomicStep
BY DEF AtomicStep, Store!Atomic!vars

\* Queueing a request and sending a refresh change nothing anyone sees.
LEMMA QuietIsAtomic ==
    ASSUME StoreInv, NEW c \in Call, Store!Arrive(c) \/ Store!Send(c)
    PROVE  AtomicStep
<1>1. UNCHANGED <<store, valid, generation, asks, answer>>
    BY DEF Store!Arrive, Store!Send, Store!object
<1>2. ASSUME NEW d \in Call
      PROVE  Store!Turn(d)' /\ sent'[d].state = "rotated" <=> Store!Turn(d) /\ sent[d].state = "rotated"
    <2>1. CASE Store!Arrive(c)
        <3>1. sent' = sent
            BY <2>1 DEF Store!Arrive
        <3> QED
            BY <2>1, <3>1, ArriveTurns DEF Store!Waiting
    <2>2. CASE Store!Send(c)
        <3>1. sent' = [sent EXCEPT ![c] = [state |-> "sent", refresh |-> Store!Record(c).refresh, at |-> now]]
              /\ queue' = queue /\ ~Store!Waiting(c) /\ DOMAIN sent = Call
            BY <2>2 DEF Store!Send, Store!object, Store!Serve, StoreInv, Store!TypeOK
        <3>2. sent'[c].state = "sent" /\ sent[c].state = "unsent" /\ (d # c => sent'[d] = sent[d])
            BY <3>1 DEF Store!Waiting
        <3>3. Store!Turn(d)' <=> Store!Turn(d)
            BY <3>1 DEF Store!Turn
        <3> QED
            BY <3>2, <3>3
    <2> QED
        BY <2>1, <2>2
<1> QED
    BY <1>1, <1>2, SamePending, Stutters, StoredChanges

\* Time passing changes nothing anyone sees.
LEMMA TimeIsAtomic ==
    ASSUME StoreInv, Store!Tick \/ UNCHANGED Store!vars
    PROVE  AtomicStep
<1>1. UNCHANGED <<store, valid, generation, asks, answer, sent, queue>>
    BY DEF Store!Tick, Store!vars, Store!object
<1>2. \A d \in Call : Store!Turn(d)' <=> Store!Turn(d)
    BY <1>1 DEF Store!Turn
<1> QED
    BY <1>1, <1>2, SamePending, Stutters, StoredChanges

\* prepare hands out the generation in one step.
LEMMA PrepareIsAtomic ==
    ASSUME StoreInv, NEW c \in Call, Store!Prepare(c)
    PROVE  AtomicStep
<1>1. UNCHANGED <<store, generation, queue, answer, sent, valid>>
    BY DEF Store!Prepare
<1>2. \A d \in Call : Store!Turn(d)' <=> Store!Turn(d)
    BY <1>1 DEF Store!Turn
<1>3. Store!Stored' = Store!Stored /\ Store!Accepted' = Store!Accepted
    BY <1>1, <1>2, SamePending, StoredChanges
<1>4. Store!Atomic!Prepare(c)
    BY <1>1, <1>3 DEF Store!Prepare, Store!Atomic!Prepare
<1> QED
    BY <1>4 DEF AtomicStep, Store!Atomic!Next

\* Calls fail, and a rotation that counts only now is one that was lost.
LEMMA FailIsAtomic ==
    ASSUME StoreInv, NEW C \in SUBSET Call, \A c \in C : answer[c] = "none",
           \A c \in Call : answer'[c] = IF c \in C THEN "failed" ELSE answer[c],
           answer' = [c \in Call |-> answer'[c]],
           Store!Accepted' = Store!Accepted
             \/ \E b \in Consent : Store!Accepted' = [Store!Accepted EXCEPT ![b] = Store!Accepted[b] + 1],
           UNCHANGED <<store, generation, asks>>
    PROVE  AtomicStep
<1>1. C \in SUBSET {c \in Call : answer[c] = "none"}
    OBVIOUS
<1>2. answer' = [c \in Call |-> IF c \in C THEN "failed" ELSE answer[c]]
    OBVIOUS
<1>3. Store!Stored' = Store!Stored
    BY StoredChanges
<1>4. Store!Atomic!Fail
    BY <1>1, <1>2, <1>3 DEF Store!Atomic!Fail
<1> QED
    BY <1>4 DEF AtomicStep, Store!Atomic!Next

\* What is lost with the call that is served is one rotation at most.
LEMMA OneIsLost ==
    ASSUME StoreInv, NEW c \in Call, Store!Turn(c)
    PROVE  valid = Store!Accepted
             \/ \E b \in Consent : valid = [Store!Accepted EXCEPT ![b] = Store!Accepted[b] + 1]
<1>1. Of(c) \in Consent /\ valid \in [Consent -> Nat] /\ DOMAIN Store!Accepted = Consent
    BY StoreConstants DEF StoreInv, Store!TypeOK, Store!Accepted
<1>2. CASE sent[c].state = "rotated"
    <2> DEFINE later == [Store!Accepted EXCEPT ![Of(c)] = Store!Accepted[Of(c)] + 1]
    <2>1. DOMAIN later = Consent /\ later = [b \in Consent |-> later[b]]
        BY <1>1
    <2>2. \A b \in Consent : Store!Accepted[b] = IF b = Of(c) THEN valid[b] - 1 ELSE valid[b]
        BY <1>2, SeenFromServed
    <2>3. \A b \in Consent : later[b] = valid[b]
        BY <1>1, <2>2
    <2> HIDE DEF later
    <2>4. later = valid
        BY <1>1, <2>1, <2>3
    <2> QED
        BY <1>1, <2>4 DEF later
<1> QED
    BY <1>2, SeenFromServed

\* A call that fails leaves the store alone.
LEMMA FailsIsAtomic ==
    ASSUME StoreInv, StoreInv', NEW c \in Call, Store!Fails(c)
    PROVE  AtomicStep
<1>1. Store!Turn(c) /\ Store!Answer(c, "failed") /\ UNCHANGED <<asks, sent, valid, generation, store>>
    BY DEF Store!Fails
<1>2. Store!Accepted' = valid /\ answer[c] = "none" /\ answer' = [answer EXCEPT ![c] = "failed"]
    BY <1>1, PendingAfterAnswer
<1>3. DOMAIN answer = Call
    BY DEF StoreInv, Store!TypeOK
<1>4. (\A d \in Call : answer'[d] = IF d \in {c} THEN "failed" ELSE answer[d]) /\ answer' = [d \in Call |-> answer'[d]]
    BY <1>2, <1>3
<1>5. {c} \in SUBSET Call /\ \A d \in {c} : answer[d] = "none"
    BY <1>2
<1>6. Store!Accepted' = Store!Accepted
        \/ \E b \in Consent : Store!Accepted' = [Store!Accepted EXCEPT ![b] = Store!Accepted[b] + 1]
    BY <1>1, <1>2, OneIsLost
<1> QED
    BY <1>1, <1>4, <1>5, <1>6, FailIsAtomic

\* A restart fails every call in the queue and leaves the store alone.
LEMMA RestartIsAtomic ==
    ASSUME StoreInv, StoreInv', Store!Restart
    PROVE  AtomicStep
<1>1. /\ queue \in Seq(Call) /\ Len(queue) \in Nat
      /\ \A d \in Call : Store!Turn(d) <=> Len(queue) > 0 /\ queue[1] = d
      /\ \A i \in 1..Len(queue) : queue[i] \in Call /\ answer[queue[i]] = "none"
    BY QueueFacts DEF StoreInv
<1>2. /\ UNCHANGED <<store, generation, asks, sent, valid>> /\ queue' = <<>> /\ queue # <<>>
      /\ answer' = [d \in Call |-> IF Store!Contains(queue, d) THEN "failed" ELSE answer[d]]
    BY DEF Store!Restart
<1> DEFINE C == {d \in Call : Store!Contains(queue, d)}
<1>3. C \in SUBSET Call /\ \A d \in C : answer[d] = "none"
    BY <1>1 DEF Store!Contains
<1>4. (\A d \in Call : answer'[d] = IF d \in C THEN "failed" ELSE answer[d]) /\ answer' = [d \in Call |-> answer'[d]]
    BY <1>2
<1>5. Store!Accepted' = valid
    <2>1. \A b \in Consent : (Store!Accepted')[b] = valid'[b]
        BY <1>2 DEF Store!Accepted, Store!Turn
    <2> QED
        BY <1>2, <2>1 DEF Store!Accepted, StoreInv, Store!TypeOK
<1>6. Store!Turn(queue[1]) /\ queue[1] \in Call
    BY <1>1, <1>2
<1>7. Store!Accepted' = Store!Accepted
        \/ \E b \in Consent : Store!Accepted' = [Store!Accepted EXCEPT ![b] = Store!Accepted[b] + 1]
    BY <1>5, <1>6, OneIsLost
<1> HIDE DEF C
<1> QED
    BY <1>2, <1>3, <1>4, <1>7, FailIsAtomic

\* A rotation for the call that is served does not count yet, and one that
\* nobody waits for counts as lost at once.
LEMMA ExchangeIsAtomic ==
    ASSUME StoreInv, NEW c \in Call, Store!Exchange(c)
    PROVE  AtomicStep
<1>1. /\ sent[c].state = "sent" /\ UNCHANGED <<store, generation, queue, asks, answer>>
      /\ Of(c) \in Consent /\ valid \in [Consent -> Nat] /\ DOMAIN sent = Call
      /\ sent[c] \in Store!Refreshes
    BY StoreConstants DEF Store!Exchange, Store!object, StoreInv, Store!TypeOK
<1>2. \A d \in Call : Store!Turn(d)' <=> Store!Turn(d)
    BY <1>1 DEF Store!Turn
<1>3. \A d \in Call : d # c => sent'[d] = sent[d]
    BY <1>1 DEF Store!Exchange
<1>4. Store!Stored' = Store!Stored
    BY <1>1, StoredChanges
<1>5. CASE valid' = valid
    <2>1. sent'[c].state \in {"kept", "denied"}
        <3>1. valid # [valid EXCEPT ![Of(c)] = valid[Of(c)] + 1]
            BY <1>1
        <3> QED
            BY <1>1, <1>5, <3>1 DEF Store!Exchange, Store!Refreshes
    <2>2. \A d \in Call : sent'[d].state = "rotated" <=> sent[d].state = "rotated"
        BY <1>1, <1>3, <2>1
    <2> QED
        BY <1>1, <1>2, <1>4, <1>5, <2>2, SamePending, Stutters
<1>6. CASE valid' # valid
    <2>1. /\ sent[c].refresh = valid[Of(c)] /\ valid' = [valid EXCEPT ![Of(c)] = valid[Of(c)] + 1]
          /\ sent'[c].state = "rotated"
        BY <1>1, <1>6 DEF Store!Exchange, Store!Refreshes
    <2>2. ASSUME NEW b \in Consent, b # Of(c)
          PROVE  (Store!Accepted')[b] = Store!Accepted[b]
        <3>1. \A d \in Call : Of(d) = b => d # c
            BY <2>2
        <3> QED
            BY <1>2, <1>3, <2>1, <2>2, <3>1, <1>1 DEF Store!Accepted
    <2>3. \A d \in Call : Of(d) = Of(c) /\ Store!Turn(d) => sent[d].state # "rotated"
        <3> SUFFICES ASSUME NEW d \in Call, Of(d) = Of(c), Store!Turn(d), sent[d].state = "rotated" PROVE FALSE
            OBVIOUS
        <3>1. Served(d)
            BY DEF StoreInv, AtHead, Store!Waiting
        <3>2. sent[c].refresh < valid[Of(c)]
            BY <1>1, <3>1 DEF Served
        <3> QED
            BY <1>1, <2>1, <3>2
    <2>4. Store!Accepted[Of(c)] = valid[Of(c)]
        BY <1>1, <2>3 DEF Store!Accepted
    <2>5. CASE Store!Turn(c)
        <3>1. (Store!Accepted')[Of(c)] = valid'[Of(c)] - 1
            BY <1>1, <1>2, <2>1, <2>5 DEF Store!Accepted
        <3>2. valid'[Of(c)] - 1 = valid[Of(c)]
            BY <1>1, <2>1
        <3>3. \A b \in Consent : (Store!Accepted')[b] = Store!Accepted[b]
            BY <2>2, <2>4, <3>1, <3>2
        <3>4. Store!Accepted' = Store!Accepted
            BY <3>3 DEF Store!Accepted
        <3> QED
            BY <1>1, <1>4, <3>4, Stutters
    <2>6. CASE ~Store!Turn(c)
        <3>1. \A d \in Call : Of(d) = Of(c) /\ Store!Turn(d)' => sent'[d].state # "rotated"
            BY <1>2, <1>3, <2>3, <2>6
        <3>2. (Store!Accepted')[Of(c)] = valid'[Of(c)]
            BY <1>1, <3>1 DEF Store!Accepted
        <3>3. (Store!Accepted')[Of(c)] = Store!Accepted[Of(c)] + 1
            BY <1>1, <2>1, <2>4, <3>2
        <3>4. Store!Accepted' = [Store!Accepted EXCEPT ![Of(c)] = Store!Accepted[Of(c)] + 1]
            <4> DEFINE later == [Store!Accepted EXCEPT ![Of(c)] = Store!Accepted[Of(c)] + 1]
            <4>1. DOMAIN Store!Accepted = Consent
                BY DEF Store!Accepted
            <4>2. DOMAIN later = Consent /\ later = [b \in Consent |-> later[b]]
                BY <4>1
            <4>3. \A b \in Consent : later[b] = (Store!Accepted')[b]
                BY <1>1, <2>2, <3>3, <4>1
            <4> HIDE DEF later
            <4>4. later = Store!Accepted'
                BY <4>2, <4>3 DEF Store!Accepted
            <4> QED
                BY <4>4 DEF later
        <3>5. answer \in [Call -> {"none", "done", "refused", "failed"}]
            BY DEF StoreInv, Store!TypeOK
        <3>6. (\A d \in Call : answer'[d] = IF d \in {} THEN "failed" ELSE answer[d]) /\ answer' = [d \in Call |-> answer'[d]]
            BY <1>1, <3>5
        <3>7. {} \in SUBSET Call /\ \A d \in {} : answer[d] = "none"
            OBVIOUS
        <3>8. \E b \in Consent : Store!Accepted' = [Store!Accepted EXCEPT ![b] = Store!Accepted[b] + 1]
            BY <1>1, <3>4
        <3> QED
            BY <1>1, <3>6, <3>7, <3>8, FailIsAtomic
    <2> QED
        BY <2>5, <2>6
<1> QED
    BY <1>5, <1>6

\* The store starts in a state the abstract one can start in.
LEMMA InitIsAtomic == Store!Init => Store!Atomic!Init
<1> SUFFICES ASSUME Store!Init PROVE Store!Atomic!Init
    OBVIOUS
<1>1. /\ queue = <<>> /\ valid = [b \in Consent |-> 1] /\ generation = 0
      /\ asks = [c \in Call |-> 0] /\ answer = [c \in Call |-> "none"]
      /\ store \in [Consent -> {Store!Empty, [refresh |-> 1, expiresAt |-> 0, ends |-> 0]}]
    BY DEF Store!Init
<1>2. Store!Stored \in [Consent -> {1, Store!Atomic!Empty}]
    BY <1>1 DEF Store!Stored, Store!Empty, Store!Atomic!Empty
<1>3. Store!Accepted = [b \in Consent |-> 1]
    BY <1>1 DEF Store!Accepted, Store!Turn
<1> QED
    BY <1>1, <1>2, <1>3 DEF Store!Atomic!Init

\* A step of the store is one of the abstract store or nothing it shows.
LEMMA StepIsAtomic ==
    ASSUME StoreInv, StoreInv', [Store!Next]_Store!vars
    PROVE  AtomicStep
BY PrepareIsAtomic, QuietIsAtomic, CreateIsAtomic, DeleteAllIsAtomic, ExistsIsAtomic,
   ReceiveIsAtomic, ExchangeIsAtomic, FailsIsAtomic, RestartIsAtomic, TimeIsAtomic
   DEF Store!Next, Store!Handle

\* Whatever YNAB, the storage and the restarts do between the steps of a
\* request, the store answers as one that carries each out at once or fails.
THEOREM StoreIsAtomic == Store!Spec => IsAtomic
BY StepIsAtomic, InitIsAtomic, StoreInvariance, PTL
   DEF Store!Spec, IsAtomic, Store!IsAtomic, Store!Atomic!Spec, AtomicStep

-----------------------------------------------------------------------------
(* The storage of journals.                                                  *)

\* Under a consent's keys lie the pieces its manifest counts, all of the
\* revision persisted last, and nothing else; and nothing without its record.
Filed(b) ==
    /\ manifest[b] # Disk!Absent => b \in tokens
    /\ manifest[b] # Disk!Whole => manifest[b] = journal[b].length
    /\ \A i \in 1..MaxChunks :
          chunk[b][i] = IF i <= manifest[b] THEN journal[b].revision ELSE Disk!Absent

DiskInv ==
    /\ tokens \subseteq Consent /\ manifest \in [Consent -> -1..MaxChunks]
    /\ chunk \in [Consent -> [1..MaxChunks -> Nat]]
    /\ journal \in [Consent -> [revision : Nat, length : 0..MaxChunks]]
    /\ \A b \in Consent : Filed(b)

\* The number of chunk keys is a number.
LEMMA DiskConstants == MaxChunks \in Nat
BY AccessAssumption

\* A store starts with whole journals of the old form, or with none.
LEMMA DiskInit == Disk!Init => DiskInv
<1> SUFFICES ASSUME Disk!Init PROVE DiskInv
    OBVIOUS
<1>1. MaxChunks \in Nat
    BY DiskConstants
<1>2. 0 \in -1..MaxChunks /\ -1 \in -1..MaxChunks /\ 0 \in 0..MaxChunks
    BY <1>1
<1>3. \A b \in Consent : manifest[b] \in {0, -1} /\ journal[b].length = 0
    BY DEF Disk!Init, Disk!Absent, Disk!Whole
<1>4. manifest \in [Consent -> -1..MaxChunks] /\ journal \in [Consent -> [revision : Nat, length : 0..MaxChunks]]
    BY <1>2 DEF Disk!Init, Disk!Absent, Disk!Whole
<1>5. chunk \in [Consent -> [1..MaxChunks -> Nat]] /\ \A b \in Consent, i \in 1..MaxChunks : chunk[b][i] = 0
    BY DEF Disk!Init, Disk!Absent, Disk!Index
<1>6. ASSUME NEW b \in Consent PROVE Filed(b)
    <2>1. manifest[b] = 0 \/ (manifest[b] = -1 /\ b \in tokens)
        BY <1>3 DEF Disk!Init, Disk!Whole
    <2> QED
        BY <1>1, <1>3, <1>5, <2>1 DEF Filed, Disk!Absent, Disk!Whole
<1> QED
    BY <1>4, <1>5, <1>6 DEF DiskInv, Disk!Init

\* A change of what lies under one consent's keys.
LEMMA FiledAnew ==
    ASSUME DiskInv, NEW b \in Consent, tokens' \subseteq Consent,
           NEW m \in -1..MaxChunks, NEW k \in [1..MaxChunks -> Nat],
           NEW j \in [revision : Nat, length : 0..MaxChunks],
           manifest' = [manifest EXCEPT ![b] = m], chunk' = [chunk EXCEPT ![b] = k],
           journal' = [journal EXCEPT ![b] = j],
           \A d \in Consent : d # b => (d \in tokens' <=> d \in tokens),
           m # Disk!Absent => b \in tokens', m # Disk!Whole => m = j.length,
           \A i \in 1..MaxChunks : k[i] = IF i <= m THEN j.revision ELSE Disk!Absent
    PROVE  DiskInv'
<1>1. /\ manifest' \in [Consent -> -1..MaxChunks] /\ chunk' \in [Consent -> [1..MaxChunks -> Nat]]
      /\ journal' \in [Consent -> [revision : Nat, length : 0..MaxChunks]]
    BY DEF DiskInv
<1>2. ASSUME NEW d \in Consent PROVE Filed(d)'
    <2>1. CASE d = b
        <3>1. manifest'[d] = m /\ chunk'[d] = k /\ journal'[d] = j
            BY <2>1 DEF DiskInv
        <3> QED
            BY <2>1, <3>1 DEF Filed, Disk!Absent, Disk!Whole
    <2>2. CASE d # b
        <3>1. manifest'[d] = manifest[d] /\ chunk'[d] = chunk[d] /\ journal'[d] = journal[d]
            BY <2>2 DEF DiskInv
        <3> QED
            BY <2>2, <3>1 DEF DiskInv, Filed, Disk!Absent, Disk!Whole
    <2> QED
        BY <2>1, <2>2
<1> QED
    BY <1>1, <1>2 DEF DiskInv

\* persist leaves the chunks of the new value, their manifest, and nothing else.
LEMMA PersistFiles ==
    ASSUME DiskInv, NEW b \in Consent, NEW n \in 1..(MaxChunks + 1), Disk!Persist(b, n)
    PROVE  DiskInv'
<1>1. /\ MaxChunks \in Nat /\ n \in 1..MaxChunks /\ b \in tokens
      /\ n \in -1..MaxChunks /\ n # Disk!Absent
    BY DiskConstants DEF Disk!Persist, Disk!Absent
<1>2. /\ journal[b].revision \in Nat /\ journal[b] = [revision |-> journal[b].revision, length |-> journal[b].length]
      /\ manifest[b] \in -1..MaxChunks /\ chunk[b] \in [1..MaxChunks -> Nat] /\ tokens \subseteq Consent
      /\ \A i \in 1..MaxChunks : i > manifest[b] => chunk[b][i] = Disk!Absent
    BY <1>1 DEF DiskInv, Filed
<1> DEFINE j == [revision |-> journal[b].revision + 1, length |-> n]
           k == Disk!Pieces(b, n)
<1>3. j \in [revision : Nat, length : 0..MaxChunks] /\ j.revision = journal[b].revision + 1 /\ j.length = n
    BY <1>1, <1>2
<1>4. k = [i \in 1..MaxChunks |-> IF i <= n THEN journal[b].revision + 1
                     ELSE IF i <= Disk!Count(b) THEN Disk!Absent ELSE chunk[b][i]]
    BY DEF Disk!Pieces, Disk!Index
<1>5. \A i \in 1..MaxChunks : k[i] = IF i <= n THEN journal[b].revision + 1 ELSE Disk!Absent
    BY <1>2, <1>4 DEF Disk!Count
<1>6. k \in [1..MaxChunks -> Nat]
    <2>1. k = [i \in 1..MaxChunks |-> k[i]]
        BY <1>4
    <2>2. \A i \in 1..MaxChunks : k[i] \in Nat
        BY <1>2, <1>5 DEF Disk!Absent
    <2> QED
        BY <2>1, <2>2
<1>7. /\ manifest' = [manifest EXCEPT ![b] = n] /\ chunk' = [chunk EXCEPT ![b] = k]
      /\ journal' = [journal EXCEPT ![b] = j] /\ tokens' = tokens
    BY DEF Disk!Persist
<1> HIDE DEF j, k
<1> QED
    BY <1>1, <1>2, <1>3, <1>5, <1>6, <1>7, FiledAnew

\* Removing one record removes every key of its journal and of no other.
LEMMA RemoveFiles ==
    ASSUME DiskInv, NEW b \in Consent, Disk!RemoveRecord(b)
    PROVE  DiskInv'
<1>1. MaxChunks \in Nat
    BY DiskConstants
<1>2. /\ manifest[b] \in -1..MaxChunks /\ chunk[b] \in [1..MaxChunks -> Nat] /\ tokens \subseteq Consent
      /\ \A i \in 1..MaxChunks : i > manifest[b] => chunk[b][i] = Disk!Absent
    BY <1>1 DEF DiskInv, Filed
<1> DEFINE j == [revision |-> 0, length |-> 0]
           k == Disk!Without(b)
<1>3. j \in [revision : Nat, length : 0..MaxChunks] /\ j.length = 0
    BY <1>1
<1>4. k = [i \in 1..MaxChunks |-> IF i <= Disk!Count(b) THEN Disk!Absent ELSE chunk[b][i]]
    BY DEF Disk!Without, Disk!Index
<1>5. \A i \in 1..MaxChunks : k[i] = Disk!Absent
    BY <1>2, <1>4 DEF Disk!Count
<1>6. k \in [1..MaxChunks -> Nat]
    <2>1. k = [i \in 1..MaxChunks |-> k[i]]
        BY <1>4
    <2>2. \A i \in 1..MaxChunks : k[i] \in Nat
        BY <1>5 DEF Disk!Absent
    <2> QED
        BY <2>1, <2>2
<1>7. /\ manifest' = [manifest EXCEPT ![b] = Disk!Absent] /\ chunk' = [chunk EXCEPT ![b] = k]
      /\ journal' = [journal EXCEPT ![b] = j] /\ tokens' = tokens \ {b}
    BY DEF Disk!RemoveRecord
<1>8. Disk!Absent = 0 /\ 0 \in -1..MaxChunks /\ \A i \in 1..MaxChunks : ~(i <= 0)
    BY <1>1 DEF Disk!Absent
<1> HIDE DEF j, k
<1> QED
    BY <1>2, <1>3, <1>5, <1>6, <1>7, <1>8, FiledAnew

\* Every step leaves every journal whole.
LEMMA DiskStep == DiskInv /\ [Disk!Next]_Disk!vars => DiskInv'
<1> SUFFICES ASSUME DiskInv, [Disk!Next]_Disk!vars PROVE DiskInv'
    OBVIOUS
<1>1. CASE Disk!DeleteEverything
    <2>1. MaxChunks \in Nat
        BY DiskConstants
    <2>2. /\ tokens' = {} /\ manifest' = [b \in Consent |-> 0]
          /\ chunk' = [b \in Consent |-> [i \in 1..MaxChunks |-> 0]]
          /\ journal' = [b \in Consent |-> [revision |-> 0, length |-> 0]]
        BY <1>1 DEF Disk!DeleteEverything, Disk!Absent, Disk!Index
    <2>3. 0 \in -1..MaxChunks /\ 0 \in 0..MaxChunks
        BY <2>1
    <2>4. /\ manifest' \in [Consent -> -1..MaxChunks] /\ chunk' \in [Consent -> [1..MaxChunks -> Nat]]
          /\ journal' \in [Consent -> [revision : Nat, length : 0..MaxChunks]]
        BY <2>2, <2>3
    <2>5. ASSUME NEW b \in Consent PROVE Filed(b)'
        BY <2>1, <2>2 DEF Filed, Disk!Absent, Disk!Whole
    <2> QED
        BY <2>2, <2>4, <2>5 DEF DiskInv
<1>2. ASSUME NEW b \in Consent, Disk!CreateRecord(b) PROVE DiskInv'
    <2>1. tokens' = tokens \cup {b} /\ UNCHANGED <<manifest, chunk, journal>>
        BY <1>2 DEF Disk!CreateRecord
    <2> QED
        BY <2>1 DEF DiskInv, Filed, Disk!Absent, Disk!Whole
<1>3. CASE UNCHANGED Disk!vars
    BY <1>3 DEF Disk!vars, DiskInv, Filed, Disk!Absent, Disk!Whole
<1> QED
    BY <1>1, <1>2, <1>3, PersistFiles, RemoveFiles DEF Disk!Next

\* What the manifest counts is what was persisted.
LEMMA WholeFollows == DiskInv => StorageHolds
<1> SUFFICES ASSUME DiskInv, NEW b \in Consent
             PROVE  /\ manifest[b] # Disk!Whole =>
                           /\ Disk!Count(b) = journal[b].length
                           /\ Disk!Read(b) \subseteq {journal[b].revision}
                    /\ \A i \in Disk!Index : chunk[b][i] # Disk!Absent => b \in tokens /\ i <= Disk!Count(b)
    BY DEF StorageHolds, Disk!StorageHolds
<1>1. Filed(b) /\ manifest[b] \in -1..MaxChunks /\ MaxChunks \in Nat /\ journal[b].length \in 0..MaxChunks
    BY DiskConstants DEF DiskInv
<1>2. ASSUME NEW i \in 1..MaxChunks, chunk[b][i] # Disk!Absent
      PROVE  b \in tokens /\ i <= Disk!Count(b)
    BY <1>1, <1>2 DEF Filed, Disk!Count, Disk!Absent
<1>3. ASSUME manifest[b] # Disk!Whole
      PROVE  Disk!Count(b) = journal[b].length /\ Disk!Read(b) \subseteq {journal[b].revision}
    <2>1. Disk!Count(b) = manifest[b] /\ manifest[b] = journal[b].length
        BY <1>1, <1>3 DEF Filed, Disk!Count, Disk!Whole
    <2>2. \A i \in 1..manifest[b] : chunk[b][i] = journal[b].revision
        BY <1>1 DEF Filed
    <2> QED
        BY <2>1, <2>2 DEF Disk!Read
<1> QED
    BY <1>2, <1>3 DEF Disk!Index

\* What is read back is what was persisted last, however the journal grew and
\* shrank, and of a consent that is removed nothing remains.
THEOREM JournalsAreWhole == Disk!Spec => []StorageHolds
BY WholeFollows, DiskInit, DiskStep, PTL DEF Disk!Spec

-----------------------------------------------------------------------------
(* The token cache.                                                          *)

Version(t) == t.version \in Nat /\ t.version <= item /\ t.at <= now

\* A token that 1Password held within so long before it is dated.
Held(t, since) == Version(t) /\ (t.version < item => t.at <= retired[t.version + 1] + since)

\* What a process has in hand, by where it is in its search.
Hand(p, l, t) ==
    /\ t.at <= now
    /\ l \in {"cache", "unlink", "asks", "writes"} => Local!OpPath(p) \in Local!Reference
    /\ l = "asks" =>
        /\ now <= t.at + OpTime
        /\ t.of # "none" => t.of = Local!OpPath(p) /\ Held(t, 0)
    /\ l = "writes" => t.of = Local!OpPath(p) /\ Held(t, OpTime)
    /\ l = "token" /\ t.of \in Local!Reference =>
        t.of = Local!OpPath(p) /\ Held(t, OpTime + Ttl - 1)

Places == {"new", "cache", "unlink", "asks", "writes", "token", "discovery", "dead"}

LocalTypes ==
    /\ now \in Nat /\ item \in Nat /\ retired \in Seq(Nat) /\ Len(retired) = item
    /\ settings \in [Process -> Settings] /\ agent \in [Process -> {"codex", "claude"}]
    /\ at \in [Process -> Places]
    /\ got \in [Process -> Local!Token] /\ file \in [Local!Reference -> Local!Token]

LocalInv ==
    /\ LocalTypes
    /\ \A r \in Local!Reference : file[r] # Local!Missing => file[r].of = r /\ Held(file[r], OpTime)
    /\ \A p \in Process : Hand(p, at[p], got[p])

\* The two durations are numbers, and a cached value lives for some time.
LEMMA LocalNumbers == OpTime \in Nat /\ Ttl \in Nat /\ Ttl > 0
<1>1. OpTime \in Nat
    BY AccessAssumption
<1>2. Ttl \in Nat \ {0}
    BY AccessAssumption
<1> QED
    BY <1>1, <1>2

\* YNAB_OP_PATH names a 1Password reference wherever it is set.
LEMMA LocalConstants ==
    \A s \in Settings, source \in {"env", "claude", "codex shell", "codex mcp"} :
        "YNAB_OP_PATH" \in DOMAIN s[source] => s[source]["YNAB_OP_PATH"] \in Local!Reference
BY AccessAssumption DEF Local!Reference

\* A set of positions among four has a least one.
LEMMA LeastOfFour ==
    ASSUME NEW S \in SUBSET (1..4), S # {}
    PROVE  Local!Min(S) \in S
<1>1. \E x \in S : \A y \in S : x <= y
    <2>1. CASE 1 \in S
        BY <2>1
    <2>2. CASE 1 \notin S /\ 2 \in S
        BY <2>2
    <2>3. CASE 1 \notin S /\ 2 \notin S /\ 3 \in S
        BY <2>3
    <2>4. CASE 1 \notin S /\ 2 \notin S /\ 3 \notin S
        <3>1. PICK x \in S : TRUE
            OBVIOUS
        <3>2. \A y \in S : y \in 1..4 /\ y # 1 /\ y # 2 /\ y # 3
            BY <2>4
        <3>3. \A y \in S : y = 4
            BY <3>2
        <3> QED
            BY <3>1, <3>3
    <2> QED
        BY <2>1, <2>2, <2>3, <2>4
<1> QED
    BY <1>1 DEF Local!Min

\* The path a process finds among its settings is a reference to an item.
LEMMA PathIsReference ==
    ASSUME LocalTypes, NEW p \in Process, Local!Has(p, "YNAB_OP_PATH")
    PROVE  Local!OpPath(p) \in Local!Reference
<1> DEFINE from == Local!Sources(p)
           giving == {i \in DOMAIN from : "YNAB_OP_PATH" \in DOMAIN settings[p][from[i]]}
<1>1. DOMAIN from = 1..4 /\ \A i \in 1..4 : from[i] \in {"env", "claude", "codex shell", "codex mcp"}
    BY DEF Local!Sources
<1>2. /\ Local!OpPath(p) = IF giving = {} THEN "none" ELSE settings[p][from[Local!Min(giving)]]["YNAB_OP_PATH"]
      /\ Local!OpPath(p) # "none"
    BY DEF Local!OpPath, Local!Value, Local!Has
<1>3. giving \in SUBSET (1..4) /\ giving # {}
    BY <1>1, <1>2
<1>4. Local!Min(giving) \in giving
    BY <1>3, LeastOfFour
<1>5. settings[p] \in Settings
    BY DEF LocalTypes
<1> QED
    BY <1>1, <1>2, <1>3, <1>4, <1>5, LocalConstants

\* When a version was replaced is on record.
LEMMA RetiredTyped ==
    ASSUME LocalTypes, NEW v \in Nat, v < item
    PROVE  retired[v + 1] \in Nat
<1>1. retired \in Seq(Nat) /\ Len(retired) = item /\ item \in Nat
    BY DEF LocalTypes
<1>2. v + 1 \in 1..Len(retired)
    BY <1>1
<1> QED
    BY <1>1, <1>2

\* A process that asks 1Password has no token yet.
LEMMA Asking ==
    ASSUME now \in Nat, NEW p \in Process, Local!OpPath(p) \in Local!Reference,
           NEW t, t = [Local!Missing EXCEPT !.at = now]
    PROVE  t \in Local!Token /\ Hand(p, "asks", t)
<1>1. t = [of |-> "none", version |-> 0, at |-> now]
    BY DEF Local!Missing
<1>2. t \in Local!Token
    <2>1. "none" \in Local!Reference \cup {"settings", "file", "none"} /\ 0 \in Nat
        OBVIOUS
    <2>2. [of |-> "none", version |-> 0, at |-> now] \in Local!Token
        BY <2>1 DEF Local!Token
    <2> QED
        BY <1>1, <2>2
<1>3. now <= now + OpTime /\ now <= now
    BY LocalNumbers
<1> QED
    BY <1>1, <1>2, <1>3 DEF Hand

\* A step of one process, which takes it to a place with a token in hand, and may
\* remove a cache file or put a recent token in it.
LEMMA ProcessSteps ==
    ASSUME LocalInv, NEW p \in Process, UNCHANGED <<now, item, retired, settings, agent>>,
           NEW l \in Places, NEW t \in Local!Token,
           at' = [at EXCEPT ![p] = l], got' = [got EXCEPT ![p] = t], Hand(p, l, t),
           file' \in [Local!Reference -> Local!Token],
           \A r \in Local!Reference :
               \/ file'[r] = file[r] \/ file'[r] = Local!Missing
               \/ file'[r].of = r /\ Held(file'[r], OpTime)
    PROVE  LocalInv'
<1>1. LocalTypes'
    BY DEF LocalInv, LocalTypes
<1>2. ASSUME NEW r \in Local!Reference, file'[r] # Local!Missing
      PROVE  (file'[r].of = r /\ Held(file[r], OpTime)')
    BY <1>2 DEF LocalInv, Held, Version
<1>3. \A q \in Process : Local!OpPath(q)' = Local!OpPath(q)
    BY DEF Local!OpPath, Local!Value, Local!Sources
<1>4. ASSUME NEW q \in Process PROVE Hand(q, at[q], got[q])'
    <2>1. CASE q = p
        <3>1. at'[q] = l /\ got'[q] = t
            BY <2>1 DEF LocalInv, LocalTypes
        <3> QED
            BY <1>3, <2>1, <3>1 DEF Hand, Held, Version
    <2>2. CASE q # p
        <3>1. at'[q] = at[q] /\ got'[q] = got[q]
            BY <2>2 DEF LocalInv, LocalTypes
        <3>2. Hand(q, at[q], got[q])
            BY DEF LocalInv
        <3> QED
            BY <1>3, <3>1, <3>2 DEF Hand, Held, Version
    <2> QED
        BY <2>1, <2>2
<1> QED
    BY <1>1, <1>2, <1>4 DEF LocalInv, Local!Missing

\* Each step of a process is one of those.
LEMMA StartKeeps ==
    ASSUME LocalInv, NEW p \in Process, Local!Start(p)
    PROVE  LocalInv'
<1>1. now \in Nat /\ got[p] \in Local!Token /\ Hand(p, at[p], got[p]) /\ LocalTypes
    BY DEF LocalInv, LocalTypes
<1>2. UNCHANGED <<now, item, retired, settings, agent>> /\ file' = file /\ at[p] = "new"
    BY DEF Local!Start
<1>3. file' \in [Local!Reference -> Local!Token]
    BY <1>1, <1>2 DEF LocalTypes
<1>4. ASSUME NEW of \in {"settings", "file"}, Local!Found(p, of, 0)
      PROVE  LocalInv'
    <2> DEFINE t == [of |-> of, version |-> 0, at |-> now]
    <2>1. t \in Local!Token /\ Hand(p, "token", t)
        BY <1>1 DEF Local!Token, Local!Reference, Hand
    <2>2. at' = [at EXCEPT ![p] = "token"] /\ got' = [got EXCEPT ![p] = t] /\ "token" \in Places
        BY <1>4 DEF Local!Found, Local!Goto, Places
    <2> HIDE DEF t
    <2> QED
        BY <1>2, <1>3, <2>1, <2>2, ProcessSteps
<1>5. ASSUME NEW l \in {"cache", "discovery"}, l = "cache" => Local!Has(p, "YNAB_OP_PATH"),
             Local!Goto(p, l), got' = got
      PROVE  LocalInv'
    <2>1. got' = [got EXCEPT ![p] = got[p]]
        BY <1>1, <1>5 DEF LocalTypes
    <2>2. Hand(p, l, got[p])
        BY <1>1, <1>5, PathIsReference DEF Hand
    <2>3. at' = [at EXCEPT ![p] = l] /\ l \in Places
        BY <1>5 DEF Local!Goto, Places
    <2> QED
        BY <1>1, <1>2, <1>3, <2>1, <2>2, <2>3, ProcessSteps
<1> QED
    BY <1>4, <1>5 DEF Local!Start

\* A value read from the cache is used only while it is younger than Ttl.
LEMMA ReadCacheKeeps ==
    ASSUME LocalInv, NEW p \in Process, Local!ReadCache(p)
    PROVE  LocalInv'
<1> DEFINE f == file[Local!OpPath(p)]
           unread == [Local!Missing EXCEPT !.at = now]
<1>1. /\ now \in Nat /\ item \in Nat /\ got[p] \in Local!Token /\ LocalTypes
      /\ at[p] = "cache" /\ Hand(p, at[p], got[p])
    BY DEF LocalInv, LocalTypes, Local!ReadCache
<1>2. UNCHANGED <<now, item, retired, settings, agent>> /\ file' = file
    BY DEF Local!ReadCache
<1>3. file' \in [Local!Reference -> Local!Token]
    BY <1>1, <1>2 DEF LocalTypes
<1>4. Local!OpPath(p) \in Local!Reference
    BY <1>1 DEF Hand
<1>5. f \in Local!Token /\ (f # Local!Missing => f.of = Local!OpPath(p) /\ Held(f, OpTime))
    BY <1>1, <1>4 DEF LocalInv, LocalTypes
<1>6. CASE f # Local!Missing /\ Local!Fresh(f) /\ Local!Found(p, f.of, f.version)
    <2> DEFINE t == [of |-> f.of, version |-> f.version, at |-> now]
    <2>1. f.version \in Nat /\ f.at \in Nat /\ f.version <= item /\ now - f.at < Ttl /\ f.of = Local!OpPath(p)
          /\ (f.version < item => f.at <= retired[f.version + 1] + OpTime)
        BY <1>5, <1>6 DEF Local!Token, Local!Fresh, Held, Version
    <2>2. f.version < item => retired[f.version + 1] \in Nat
        BY <1>1, <2>1, RetiredTyped
    <2>3. Held(t, OpTime + Ttl - 1)
        BY <1>1, <2>1, <2>2, LocalNumbers DEF Held, Version
    <2>4. t \in Local!Token /\ Hand(p, "token", t)
        BY <1>1, <1>4, <2>1, <2>3 DEF Local!Token, Hand
    <2>5. at' = [at EXCEPT ![p] = "token"] /\ got' = [got EXCEPT ![p] = t] /\ "token" \in Places
        BY <1>6 DEF Local!Found, Local!Goto, Places
    <2> HIDE DEF t, f
    <2> QED
        BY <1>2, <1>3, <2>4, <2>5, ProcessSteps
<1>7. CASE Local!Goto(p, "unlink") /\ got' = got
    <2>1. got' = [got EXCEPT ![p] = got[p]] /\ at' = [at EXCEPT ![p] = "unlink"] /\ "unlink" \in Places
        BY <1>1, <1>7 DEF LocalTypes, Local!Goto, Places
    <2>2. Hand(p, "unlink", got[p])
        BY <1>1 DEF Hand
    <2> QED
        BY <1>1, <1>2, <1>3, <2>1, <2>2, ProcessSteps
<1>8. CASE Local!Goto(p, "asks") /\ got' = [got EXCEPT ![p] = unread]
    <2>1. unread \in Local!Token /\ Hand(p, "asks", unread)
        BY <1>1, <1>4, Asking
    <2>2. at' = [at EXCEPT ![p] = "asks"] /\ "asks" \in Places
        BY <1>8 DEF Local!Goto, Places
    <2> HIDE DEF unread
    <2> QED
        BY <1>2, <1>3, <1>8, <2>1, <2>2, ProcessSteps
<1> QED
    BY <1>6, <1>7, <1>8 DEF Local!ReadCache

\* Removing a file leaves none, and a missing one claims nothing.
LEMMA UnlinkKeeps ==
    ASSUME LocalInv, NEW p \in Process, Local!UnlinkStale(p)
    PROVE  LocalInv'
<1> DEFINE unread == [Local!Missing EXCEPT !.at = now]
<1>1. /\ now \in Nat /\ LocalTypes /\ at[p] = "unlink" /\ Hand(p, at[p], got[p])
      /\ UNCHANGED <<now, item, retired, settings, agent>>
    BY DEF LocalInv, LocalTypes, Local!UnlinkStale
<1>2. Local!OpPath(p) \in Local!Reference
    BY <1>1 DEF Hand
<1>3. unread \in Local!Token /\ Hand(p, "asks", unread)
    BY <1>1, <1>2, Asking
<1>4. at' = [at EXCEPT ![p] = "asks"] /\ "asks" \in Places /\ got' = [got EXCEPT ![p] = unread]
    BY DEF Local!UnlinkStale, Local!Goto, Places
<1>5. Local!Missing \in Local!Token /\ file' = [file EXCEPT ![Local!OpPath(p)] = Local!Missing]
    BY DEF Local!UnlinkStale, Local!Missing, Local!Token
<1>6. file' \in [Local!Reference -> Local!Token] /\ \A r \in Local!Reference : file'[r] = file[r] \/ file'[r] = Local!Missing
    BY <1>1, <1>2, <1>5 DEF LocalTypes
<1> HIDE DEF unread
<1> QED
    BY <1>1, <1>3, <1>4, <1>6, ProcessSteps

\* What op returns is what 1Password held while op ran, at most OpTime ago.
LEMMA OpKeeps ==
    ASSUME LocalInv, NEW p \in Process, Local!OpReads(p) \/ Local!OpReturns(p) \/ Local!OpFails(p)
    PROVE  LocalInv'
<1>1. /\ now \in Nat /\ item \in Nat /\ LocalTypes /\ at[p] = "asks" /\ Hand(p, at[p], got[p])
      /\ got[p] \in Local!Token /\ DOMAIN at = Process /\ at[p] \in Places
      /\ UNCHANGED <<now, item, retired, settings, agent>> /\ file' = file
    BY DEF LocalInv, LocalTypes, Local!OpReads, Local!OpReturns, Local!OpFails
<1>2. Local!OpPath(p) \in Local!Reference /\ now <= got[p].at + OpTime /\ got[p].at <= now /\ got[p].at \in Nat
    BY <1>1 DEF Hand, Local!Token
<1>3. file' \in [Local!Reference -> Local!Token]
    BY <1>1 DEF LocalTypes
<1>4. CASE Local!OpReads(p)
    <2> DEFINE t == [of |-> Local!OpPath(p), version |-> item, at |-> got[p].at]
    <2>1. t \in Local!Token
        BY <1>1, <1>2 DEF Local!Token
    <2>2. Hand(p, "asks", t)
        BY <1>1, <1>2 DEF Hand, Held, Version
    <2>3. got' = [got EXCEPT ![p] = t] /\ at' = [at EXCEPT ![p] = "asks"] /\ "asks" \in Places
        BY <1>1, <1>4 DEF Local!OpReads, LocalTypes, Places
    <2> HIDE DEF t
    <2> QED
        BY <1>1, <1>3, <2>1, <2>2, <2>3, ProcessSteps
<1>5. CASE Local!OpReturns(p)
    <2> DEFINE t == [of |-> got[p].of, version |-> got[p].version, at |-> now]
    <2>1. /\ got[p].of = Local!OpPath(p) /\ got[p].version \in Nat /\ got[p].version <= item
          /\ got[p].version < item => got[p].at <= retired[got[p].version + 1]
        <3>1. got[p].of # "none"
            BY <1>5 DEF Local!OpReturns
        <3>2. got[p].version < item => retired[got[p].version + 1] \in Nat
            BY <1>1, RetiredTyped DEF Local!Token
        <3> QED
            BY <1>1, <3>1, <3>2 DEF Hand, Held, Version
    <2>2. got[p].version < item => retired[got[p].version + 1] \in Nat
        BY <1>1, <2>1, RetiredTyped
    <2>3. t \in Local!Token
        BY <1>1 DEF Local!Token
    <2>4. Hand(p, "writes", t)
        BY <1>1, <1>2, <2>1, <2>2, LocalNumbers DEF Hand, Held, Version
    <2>5. got' = [got EXCEPT ![p] = t]
        <3>1. t = [got[p] EXCEPT !.at = now]
            BY <1>1 DEF Local!Token
        <3> QED
            BY <1>5, <3>1 DEF Local!OpReturns
    <2>6. at' = [at EXCEPT ![p] = "writes"] /\ "writes" \in Places
        BY <1>5 DEF Local!OpReturns, Local!Goto, Places
    <2> HIDE DEF t
    <2> QED
        BY <1>1, <1>3, <2>3, <2>4, <2>5, <2>6, ProcessSteps
<1>6. CASE Local!OpFails(p)
    <2>1. Local!Missing \in Local!Token /\ Hand(p, "discovery", Local!Missing)
        BY <1>1 DEF Local!Missing, Local!Token, Hand
    <2>2. got' = [got EXCEPT ![p] = Local!Missing] /\ at' = [at EXCEPT ![p] = "discovery"] /\ "discovery" \in Places
        BY <1>6 DEF Local!OpFails, Local!Goto, Places
    <2> QED
        BY <1>1, <1>3, <2>1, <2>2, ProcessSteps
<1> QED
    BY <1>4, <1>5, <1>6

\* What is renamed into the cache was looked up at most OpTime before.
LEMMA WriteCacheKeeps ==
    ASSUME LocalInv, NEW p \in Process, Local!WriteCache(p)
    PROVE  LocalInv'
<1>1. /\ now \in Nat /\ LocalTypes /\ at[p] = "writes" /\ Hand(p, at[p], got[p]) /\ got[p] \in Local!Token
      /\ UNCHANGED <<now, item, retired, settings, agent>> /\ got' = [got EXCEPT ![p] = got[p]]
    BY DEF LocalInv, LocalTypes, Local!WriteCache
<1>2. got[p].of = Local!OpPath(p) /\ Held(got[p], OpTime) /\ Local!OpPath(p) \in Local!Reference /\ got[p].at <= now
    BY <1>1 DEF Hand
<1>3. Hand(p, "token", got[p])
    <2>1. got[p].version \in Nat /\ got[p].at \in Nat /\ got[p].version <= item
          /\ (got[p].version < item => got[p].at <= retired[got[p].version + 1] + OpTime)
        BY <1>1, <1>2 DEF Held, Version, Local!Token
    <2>2. got[p].version < item => retired[got[p].version + 1] \in Nat
        BY <1>1, <2>1, RetiredTyped
    <2> QED
        BY <1>1, <1>2, <2>1, <2>2, LocalNumbers DEF Hand, Held, Version
<1>4. at' = [at EXCEPT ![p] = "token"] /\ "token" \in Places
    BY DEF Local!WriteCache, Local!Goto, Places
<1>5. file' = file \/ file' = [file EXCEPT ![Local!OpPath(p)] = got[p]]
    BY DEF Local!WriteCache
<1>6. /\ file' \in [Local!Reference -> Local!Token]
      /\ \A r \in Local!Reference : file'[r] = file[r] \/ (r = Local!OpPath(p) /\ file'[r] = got[p])
    BY <1>1, <1>2, <1>5 DEF LocalTypes
<1>7. \A r \in Local!Reference : file'[r] = file[r] \/ (file'[r].of = r /\ Held(file'[r], OpTime))
    <2> SUFFICES ASSUME NEW r \in Local!Reference, file'[r] # file[r]
                 PROVE  file'[r].of = r /\ Held(file'[r], OpTime)
        OBVIOUS
    <2>1. r = Local!OpPath(p) /\ file'[r] = got[p]
        BY <1>6
    <2> QED
        BY <1>2, <2>1
<1> QED
    BY <1>1, <1>3, <1>4, <1>6, <1>7, ProcessSteps

\* A process that dies looks for no token any more.
LEMMA DiesKeeps ==
    ASSUME LocalInv, NEW p \in Process, Local!Dies(p)
    PROVE  LocalInv'
<1>1. /\ LocalTypes /\ got[p] \in Local!Token /\ Hand(p, at[p], got[p])
      /\ UNCHANGED <<now, item, retired, settings, agent>> /\ file' = file
      /\ got' = [got EXCEPT ![p] = got[p]]
    BY DEF LocalInv, LocalTypes, Local!Dies
<1>2. file' \in [Local!Reference -> Local!Token]
    BY <1>1 DEF LocalTypes
<1>3. at' = [at EXCEPT ![p] = "dead"] /\ "dead" \in Places
    BY DEF Local!Dies, Local!Goto, Places
<1>4. Hand(p, "dead", got[p])
    BY <1>1 DEF Hand
<1> QED
    BY <1>1, <1>2, <1>3, <1>4, ProcessSteps

\* The item is rotated: what is held until now was held until now.
LEMMA RotateKeeps ==
    ASSUME LocalInv, Local!Rotate
    PROVE  LocalInv'
<1>1. /\ retired \in Seq(Nat) /\ Len(retired) = item /\ item \in Nat /\ now \in Nat /\ LocalTypes
      /\ item' = item + 1 /\ retired' = Append(retired, now)
      /\ UNCHANGED <<now, settings, agent, at, got, file>>
    BY DEF LocalInv, LocalTypes, Local!Rotate
<1>2. /\ retired' \in Seq(Nat) /\ Len(retired') = item' /\ item' \in Nat
      /\ \A i \in 1..item : retired'[i] = retired[i]
      /\ retired'[item + 1] = now
    BY <1>1, AppendProperties
<1>3. LocalTypes'
    BY <1>1, <1>2 DEF LocalTypes
<1>4. ASSUME NEW t \in Local!Token, NEW d \in Nat, Held(t, d)
      PROVE  t.version <= item' /\ (t.version < item' => t.at <= retired'[t.version + 1] + d)
    <2>1. t.version \in Nat /\ t.version <= item /\ t.at <= now /\ t.at \in Nat
          /\ (t.version < item => t.at <= retired[t.version + 1] + d)
        BY <1>4 DEF Held, Version, Local!Token
    <2>2. CASE t.version = item
        BY <1>1, <1>2, <2>1, <2>2
    <2>3. CASE t.version < item
        <3>1. t.version + 1 \in 1..item
            BY <1>1, <2>1, <2>3
        <3> QED
            BY <1>1, <1>2, <2>1, <2>3, <3>1
    <2> QED
        BY <1>1, <2>1, <2>2, <2>3
<1>5. ASSUME NEW r \in Local!Reference, file'[r] # Local!Missing
      PROVE  file'[r].of = r /\ Held(file[r], OpTime)'
    <2>1. file[r] \in Local!Token /\ file[r].of = r /\ Held(file[r], OpTime) /\ file' = file
        BY <1>1, <1>5 DEF LocalInv, LocalTypes
    <2> QED
        BY <1>1, <1>4, <2>1, LocalNumbers DEF Held, Version
<1>6. \A q \in Process : Local!OpPath(q)' = Local!OpPath(q)
    BY <1>1 DEF Local!OpPath, Local!Value, Local!Sources
<1>7. ASSUME NEW q \in Process PROVE Hand(q, at[q], got[q])'
    <2>1. got[q] \in Local!Token /\ Hand(q, at[q], got[q]) /\ got' = got /\ at' = at /\ now' = now
        BY <1>1 DEF LocalInv, LocalTypes
    <2>2. ASSUME NEW d \in Nat, Held(got[q], d) PROVE Held(got[q], d)'
        BY <1>1, <1>4, <2>1, <2>2 DEF Held, Version
    <2>3. 0 \in Nat /\ OpTime \in Nat /\ OpTime + Ttl - 1 \in Nat
        BY LocalNumbers
    <2>4. at[q] = "asks" /\ got[q].of # "none" => Held(got[q], 0)'
        BY <2>1, <2>2, <2>3 DEF Hand
    <2>5. at[q] = "writes" => Held(got[q], OpTime)'
        BY <2>1, <2>2, <2>3 DEF Hand
    <2>6. at[q] = "token" /\ got[q].of \in Local!Reference => Held(got[q], OpTime + Ttl - 1)'
        BY <2>1, <2>2, <2>3 DEF Hand
    <2> QED
        BY <1>6, <2>1, <2>4, <2>5, <2>6 DEF Hand
<1> QED
    BY <1>3, <1>5, <1>7 DEF LocalInv, Local!Missing

\* Time passes, and `op read` is given up in time.
LEMMA TimeKeeps ==
    ASSUME LocalInv, Local!Tick
    PROVE  LocalInv'
<1>1. /\ now \in Nat /\ LocalTypes /\ now' = now + 1
      /\ UNCHANGED <<item, retired, settings, agent, at, got, file>>
    BY DEF LocalInv, LocalTypes, Local!Tick
<1>2. LocalTypes'
    BY <1>1 DEF LocalTypes
<1>3. ASSUME NEW r \in Local!Reference, file'[r] # Local!Missing
      PROVE  file'[r].of = r /\ Held(file[r], OpTime)'
    <2>1. file[r] \in Local!Token /\ file[r].of = r /\ Held(file[r], OpTime) /\ file' = file
        BY <1>1, <1>3 DEF LocalInv, LocalTypes
    <2>2. file[r].at \in Nat
        BY <2>1 DEF Local!Token
    <2> QED
        BY <1>1, <2>1, <2>2 DEF Held, Version
<1>4. \A q \in Process : Local!OpPath(q)' = Local!OpPath(q)
    BY <1>1 DEF Local!OpPath, Local!Value, Local!Sources
<1>5. ASSUME NEW q \in Process PROVE Hand(q, at[q], got[q])'
    <2>1. got[q] \in Local!Token /\ got[q].at \in Nat /\ Hand(q, at[q], got[q]) /\ got' = got /\ at' = at
        BY <1>1 DEF LocalInv, LocalTypes, Local!Token
    <2>2. \A d \in {0, OpTime, OpTime + Ttl - 1} : Held(got[q], d) => Version(got[q])' /\
              (got[q].version < item => got[q].at <= retired[got[q].version + 1] + d)
        BY <1>1, <2>1 DEF Held, Version
    <2>3. at[q] = "asks" => now' <= got[q].at + OpTime
        <3>1. at[q] = "asks" => now - got[q].at < OpTime
            BY DEF Local!Tick
        <3> QED
            BY <1>1, <2>1, <3>1, LocalNumbers
    <2>4. got[q].at <= now'
        BY <1>1, <2>1 DEF Hand
    <2> QED
        BY <1>1, <1>4, <2>1, <2>2, <2>3, <2>4 DEF Hand, Held, Version
<1> QED
    BY <1>2, <1>3, <1>5 DEF LocalInv, Local!Missing

\* Every step leaves every token in hand and every cache file recent.
LEMMA LocalStep == LocalInv /\ [Local!Next]_Local!vars => LocalInv'
<1> SUFFICES ASSUME LocalInv, [Local!Next]_Local!vars PROVE LocalInv'
    OBVIOUS
<1>1. CASE UNCHANGED Local!vars
    <2>1. UNCHANGED <<now, item, retired, settings, agent, at, got, file>>
        BY <1>1 DEF Local!vars
    <2>2. \A q \in Process : Local!OpPath(q)' = Local!OpPath(q)
        BY <2>1 DEF Local!OpPath, Local!Value, Local!Sources
    <2> QED
        BY <2>1, <2>2 DEF LocalInv, LocalTypes, Hand, Held, Version, Local!Missing
<1> QED
    BY <1>1, StartKeeps, ReadCacheKeeps, UnlinkKeeps, OpKeeps, WriteCacheKeeps, DiesKeeps, RotateKeeps,
       TimeKeeps DEF Local!Next, Local!Step

\* A process that starts holds no token and finds no cache file.
LEMMA LocalInit == Local!Init => LocalInv
<1> SUFFICES ASSUME Local!Init PROVE LocalInv
    OBVIOUS
<1>1. /\ now = 0 /\ item = 0 /\ retired = <<>> /\ at = [p \in Process |-> "new"]
      /\ got = [p \in Process |-> Local!Missing] /\ file = [r \in Local!Reference |-> Local!Missing]
      /\ settings \in [Process -> Settings] /\ agent \in [Process -> {"codex", "claude"}]
    BY DEF Local!Init
<1>2. Local!Missing \in Local!Token /\ Local!Missing.at = 0
    BY DEF Local!Missing, Local!Token
<1>3. LocalTypes
    BY <1>1, <1>2 DEF LocalTypes, Places
<1>4. \A p \in Process : Hand(p, at[p], got[p])
    BY <1>1, <1>2 DEF Hand
<1> QED
    BY <1>1, <1>3, <1>4 DEF LocalInv

\* Both a token looked up and one from the cache were held that recently.
LEMMA RecentFollows == LocalInv => TokenIsRecent
<1> SUFFICES ASSUME LocalInv, NEW p \in Process, at[p] \in {"writes", "token"}, got[p].of \in Local!Reference
             PROVE  /\ got[p].of = Local!OpPath(p)
                    /\ got[p].version < item => got[p].at < retired[got[p].version + 1] + Ttl + OpTime
    BY DEF TokenIsRecent, Local!TokenIsRecent
<1>1. Hand(p, at[p], got[p]) /\ LocalTypes /\ got[p] \in Local!Token
    BY DEF LocalInv, LocalTypes
<1>2. got[p].at \in Nat /\ got[p].version \in Nat
    BY <1>1 DEF Local!Token
<1>3. got[p].of = Local!OpPath(p) /\ (Held(got[p], OpTime) \/ Held(got[p], OpTime + Ttl - 1))
    BY <1>1 DEF Hand
<1>4. ASSUME got[p].version < item PROVE got[p].at < retired[got[p].version + 1] + Ttl + OpTime
    <2>1. retired[got[p].version + 1] \in Nat
        BY <1>1, <1>2, <1>4, RetiredTyped
    <2>2. got[p].at <= retired[got[p].version + 1] + OpTime
            \/ got[p].at <= retired[got[p].version + 1] + (OpTime + Ttl - 1)
        BY <1>3, <1>4 DEF Held
    <2> QED
        BY <1>2, <2>1, <2>2, LocalNumbers
<1> QED
    BY <1>3, <1>4

\* A process never starts with a token that 1Password has not held for longer
\* than the cache may keep it and `op read` may take, nor with another item's.
THEOREM TokensAreRecent == Local!Spec => []TokenIsRecent
BY RecentFollows, LocalInit, LocalStep, PTL DEF Local!Spec

-----------------------------------------------------------------------------
(* The parts together.                                                       *)

\* The part a behaviour is about satisfies its invariant, the others rest in a
\* state where nothing they promise is broken.
Parts ==
    /\ part = "store" => StoreInv
    /\ part = "disk" => DiskInv
    /\ part = "start" => LocalInv
    /\ part = "requests" => LInv
    /\ part # "start" => \A p \in Process : at[p] = "new"
    /\ StillAuthorized /\ StorageHolds /\ HourlyLimit /\ AppliedAtMostOnce

\* A part at rest keeps what it promises.
LEMMA RestHolds ==
    /\ Store!Init => StillAuthorized
    /\ Disk!Init => StorageHolds
    /\ NoRequests => HourlyLimit /\ AppliedAtMostOnce
    /\ Init => HourlyLimit /\ AppliedAtMostOnce
<1>1. Store!Init => StillAuthorized
    BY StoreInit DEF StoreInv
<1>2. Disk!Init => StorageHolds
    BY DiskInit, WholeFollows
<1>3. NoRequests => HourlyLimit /\ AppliedAtMostOnce
    BY DEF NoRequests, HourlyLimit, AppliedAtMostOnce
<1> QED
    BY <1>1, <1>2, <1>3, InitHolds, HourFollows, OnceFollows

\* A behaviour starts with one part at work and the others at rest.
LEMMA AccessInitHolds == AccessInit => Parts
<1> SUFFICES ASSUME AccessInit PROVE Parts
    OBVIOUS
<1>1. CASE part = "store" /\ Store!Init /\ NoDisk /\ NoStart /\ NoRequests
    BY <1>1, StoreInit, RestHolds DEF NoDisk, NoStart, Parts
<1>2. CASE part = "disk" /\ Disk!Init /\ NoCalls /\ NoStart /\ NoRequests
    BY <1>2, DiskInit, RestHolds DEF NoCalls, NoStart, Parts
<1>3. CASE part = "start" /\ Local!Init /\ NoCalls /\ NoDisk /\ NoRequests
    BY <1>3, LocalInit, RestHolds DEF NoCalls, NoDisk, Parts
<1>4. CASE part = "requests" /\ Init /\ NoCalls /\ NoDisk /\ NoStart
    BY <1>4, InitHolds, RestHolds DEF NoCalls, NoDisk, NoStart, Parts
<1> QED
    BY <1>1, <1>2, <1>3, <1>4 DEF AccessInit

\* What a part promises depends on its own variables alone.
LEMMA RestStays ==
    /\ StillAuthorized /\ UNCHANGED kept => StillAuthorized'
    /\ StorageHolds /\ UNCHANGED disk => StorageHolds'
    /\ HourlyLimit /\ AppliedAtMostOnce /\ UNCHANGED carried => HourlyLimit' /\ AppliedAtMostOnce'
<1>1. ASSUME StillAuthorized, UNCHANGED kept PROVE StillAuthorized'
    BY <1>1 DEF kept, StillAuthorized, Store!StillAuthorized, Store!Empty, Store!Turn
<1>2. ASSUME StorageHolds, UNCHANGED disk PROVE StorageHolds'
    BY <1>2 DEF disk, StorageHolds, Disk!StorageHolds, Disk!Count, Disk!Read, Disk!Index, Disk!Whole, Disk!Absent
<1>3. ASSUME HourlyLimit, AppliedAtMostOnce, UNCHANGED carried PROVE HourlyLimit' /\ AppliedAtMostOnce'
    BY <1>3 DEF carried, bucket, HourlyLimit, AppliedAtMostOnce, Full
<1> QED
    BY <1>1, <1>2, <1>3

\* A step is one of the part at work, under its own lemma, and leaves the others.
LEMMA AccessStepHolds == Parts /\ [AccessNext]_all => Parts'
<1> SUFFICES ASSUME Parts, [AccessNext]_all PROVE Parts'
    OBVIOUS
<1>1. CASE Stores
    <2>1. part = "store" /\ Store!Next /\ UNCHANGED <<part, disk, at, carried>>
        BY <1>1 DEF Stores, found
    <2>2. StoreInv'
        BY <2>1, StoreStep DEF Parts
    <2> QED
        BY <2>1, <2>2, RestStays DEF Parts, StoreInv
<1>2. CASE Disks
    <2>1. part = "disk" /\ Disk!Next /\ UNCHANGED <<part, kept, at, carried>>
        BY <1>2 DEF Disks, found
    <2>2. DiskInv'
        BY <2>1, DiskStep DEF Parts
    <2>3. StorageHolds'
        BY <2>2, WholeFollows, PTL
    <2> QED
        BY <2>1, <2>2, <2>3, RestStays DEF Parts
<1>3. CASE Starts
    <2>1. part = "start" /\ Local!Next /\ UNCHANGED <<part, kept, disk, carried>>
        BY <1>3 DEF Starts
    <2>2. LocalInv'
        BY <2>1, LocalStep DEF Parts
    <2> QED
        BY <2>1, <2>2, RestStays DEF Parts
<1>4. CASE Requests
    <2>1. part = "requests" /\ Next /\ UNCHANGED <<part, kept, disk, at>>
        BY <1>4 DEF Requests, found
    <2>2. LInv'
        BY <2>1, StepHolds DEF Parts
    <2>3. HourlyLimit' /\ AppliedAtMostOnce'
        BY <2>2, HourFollows, OnceFollows, PTL
    <2> QED
        BY <2>1, <2>2, <2>3, RestStays DEF Parts
<1>5. CASE UNCHANGED all
    <2>1. UNCHANGED <<part, at>> /\ UNCHANGED kept /\ UNCHANGED disk /\ UNCHANGED carried
        BY <1>5 DEF all, found
    <2>2. UNCHANGED Store!vars /\ UNCHANGED Disk!vars /\ UNCHANGED Local!vars /\ UNCHANGED vars
        BY <1>5 DEF all, kept, disk, found, carried, bucket, vars, Store!vars, Store!object, Disk!vars, Local!vars
    <2>3. /\ part = "store" => StoreInv'
          /\ part = "disk" => DiskInv'
          /\ part = "start" => LocalInv'
          /\ part = "requests" => LInv'
        BY <2>2, StoreStep, DiskStep, LocalStep, StepHolds DEF Parts
    <2> QED
        BY <2>1, <2>3, RestStays DEF Parts
<1> QED
    BY <1>1, <1>2, <1>3, <1>4, <1>5 DEF AccessNext

\* In behaviours of any part the safety of all of them holds: no hour with too
\* many requests, no write twice, no consent lost, no journal torn, no old token.
THEOREM AccessIsSafe ==
    AccessSpec => [](StillAuthorized /\ StorageHolds /\ TokenIsRecent /\ HourlyLimit /\ AppliedAtMostOnce)
<1>1. Parts => StillAuthorized /\ StorageHolds /\ TokenIsRecent /\ HourlyLimit /\ AppliedAtMostOnce
    BY RecentFollows DEF Parts, TokenIsRecent, Local!TokenIsRecent
<1> QED
    BY <1>1, AccessInitHolds, AccessStepHolds, PTL DEF AccessSpec

\* A step that is not of the store leaves it alone.
LEMMA OthersKeepOut == [AccessNext]_all => (part = "store" /\ Store!Next) \/ UNCHANGED kept
BY DEF AccessNext, Stores, Disks, Starts, Requests, all

\* Beside the other parts too no session is given an expired token, and the
\* store carries out each request at once.
THEOREM AccessKeepsTokens == AccessSpec => TokenIsAlive /\ IsAtomic
<1> DEFINE Alive == \A c \in Call : Path(c) = "token" /\ answer[c] = "none" /\ answer'[c] = "done" =>
                        now < store'[Of(c)].ends
<1>1. ASSUME Parts, [AccessNext]_all PROVE [Alive]_Store!vars
    <2>1. CASE part = "store" /\ Store!Next
        BY <1>1, <2>1, GivenAlive DEF Parts
    <2>2. CASE UNCHANGED kept
        BY <2>2 DEF kept
    <2> QED
        BY <1>1, <2>1, <2>2, OthersKeepOut
<1>2. ASSUME Parts, Parts', [AccessNext]_all PROVE AtomicStep
    <2>1. CASE part = "store" /\ Store!Next
        <3>1. part' = part
            BY <1>2, <2>1 DEF AccessNext, Stores, Disks, Starts, Requests, all
        <3> QED
            BY <1>2, <2>1, <3>1, StepIsAtomic DEF Parts
    <2>2. CASE UNCHANGED kept
        <3>1. UNCHANGED Store!Stored /\ UNCHANGED Store!Accepted
            BY <2>2 DEF kept, Store!Stored, Store!Accepted, Store!Turn
        <3> QED
            BY <2>2, <3>1 DEF kept, AtomicStep, Store!Atomic!vars
    <2> QED
        BY <1>2, <2>1, <2>2, OthersKeepOut
<1>3. AccessInit => Store!Atomic!Init
    BY InitIsAtomic DEF AccessInit, NoCalls
<1> QED
    BY <1>1, <1>2, <1>3, AccessInitHolds, AccessStepHolds, PTL
       DEF AccessSpec, TokenIsAlive, Store!TokenIsAlive, IsAtomic, Store!IsAtomic, Store!Atomic!Spec, AtomicStep
=============================================================================
