------------------------- MODULE GuardedWriteProofs -------------------------
(***************************************************************************)
(* Proofs about the writes behind previews, for every number of sessions,  *)
(* calls, previews, retries, edits and faults, and whatever the tools read *)
(* and send.  The argument: a preview is in the store or with the one call *)
(* that has claimed it (Issued, Granted); what YNAB has processed for a    *)
(* call, what is being sent and what is still on its way are paid for by   *)
(* different intents of the approved plan (Spending); and calls of one     *)
(* instance do not overlap (InTurn), so that only others can come between  *)
(* a fresh read and the write it allows (Reviewed).                        *)
(***************************************************************************)
EXTENDS GuardedWrite, FiniteSetTheorems, SequenceTheorems, TLAPS

-----------------------------------------------------------------------------
(* The inductive invariant.                                                *)

\* What the variables hold, the history included.
Typed ==
    /\ hosted \in BOOLEAN
    /\ world \in State
    /\ late \subseteq CallNo \X Request
    /\ stored \subseteq Preview
    /\ call \in Seq(Call) /\ Len(call) <= MaxCalls
    /\ pc \in [Made -> Location]
    /\ plan \in [Made -> PlanSpace \cup {NoPlan}]
    /\ grant \in [Made -> Preview \cup {NoPreview}]
    /\ todo \in [Made -> Seq(Request)]
    /\ used \in [Made -> SUBSET Nat]
    /\ attempt \in [Made -> 0..MaxRetries]
    /\ processed \in [Made -> Seq(Request)]
    /\ disturbed \subseteq Made
    /\ DOMAIN approved \subseteq Made /\ approved \in [DOMAIN approved -> PlanSpace]
    /\ now \in 0..MaxTime /\ edits \in 0..MaxEdits /\ faults \in 0..MaxFaults

\* A store of a limited size for each owner.
Roomy(S) == \A p \in S : Cardinality({q \in S : q.owner = p.owner}) <= MaxStored
Bounded == IsFiniteSet(stored) /\ Roomy(stored)

\* A call has a plan once it has read, and uses it up only when it writes.
PlannedAt(c) ==
    /\ pc[c] \in {"capture", "handler", "send", "fetch"} => plan[c] \in PlanSpace /\ plan[c].input = call[c].input
    /\ used[c] \subseteq DOMAIN plan[c].intents
    /\ pc[c] \in {"queued", "read", "capture", "handler"} => used[c] = {}
Planned == \A c \in Made : PlannedAt(c)

\* A call that has started has let the earlier ones of its instance end.
InTurn ==
    \A c, d \in Made :
        d < c /\ call[d].session = call[c].session /\ pc[c] # "queued" => pc[d] \in {"ended", "done"}

\* A stored preview holds the plan its token was issued for, to its owner.
Issued ==
    /\ \A t \in DOMAIN approved : pc[t] = "done"
    /\ \A p \in stored :
        /\ p.token \in Made /\ pc[p.token] \in {"ended", "done"}
        /\ p.owner = OwnerOf(call[p.token].session)
        /\ p.token \in DOMAIN approved => p.plan = approved[p.token]
    /\ \A p, q \in stored : p.token = q.token => p = q
    /\ \A c \in Made : call[c].kind = "write" => call[c].token \in DOMAIN approved

\* A claimed preview is out of the store, and with one call.
HasGrant(c) == grant[c] # NoPreview
GrantedAt(c) ==
    /\ HasGrant(c) =>
          /\ call[c].kind = "write" /\ grant[c].plan = approved[call[c].token]
          /\ Owner(c) = OwnerOf(call[call[c].token].session)
          /\ \A p \in stored : p.token # call[c].token
          /\ \A d \in Made : HasGrant(d) /\ call[d].token = call[c].token => d = c
    /\ Active(c) /\ call[c].kind = "write" => HasGrant(c)
    /\ pc[c] \in {"handler", "send", "fetch"} => call[c].kind = "write"
Granted == \A c \in Made : GrantedAt(c)

\* What was processed, is being sent or is on its way has used up as many
\* intents of the approved plan.
SpentOn(c, r) == {k \in used[c] : plan[c].intents[k] = r}
InFlight(c, r) == IF pc[c] = "fetch" /\ Head(todo[c]) = r THEN 1 ELSE 0
Delayed(c, r) == IF <<c, r>> \in late THEN 1 ELSE 0
Paid(c) ==
    \A r \in Request :
        Times(r, processed[c]) + InFlight(c, r) + Delayed(c, r) <= Cardinality(SpentOn(c, r))
SpendingAt(c) ==
    /\ pc[c] \in {"handler", "send", "fetch"} \/ used[c] # {} =>
          HasGrant(c) /\ plan[c] = approved[call[c].token]
    /\ used[c] = {} => processed[c] = <<>>
    /\ pc[c] = "fetch" => todo[c] # <<>>
    /\ Paid(c)
Spending ==
    /\ \A q \in late : q[1] \in Made /\ pc[q[1]] = "ended"
    /\ \A c \in Made : SpendingAt(c)

\* Until its first request is processed, an undisturbed call knows what YNAB
\* holds.
ReviewedAt(c) ==
    pc[c] \in {"capture", "handler", "send", "fetch"} /\ processed[c] = <<>> /\ c \notin disturbed =>
        plan[c].before = View(call[c].input, world)
Reviewed == \A c \in Made : ReviewedAt(c)

IInv == Typed /\ Bounded /\ Planned /\ InTurn /\ Issued /\ Granted /\ Spending /\ Reviewed

-----------------------------------------------------------------------------
(* Lemmas about sequences and what they count.                             *)

\* A function from the first numbers is a sequence.
LEMMA FunctionIsSequence ==
    ASSUME NEW m \in Nat, NEW S, NEW f \in [1..m -> S]
    PROVE  f \in Seq(S) /\ Len(f) = m
<1>1. f \in Seq(S)
    BY SeqDef
<1>2. DOMAIN f = 1..Len(f) /\ Len(f) \in Nat
    BY <1>1, LenProperties
<1> QED
    BY <1>1, <1>2

\* What appending does to it.
LEMMA AppendShape ==
    ASSUME NEW S, NEW f \in Seq(S), NEW x \in S, NEW n, n = Len(f) + 1
    PROVE  /\ Append(f, x) \in [1..n -> S]
           /\ \A i \in 1..Len(f) : Append(f, x)[i] = f[i]
           /\ Append(f, x)[n] = x
<1>1. /\ Append(f, x) \in Seq(S) /\ Len(Append(f, x)) = n /\ Len(f) \in Nat
      /\ \A i \in 1..Len(f) : Append(f, x)[i] = f[i]
      /\ Append(f, x)[n] = x
    BY AppendProperties, LenProperties
<1> QED
    BY <1>1, LenProperties

\* How often an element occurs is a number, and grows with the sequence.
LEMMA TimesAppend ==
    ASSUME NEW S, NEW rs \in Seq(S), NEW x \in S, NEW r
    PROVE  /\ Times(r, rs) \in Nat
           /\ Times(r, Append(rs, x)) = Times(r, rs) + (IF x = r THEN 1 ELSE 0)
<1> DEFINE n == Len(rs)
           K == {k \in DOMAIN rs : rs[k] = r}
           L == {k \in DOMAIN Append(rs, x) : Append(rs, x)[k] = r}
<1>1. /\ n \in Nat /\ DOMAIN rs = 1..n /\ DOMAIN Append(rs, x) = 1..(n + 1)
      /\ \A i \in 1..n : Append(rs, x)[i] = rs[i]
      /\ Append(rs, x)[n + 1] = x
    BY AppendProperties, LenProperties
<1>2. IsFiniteSet(K) /\ Cardinality(K) \in Nat
    <2>1. IsFiniteSet(1..n)
        BY <1>1, FS_Interval
    <2>2. K \in SUBSET (1..n)
        BY <1>1
    <2> QED
        BY <2>1, <2>2, FS_Subset, FS_CardinalityType
<1>3. L = IF x = r THEN K \cup {n + 1} ELSE K
    <2>1. 1..(n + 1) = (1..n) \cup {n + 1}
        BY <1>1
    <2>2. L = {k \in (1..n) \cup {n + 1} : Append(rs, x)[k] = r}
        BY <1>1, <2>1
    <2> HIDE DEF n
    <2>3. L = {k \in 1..n : rs[k] = r} \cup {k \in {n + 1} : x = r}
        BY <1>1, <2>2
    <2> QED
        BY <1>1, <2>3
<1>4. n + 1 \notin K
    BY <1>1
<1> HIDE DEF K, L, n
<1>5. Cardinality(K \cup {n + 1}) = Cardinality(K) + 1
    BY <1>2, <1>4, FS_AddElement
<1>6. Cardinality(L) = IF x = r THEN Cardinality(K) + 1 ELSE Cardinality(K)
    BY <1>3, <1>5
<1>7. Times(r, rs) = Cardinality(K) /\ Times(r, Append(rs, x)) = Cardinality(L)
    BY DEF Times, K, L
<1> QED
    BY <1>2, <1>6, <1>7

\* Nothing occurs in the empty sequence, and something in any other.
LEMMA TimesBasics ==
    ASSUME NEW S, NEW rs \in Seq(S)
    PROVE  /\ \A r : Times(r, <<>>) = 0
           /\ \A k \in DOMAIN rs : Times(rs[k], rs) >= 1
<1>1. ASSUME NEW r PROVE Times(r, <<>>) = 0
    <2>1. {k \in DOMAIN <<>> : (<<>>)[k] = r} = {}
        OBVIOUS
    <2> QED
        BY <2>1, FS_EmptySet DEF Times
<1>2. ASSUME NEW k \in DOMAIN rs PROVE Times(rs[k], rs) >= 1
    <2> DEFINE K == {j \in DOMAIN rs : rs[j] = rs[k]}
    <2>1. DOMAIN rs = 1..Len(rs) /\ Len(rs) \in Nat
        BY LenProperties
    <2>2. IsFiniteSet(1..Len(rs))
        BY <2>1, FS_Interval
    <2>3. {k} \in SUBSET K /\ K \in SUBSET (1..Len(rs))
        BY <2>1
    <2> HIDE DEF K
    <2>4. IsFiniteSet(K) /\ Cardinality({k}) <= Cardinality(K) /\ Cardinality({k}) = 1
        BY <2>2, <2>3, FS_Subset, FS_Singleton
    <2>5. Cardinality(K) \in Nat
        BY <2>4, FS_CardinalityType
    <2> QED
        BY <2>4, <2>5 DEF Times, K
<1> QED
    BY <1>1, <1>2

-----------------------------------------------------------------------------
(* Types.                                                                  *)

\* The call a submission adds, the last, and those it leaves as they are.
LEMMA SubmitShape ==
    ASSUME Typed, NEW s \in Session, NEW kind \in {"preview", "write"}, NEW i \in Input,
           NEW t \in 0..MaxCalls, Submit(s, kind, i, t), NEW n, n = Len(call) + 1
    PROVE  /\ n \notin Made /\ Made' = Made \cup {n} /\ n \in 1..MaxCalls
           /\ Made = 1..Len(call) /\ Len(call) \in Nat
           /\ \A c \in Made : /\ call'[c] = call[c] /\ pc'[c] = pc[c] /\ plan'[c] = plan[c]
                              /\ grant'[c] = grant[c] /\ todo'[c] = todo[c] /\ used'[c] = used[c]
                              /\ attempt'[c] = attempt[c] /\ processed'[c] = processed[c]
           /\ call'[n] = [session |-> s, kind |-> kind, input |-> i, token |-> t]
           /\ pc'[n] = "queued" /\ plan'[n] = NoPlan /\ grant'[n] = NoPreview
           /\ todo'[n] = <<>> /\ used'[n] = {} /\ processed'[n] = <<>>
           /\ Typed'
<1> DEFINE e == [session |-> s, kind |-> kind, input |-> i, token |-> t]
<1>1. /\ e \in Call /\ call \in Seq(Call) /\ call' = Append(call, e)
      /\ {MaxCalls, MaxShared, MaxRetries} \subseteq Nat /\ MaxShared <= MaxCalls
    BY GuardAssumption DEF Call, Typed, Submit
<1>2. /\ n \in Nat \ {0} /\ Len(call) \in Nat /\ Made = 1..Len(call) /\ n = Len(call) + 1
      /\ call' \in Seq(Call) /\ Len(call') = n /\ Made' = 1..n
      /\ \A c \in Made : call'[c] = call[c]
      /\ call'[n] = e
    BY <1>1, AppendProperties, LenProperties DEF Made
<1>2a. Len(call) \in Nat /\ n = Len(call) + 1
    BY <1>2
<1>3. n <= MaxCalls
    <2>1. Len(call) < MaxCalls \/ Len(call) < MaxShared
        BY Zenon DEF Submit
    <2>2. MaxCalls \in Nat /\ MaxShared \in Nat /\ MaxShared <= MaxCalls
        BY <1>1
    <2> QED
        BY <1>2a, <2>1, <2>2
<1>4. n \notin Made /\ Made' = Made \cup {n} /\ n \in 1..MaxCalls
    BY <1>1, <1>2, <1>3
<1>5. /\ pc' \in [Made' -> Location] /\ pc'[n] = "queued" /\ \A c \in Made : pc'[c] = pc[c]
    <2>1a. pc \in [1..Len(call) -> Location] /\ "queued" \in Location /\ pc' = Append(pc, "queued")
        BY <1>1, <1>2, EmptySeq DEF Typed, Submit, Location
    <2>1b. pc \in Seq(Location) /\ Len(pc) = Len(call)
        BY <1>2a, <2>1a, FunctionIsSequence
    <2>1. /\ pc' \in [1..n -> Location] /\ pc'[n] = "queued"
          /\ \A c \in 1..Len(call) : pc'[c] = pc[c]
        BY <2>1a, <2>1b, AppendShape
    <2> QED
        BY <1>2, <2>1
<1>6. /\ plan' \in [Made' -> PlanSpace \cup {NoPlan}] /\ plan'[n] = NoPlan /\ \A c \in Made : plan'[c] = plan[c]
    <2>1a. plan \in [1..Len(call) -> PlanSpace \cup {NoPlan}] /\ NoPlan \in PlanSpace \cup {NoPlan} /\ plan' = Append(plan, NoPlan)
        BY <1>1, <1>2, EmptySeq DEF Typed, Submit
    <2>1b. plan \in Seq(PlanSpace \cup {NoPlan}) /\ Len(plan) = Len(call)
        BY <1>2a, <2>1a, FunctionIsSequence
    <2>1. /\ plan' \in [1..n -> PlanSpace \cup {NoPlan}] /\ plan'[n] = NoPlan
          /\ \A c \in 1..Len(call) : plan'[c] = plan[c]
        BY <2>1a, <2>1b, AppendShape
    <2> QED
        BY <1>2, <2>1
<1>7. /\ grant' \in [Made' -> Preview \cup {NoPreview}] /\ grant'[n] = NoPreview /\ \A c \in Made : grant'[c] = grant[c]
    <2>1a. grant \in [1..Len(call) -> Preview \cup {NoPreview}] /\ NoPreview \in Preview \cup {NoPreview} /\ grant' = Append(grant, NoPreview)
        BY <1>1, <1>2, EmptySeq DEF Typed, Submit
    <2>1b. grant \in Seq(Preview \cup {NoPreview}) /\ Len(grant) = Len(call)
        BY <1>2a, <2>1a, FunctionIsSequence
    <2>1. /\ grant' \in [1..n -> Preview \cup {NoPreview}] /\ grant'[n] = NoPreview
          /\ \A c \in 1..Len(call) : grant'[c] = grant[c]
        BY <2>1a, <2>1b, AppendShape
    <2> QED
        BY <1>2, <2>1
<1>8. /\ todo' \in [Made' -> Seq(Request)] /\ todo'[n] = <<>> /\ \A c \in Made : todo'[c] = todo[c]
      /\ processed' \in [Made' -> Seq(Request)] /\ processed'[n] = <<>> /\ \A c \in Made : processed'[c] = processed[c]
    <2> DEFINE S == Seq(Request)
    <2>1a. todo \in [1..Len(call) -> S] /\ <<>> \in S /\ todo' = Append(todo, <<>>)
        BY <1>1, <1>2, EmptySeq DEF Typed, Submit
    <2>2a. processed \in [1..Len(call) -> S] /\ <<>> \in S /\ processed' = Append(processed, <<>>)
        BY <1>1, <1>2, EmptySeq DEF Typed, Submit
    <2> HIDE DEF S
    <2>1b. todo \in Seq(S) /\ Len(todo) = Len(call)
        BY <1>2a, <2>1a, FunctionIsSequence
    <2>1. /\ todo' \in [1..n -> S] /\ todo'[n] = <<>>
          /\ \A c \in 1..Len(call) : todo'[c] = todo[c]
        BY <2>1a, <2>1b, AppendShape
    <2>2b. processed \in Seq(S) /\ Len(processed) = Len(call)
        BY <1>2a, <2>2a, FunctionIsSequence
    <2>2. /\ processed' \in [1..n -> S] /\ processed'[n] = <<>>
          /\ \A c \in 1..Len(call) : processed'[c] = processed[c]
        BY <2>2a, <2>2b, AppendShape
    <2> QED
        BY <1>2, <2>1, <2>2 DEF S
<1>9. /\ used' \in [Made' -> SUBSET Nat] /\ used'[n] = {} /\ \A c \in Made : used'[c] = used[c]
      /\ attempt' \in [Made' -> 0..MaxRetries] /\ attempt'[n] = 0 /\ \A c \in Made : attempt'[c] = attempt[c]
    <2> DEFINE R == 0..MaxRetries
    <2>1a. used \in [1..Len(call) -> SUBSET Nat] /\ {} \in SUBSET Nat /\ used' = Append(used, {})
        BY <1>1, <1>2, EmptySeq DEF Typed, Submit
    <2>2a. attempt \in [1..Len(call) -> R] /\ 0 \in R /\ attempt' = Append(attempt, 0)
        BY <1>1, <1>2, EmptySeq DEF Typed, Submit
    <2> HIDE DEF R
    <2>1b. used \in Seq(SUBSET Nat) /\ Len(used) = Len(call)
        BY <1>2a, <2>1a, FunctionIsSequence
    <2>1. /\ used' \in [1..n -> SUBSET Nat] /\ used'[n] = {}
          /\ \A c \in 1..Len(call) : used'[c] = used[c]
        BY <2>1a, <2>1b, AppendShape
    <2>2b. attempt \in Seq(R) /\ Len(attempt) = Len(call)
        BY <1>2a, <2>2a, FunctionIsSequence
    <2>2. /\ attempt' \in [1..n -> R] /\ attempt'[n] = 0
          /\ \A c \in 1..Len(call) : attempt'[c] = attempt[c]
        BY <2>2a, <2>2b, AppendShape
    <2> QED
        BY <1>2, <2>1, <2>2 DEF R
<1>10. Typed'
    <2>1. UNCHANGED <<hosted, world, late, stored, now, edits, faults, approved, disturbed>>
        BY DEF Submit
    <2>2. /\ hosted \in BOOLEAN /\ world \in State /\ late \subseteq CallNo \X Request /\ stored \subseteq Preview
          /\ now \in 0..MaxTime /\ edits \in 0..MaxEdits /\ faults \in 0..MaxFaults
          /\ disturbed \subseteq Made
          /\ DOMAIN approved \subseteq Made /\ approved \in [DOMAIN approved -> PlanSpace]
        BY DEF Typed
    <2>3. Made \subseteq Made'
        BY <1>4
    <2>4. Len(call') <= MaxCalls
        BY <1>2, <1>3
    <2>5. /\ hosted' \in BOOLEAN /\ world' \in State /\ late' \subseteq CallNo \X Request /\ stored' \subseteq Preview
          /\ now' \in 0..MaxTime /\ edits' \in 0..MaxEdits /\ faults' \in 0..MaxFaults
          /\ disturbed' \subseteq Made'
          /\ DOMAIN approved' \subseteq Made' /\ approved' \in [DOMAIN approved' -> PlanSpace]
        BY <2>1, <2>2, <2>3, Zenon
    <2>6. /\ call' \in Seq(Call) /\ pc' \in [Made' -> Location] /\ plan' \in [Made' -> PlanSpace \cup {NoPlan}]
          /\ grant' \in [Made' -> Preview \cup {NoPreview}] /\ todo' \in [Made' -> Seq(Request)]
          /\ used' \in [Made' -> SUBSET Nat] /\ attempt' \in [Made' -> 0..MaxRetries]
          /\ processed' \in [Made' -> Seq(Request)]
        BY <1>2, <1>5, <1>6, <1>7, <1>8, <1>9, Zenon
    <2> QED
        BY <2>4, <2>5, <2>6, Zenon DEF Typed
<1>11. \A c \in Made : /\ call'[c] = call[c] /\ pc'[c] = pc[c] /\ plan'[c] = plan[c]
                       /\ grant'[c] = grant[c] /\ todo'[c] = todo[c] /\ used'[c] = used[c]
                       /\ attempt'[c] = attempt[c] /\ processed'[c] = processed[c]
    BY <1>2, <1>5, <1>6, <1>7, <1>8, <1>9, Zenon
<1> QED
    BY <1>2, <1>4, <1>5, <1>6, <1>7, <1>8, <1>9, <1>10, <1>11, Zenon

\* The types of what a call in the making is made of.
LEMMA CallTypes ==
    ASSUME Typed, NEW c \in Made
    PROVE  /\ c \in CallNo /\ Made \subseteq CallNo
           /\ call[c] \in Call /\ call[c].session \in Session /\ call[c].input \in Input
           /\ Owner(c) \in Session \cup {Consent}
           /\ Requests(call[c].input, world) \in Seq(Request)
           /\ View(call[c].input, world) \in {View(i, s) : i \in Input, s \in State}
           /\ now + Ttl \in Nat
<1>1. /\ call \in Seq(Call) /\ Len(call) <= MaxCalls /\ MaxCalls \in Nat /\ Ttl \in Nat /\ MaxTime \in Nat
      /\ now \in 0..MaxTime /\ world \in State
    BY GuardAssumption DEF Typed
<1>2. Made = 1..Len(call) /\ Len(call) \in Nat /\ call[c] \in Call
    BY <1>1, LenProperties, ElementOfSeq DEF Made
<1>3. c \in CallNo /\ Made \subseteq CallNo
    BY <1>1, <1>2 DEF CallNo
<1>4. call[c].session \in Session /\ call[c].input \in Input
    BY <1>2 DEF Call
<1>5. Owner(c) \in Session \cup {Consent}
    BY <1>4 DEF Owner, OwnerOf
<1>6. Requests(call[c].input, world) \in Seq(Request)
    BY <1>1, <1>4, GuardAssumption
<1>7. now + Ttl \in Nat
    BY <1>1
<1> QED
    BY <1>1, <1>2, <1>3, <1>4, <1>5, <1>6, <1>7

\* A prepared plan is a plan.
LEMMA PreparedType ==
    ASSUME Typed, NEW c \in Made, plan[c] \in PlanSpace
    PROVE  /\ Prepared(c) \in PlanSpace
           /\ Prepared(c).input = plan[c].input /\ Prepared(c).before = plan[c].before
           /\ Prepared(c).intents = Requests(call[c].input, world)
BY CallTypes DEF Prepared, PlanSpace

\* A store gains the preview of the call that issues it.
LEMMA StoreType ==
    ASSUME Typed, NEW c \in Made, plan[c] \in PlanSpace, Store(c)
    PROVE  /\ stored' \subseteq Preview
           /\ \A p \in stored' : p \in stored \/
                 /\ p.token = c /\ p.owner = Owner(c) /\ p.plan = Prepared(c) /\ p.expires = now + Ttl
<1> DEFINE e == [token |-> c, owner |-> Owner(c), plan |-> Prepared(c), expires |-> now + Ttl]
<1>1. e \in Preview
    BY CallTypes, PreparedType DEF Preview
<1>2. stored' \subseteq stored \cup {e}
    BY DEF Store, Mine
<1> QED
    BY <1>1, <1>2 DEF Typed

\* A fault spends one of those a run allows.
LEMMA FaultTyped ==
    ASSUME Typed, Fault
    PROVE  faults' \in 0..MaxFaults
<1>1. faults \in 0..MaxFaults
    BY DEF Typed
<1>2. MaxFaults \in Nat
    BY GuardAssumption
<1>3. faults < MaxFaults /\ faults' = faults + 1
    BY DEF Fault
<1> QED
    BY <1>1, <1>2, <1>3

\* What a step of call c leaves alone: the call itself, and the other calls.
CallStep(c) ==
    /\ call' = call /\ hosted' = hosted /\ Made' = Made
    /\ disturbed \subseteq disturbed'
    /\ \A d \in Made \ {c} :
           /\ pc'[d] = pc[d] /\ plan'[d] = plan[d] /\ grant'[d] = grant[d]
           /\ todo'[d] = todo[d] /\ used'[d] = used[d] /\ processed'[d] = processed[d]
    /\ pc[c] \notin {"ended", "done"} /\ pc'[c] \in Location \ {"queued"}
    /\ pc[c] = "queued" => Turn(c)
    /\ Typed'

\* The steps that claim a preview, or fail to.
LEMMA ClaimSteps ==
    ASSUME Typed, NEW c \in Made, StartPreview(c) \/ Claim(c) \/ ClaimMissing(c) \/ ClaimLost(c)
    PROVE  CallStep(c)
<1>1. CASE StartPreview(c)
    BY <1>1 DEF StartPreview, CallStep, Typed, Goto, Location, Made, history
<1>2. CASE Claim(c)
    <2>1. /\ stored' \subseteq stored
          /\ \E p \in stored : grant' \in {grant, [grant EXCEPT ![c] = p]}
          /\ pc' = [pc EXCEPT ![c] = "read"] \/ pc' = [pc EXCEPT ![c] = "ended"]
          /\ pc[c] = "queued" /\ Turn(c)
          /\ UNCHANGED <<hosted, world, late, call, plan, todo, used, attempt, now, edits, faults,
                         approved, processed, disturbed>>
        BY <1>2 DEF Claim, Claimable, Purged, Goto, history
    <2>2. grant' \in [Made -> Preview \cup {NoPreview}] /\ \A d \in Made \ {c} : grant'[d] = grant[d]
        BY <2>1 DEF Typed
    <2>3. /\ pc' \in [Made -> Location] /\ \A d \in Made \ {c} : pc'[d] = pc[d]
          /\ pc'[c] \in Location \ {"queued"}
        BY <2>1 DEF Typed, Location
    <2> HIDE <1>2
    <2> QED
        BY <2>1, <2>2, <2>3 DEF CallStep, Typed, Made
<1>3. CASE ClaimMissing(c)
    BY <1>3 DEF ClaimMissing, Purged, CallStep, Typed, Goto, Location, Made, history
<1>4. CASE ClaimLost(c)
    <2>1. faults' \in 0..MaxFaults
        BY <1>4, FaultTyped DEF ClaimLost
    <2> QED
        BY <1>4, <2>1 DEF ClaimLost, Claimable, CallStep, Typed, Goto, Location, Made, history
<1> QED
    BY <1>1, <1>2, <1>3, <1>4

\* The steps that read and prepare a plan, and issue or validate it.
LEMMA PlanSteps ==
    ASSUME Typed, Planned, NEW c \in Made,
           Read(c) \/ Issue(c) \/ IssueLost(c) \/ Validate(c) \/ Handler(c)
    PROVE  CallStep(c)
<1>1. CASE Read(c)
    <2>1. [input |-> call[c].input, before |-> View(call[c].input, world), intents |-> <<>>] \in PlanSpace
        BY CallTypes, EmptySeq DEF PlanSpace
    <2> QED
        BY <1>1, <2>1 DEF Read, CallStep, Typed, Goto, Location, Made, history
<1>2. CASE Issue(c)
    <2>1. plan[c] \in PlanSpace
        BY <1>2 DEF Issue, Planned, PlannedAt
    <2>2. Prepared(c) \in PlanSpace /\ stored' \subseteq Preview
        BY <1>2, <2>1, PreparedType, StoreType DEF Issue
    <2>3. approved' \in [DOMAIN approved' -> PlanSpace] /\ DOMAIN approved' \subseteq Made
        BY <1>2, <2>2 DEF Issue, Typed
    <2> QED
        BY <1>2, <2>2, <2>3 DEF Issue, CallStep, Typed, Goto, Location, Made
<1>3. CASE IssueLost(c)
    <2>1. plan[c] \in PlanSpace
        BY <1>3 DEF IssueLost, Planned, PlannedAt
    <2>2. stored' \subseteq Preview
        BY <1>3, <2>1, StoreType DEF IssueLost
    <2>3. faults' \in 0..MaxFaults
        BY <1>3, FaultTyped DEF IssueLost
    <2> QED
        BY <1>3, <2>2, <2>3 DEF IssueLost, CallStep, Typed, Goto, Location, Made, history
<1>4. CASE Validate(c)
    <2>1. Prepared(c) \in PlanSpace
        BY <1>4, PreparedType DEF Validate, Planned, PlannedAt
    <2> QED
        BY <1>4, <2>1 DEF Validate, CallStep, Typed, Goto, Location, Made, history
<1>5. CASE Handler(c)
    <2>1. Requests(call[c].input, world) \in Seq(Request)
        BY CallTypes
    <2> QED
        BY <1>5, <2>1 DEF Handler, CallStep, Typed, Goto, Location, Made, history
<1> QED
    BY <1>1, <1>2, <1>3, <1>4, <1>5

\* The request a call is about to send, or has sent.
LEMMA HeadTypes ==
    ASSUME Typed, NEW c \in Made, todo[c] # <<>>
    PROVE  /\ Head(todo[c]) \in Request /\ Tail(todo[c]) \in Seq(Request)
           /\ Append(processed[c], Head(todo[c])) \in Seq(Request)
           /\ Apply(Head(todo[c]), world) \in State
<1>1. todo[c] \in Seq(Request) /\ processed[c] \in Seq(Request) /\ world \in State
    BY DEF Typed
<1>2. Head(todo[c]) \in Request /\ Tail(todo[c]) \in Seq(Request)
    BY <1>1, HeadTailProperties
<1>3. Append(processed[c], Head(todo[c])) \in Seq(Request)
    BY <1>1, <1>2, AppendProperties
<1> QED
    BY <1>1, <1>2, <1>3, GuardAssumption

\* The steps that send requests, and the end of a call.
LEMMA SendSteps ==
    ASSUME Typed, Planned, Spending, NEW c \in Made,
           Authorize(c) \/ Finish(c) \/ Answer(c) \/ TooMany(c) \/ Unknown(c) \/ Fail(c)
    PROVE  CallStep(c)
<1>a. Fault => faults' \in 0..MaxFaults
    BY FaultTyped
<1>b. c \in CallNo
    BY CallTypes
<1>c. attempt[c] \in 0..MaxRetries /\ MaxRetries \in Nat
    BY GuardAssumption DEF Typed
<1> USE DEF CallStep, Typed, Goto, Location, Made, history
<1>1. CASE Authorize(c)
    <2>1. CASE Unused(c) = {}
        BY <1>1, <2>1 DEF Authorize
    <2>2. CASE Unused(c) # {}
        <3>1. PICK k \in Unused(c) : used' = [used EXCEPT ![c] = @ \cup {k}]
            BY <1>1, <2>2 DEF Authorize
        <3>2. plan[c].intents \in Seq(Request)
            BY <1>1 DEF Authorize, Planned, PlannedAt, PlanSpace
        <3>3. k \in Nat
            <4>1. DOMAIN plan[c].intents = 1..Len(plan[c].intents)
                BY <3>2, LenProperties
            <4>2. k \in DOMAIN plan[c].intents
                BY DEF Unused
            <4> QED
                BY <4>1, <4>2
        <3>4. used' \in [Made -> SUBSET Nat]
            BY <3>1, <3>3
        <3>5. attempt' \in [Made -> 0..MaxRetries]
            <4>1. 0 \in 0..MaxRetries
                BY GuardAssumption
            <4> QED
                BY <1>1, <2>2, <4>1 DEF Authorize
        <3> QED
            BY <1>1, <2>2, <3>1, <3>4, <3>5 DEF Authorize
    <2> QED
        BY <2>1, <2>2
<1>2. CASE Finish(c)
    BY <1>2 DEF Finish
<1>3. CASE Answer(c)
    <2>1. todo[c] # <<>>
        BY <1>3 DEF Answer, Spending, SpendingAt
    <2> QED
        BY <1>3, <2>1, HeadTypes DEF Answer, Process, Disturb
<1>4. CASE TooMany(c)
    <2>1. faults' \in 0..MaxFaults
        BY <1>4, <1>a DEF TooMany
    <2>2. attempt' \in [Made -> 0..MaxRetries]
        <3>1. attempt[c] < MaxRetries => attempt[c] + 1 \in 0..MaxRetries
            BY <1>c
        <3>2. attempt \in [Made -> 0..MaxRetries]
            OBVIOUS
        <3>3. \/ attempt[c] < MaxRetries /\ attempt' = [attempt EXCEPT ![c] = @ + 1] /\ Made' = Made
              \/ attempt' = attempt /\ Made' = Made
            BY <1>4 DEF TooMany
        <3> HIDE DEF CallStep, Typed, Goto, Location, Made, history
        <3> QED
            BY <3>1, <3>2, <3>3
    <2> QED
        BY <1>4, <2>1, <2>2 DEF TooMany
<1>5. CASE Unknown(c)
    <2>1. todo[c] # <<>> /\ faults' \in 0..MaxFaults /\ c \in CallNo
        <3>1. todo[c] # <<>>
            BY <1>5 DEF Unknown, Spending, SpendingAt
        <3>2. faults' \in 0..MaxFaults
            BY <1>5, <1>a DEF Unknown
        <3> QED
            BY <1>b, <3>1, <3>2
    <2>2. CASE Process(c, Head(todo[c])) /\ UNCHANGED late /\ Disturb({d \in Made : call[d].session # call[c].session})
        BY <1>5, <2>1, <2>2, HeadTypes DEF Unknown, Process, Disturb
    <2>3. CASE UNCHANGED <<world, processed, late, disturbed>>
        BY <1>5, <2>1, <2>3 DEF Unknown
    <2>4. CASE late' = late \cup {<<c, Head(todo[c])>>} /\ UNCHANGED <<world, processed, disturbed>>
        BY <1>5, <2>1, <2>4, HeadTypes DEF Unknown
    <2> QED
        BY <1>5, <2>2, <2>3, <2>4 DEF Unknown
<1>6. CASE Fail(c)
    <2>1. faults' \in 0..MaxFaults
        BY <1>6, <1>a DEF Fail
    <2> QED
        BY <1>6, <2>1 DEF Fail
<1> QED
    BY <1>1, <1>2, <1>3, <1>4, <1>5, <1>6

\* So every step of a call.
LEMMA AllCallSteps ==
    ASSUME Typed, Planned, Spending, NEW c \in Made, Progress(c) \/ Trouble(c)
    PROVE  CallStep(c)
BY ClaimSteps, PlanSteps, SendSteps DEF Progress, Trouble

\* The steps of the rest of the world, which touch no call.
WorldStep ==
    /\ UNCHANGED <<hosted, stored, control, approved>> /\ Made' = Made
    /\ late' \subseteq late /\ disturbed \subseteq disturbed'
    /\ Typed'
LEMMA WorldSteps ==
    ASSUME Typed, Spending, (\E q \in late : Late(q[1], q[2])) \/ Edit \/ Tick
    PROVE  WorldStep
<1> USE DEF WorldStep, Typed, Made, history, control
<1>1. CASE \E q \in late : Late(q[1], q[2])
    <2>1. PICK q \in late : Late(q[1], q[2])
        BY <1>1
    <2>2. q[1] \in Made /\ q[2] \in Request
        BY DEF Spending
    <2>3. Append(processed[q[1]], q[2]) \in Seq(Request) /\ Apply(q[2], world) \in State
        BY <2>2, AppendProperties, GuardAssumption
    <2> QED
        BY <2>1, <2>2, <2>3 DEF Late, Process, Disturb
<1>2. CASE Edit
    <2>1. edits' \in 0..MaxEdits /\ world' \in State
        BY <1>2, GuardAssumption DEF Edit
    <2> QED
        BY <1>2, <2>1 DEF Edit, Disturb
<1>3. CASE Tick
    <2>1. now' \in 0..MaxTime
        BY <1>3, GuardAssumption DEF Tick
    <2> QED
        BY <1>3, <2>1 DEF Tick
<1> QED
    BY <1>1, <1>2, <1>3

-----------------------------------------------------------------------------
(* The parts of the invariant, one by one.                                 *)

\* A step is a submission, a step of a call, or one of the rest of the world.
LEMMA StepKinds ==
    ASSUME Next
    PROVE  \/ \E s \in Session, kind \in {"preview", "write"}, i \in Input, t \in 0..MaxCalls : Submit(s, kind, i, t)
           \/ \E c \in Made : Progress(c) \/ Trouble(c)
           \/ (\E q \in late : Late(q[1], q[2])) \/ Edit \/ Tick
BY DEF Next

\* Calls of one instance stay in turn.
LEMMA InTurnKept ==
    ASSUME Typed, Planned, Spending, InTurn, Next
    PROVE  InTurn'
<1>1. ASSUME NEW s \in Session, NEW kind \in {"preview", "write"}, NEW i \in Input, NEW t \in 0..MaxCalls,
             Submit(s, kind, i, t)
      PROVE  InTurn'
    <2> DEFINE n == Len(call) + 1
    <2>1. /\ n \notin Made /\ Made' = Made \cup {n} /\ Made = 1..Len(call) /\ Len(call) \in Nat
          /\ \A c \in Made : call'[c] = call[c] /\ pc'[c] = pc[c]
          /\ pc'[n] = "queued"
        BY <1>1, SubmitShape
    <2>2. SUFFICES ASSUME NEW c \in Made', NEW d \in Made', d < c, call'[d].session = call'[c].session, pc'[c] # "queued"
                   PROVE  pc'[d] \in {"ended", "done"}
        BY DEF InTurn
    <2>3. c \in Made /\ d \in Made
        BY <2>1, <2>2
    <2> QED
        BY <2>1, <2>2, <2>3 DEF InTurn
<1>2. ASSUME NEW c \in Made, Progress(c) \/ Trouble(c)
      PROVE  InTurn'
    <2>1. CallStep(c)
        BY <1>2, AllCallSteps
    <2>2. SUFFICES ASSUME NEW x \in Made, NEW d \in Made, d < x, call[d].session = call[x].session, pc'[x] # "queued"
                   PROVE  pc'[d] \in {"ended", "done"}
        BY <2>1 DEF InTurn, CallStep
    <2>3. Made \subseteq Int
        BY CallTypes DEF CallNo
    <2>4. pc[d] \in {"ended", "done"}
        <3>1. CASE pc[x] # "queued"
            BY <2>2, <3>1 DEF InTurn
        <3>2. CASE x = c /\ pc[c] = "queued"
            <4>1. d \in 1..(c - 1)
                <5>1. d \in CallNo
                    BY CallTypes
                <5> QED
                    BY <2>2, <2>3, <3>2, <5>1 DEF CallNo
            <4>2. ~Active(d) /\ pc[d] # "queued"
                BY <2>1, <2>2, <3>2, <4>1 DEF CallStep, Turn
            <4> QED
                BY <4>2 DEF Active
        <3> QED
            BY <2>1, <2>2, <3>1, <3>2 DEF CallStep
    <2> QED
        BY <2>1, <2>4 DEF CallStep
<1>3. ASSUME (\E q \in late : Late(q[1], q[2])) \/ Edit \/ Tick
      PROVE  InTurn'
    <2>1. WorldStep
        BY <1>3, WorldSteps
    <2> QED
        BY <2>1 DEF InTurn, WorldStep, control
<1> QED
    BY <1>1, <1>2, <1>3, StepKinds

\* What is left of a store within its limits is within them.
LEMMA SmallerIsBounded ==
    ASSUME Bounded, NEW S, S \subseteq stored
    PROVE  IsFiniteSet(S) /\ Roomy(S)
<1>1. IsFiniteSet(S)
    BY FS_Subset DEF Bounded
<1>2. ASSUME NEW p \in S PROVE Cardinality({q \in S : q.owner = p.owner}) <= MaxStored
    <2> DEFINE A == {q \in S : q.owner = p.owner}
               B == {q \in stored : q.owner = p.owner}
    <2>1. IsFiniteSet(B) /\ A \in SUBSET B
        BY FS_Subset DEF Bounded
    <2> HIDE DEF A, B
    <2>2. Cardinality(A) <= Cardinality(B) /\ IsFiniteSet(A)
        BY <2>1, FS_Subset
    <2>3. Cardinality(A) \in Nat /\ Cardinality(B) \in Nat
        BY <2>1, <2>2, FS_CardinalityType
    <2>4. Cardinality(B) <= MaxStored
        BY DEF B, Bounded, Roomy
    <2>5. Cardinality(A) <= MaxStored
        BY <2>2, <2>3, <2>4, GuardAssumption
    <2> QED
        BY <2>5 DEF A
<1> QED
    BY <1>1, <1>2 DEF Roomy

\* A store makes room for the preview it gains.
LEMMA StoreIsBounded ==
    ASSUME Typed, Bounded, NEW c \in Made, Store(c)
    PROVE  IsFiniteSet(stored') /\ Roomy(stored')
<1> DEFINE e == [token |-> c, owner |-> Owner(c), plan |-> Prepared(c), expires |-> now + Ttl]
           others == {p \in stored : p.owner # Owner(c)}
<1>1. PICK E \in Evictions(c) : stored' = (others \cup (Mine(c) \ E)) \cup {e}
    BY DEF Store
<1> DEFINE mine == Mine(c)
           rest == mine \ E
<1>2. mine \in SUBSET stored /\ E \in SUBSET mine /\ \A p \in mine : p.owner = Owner(c)
    BY DEF Evictions, Mine
<1>3. e.owner = Owner(c)
    OBVIOUS
<1>4. IsFiniteSet(mine) /\ IsFiniteSet(others) /\ IsFiniteSet(rest) /\ IsFiniteSet(E) /\ rest \cap E = {} /\ mine = rest \cup E
    <2>1. IsFiniteSet(mine) /\ others \in SUBSET stored
        BY <1>2, FS_Subset DEF Bounded
    <2> QED
        BY <1>2, <2>1, FS_Subset DEF Bounded
<1> HIDE DEF mine, others, e, rest
<1>5. Cardinality(rest) \in Nat /\ Cardinality(rest) <= MaxStored - 1 /\ MaxStored \in Nat \ {0}
    <2> DEFINE m == Cardinality(mine)
               x == Cardinality(E)
               z == Cardinality(rest)
    <2>1. m \in Nat /\ x \in Nat /\ z \in Nat /\ MaxStored \in Nat \ {0}
        BY <1>4, FS_CardinalityType, GuardAssumption
    <2>2. z = m - x
        <3>1. mine \cap E = E
            BY <1>2
        <3>2. Cardinality(rest) = Cardinality(mine) - Cardinality(mine \cap E)
            BY <1>4, FS_Difference DEF rest
        <3> QED
            BY <3>1, <3>2
    <2>3. CASE m - (MaxStored - 1) <= 0
        <3>1. E = {}
            BY <2>3 DEF Evictions, mine
        <3>2. x = 0
            BY <3>1, FS_EmptySet
        <3> HIDE DEF m, x, z
        <3>3. z <= MaxStored - 1
            BY <2>1, <2>2, <2>3, <3>2
        <3> QED
            BY <2>1, <3>3 DEF z
    <2>4. CASE ~(m - (MaxStored - 1) <= 0)
        <3>1. x = m - (MaxStored - 1)
            BY <2>4 DEF Evictions, mine
        <3> HIDE DEF m, x, z
        <3>2. z <= MaxStored - 1
            BY <2>1, <2>2, <3>1
        <3> QED
            BY <2>1, <3>2 DEF z
    <2> QED
        BY <2>3, <2>4
<1>6. IsFiniteSet(stored')
    BY <1>1, <1>4, FS_Union, FS_AddElement DEF rest, mine
<1>7. ASSUME NEW p \in stored' PROVE Cardinality({q \in stored' : q.owner = p.owner}) <= MaxStored
    <2>1. CASE p.owner = Owner(c)
        <3>1. {q \in stored' : q.owner = p.owner} = rest \cup {e}
            BY <1>1, <1>2, <1>3, <2>1 DEF rest, mine, others
        <3>2. Cardinality(rest \cup {e}) = IF e \in rest THEN Cardinality(rest) ELSE Cardinality(rest) + 1
            BY <1>4, FS_AddElement
        <3> DEFINE z == Cardinality(rest)
                   y == Cardinality(rest \cup {e})
        <3>3. z \in Nat /\ z <= MaxStored - 1 /\ MaxStored \in Nat /\ (y = z \/ y = z + 1)
            BY <1>5, <3>2
        <3> HIDE DEF z, y
        <3>4. y <= MaxStored
            BY <3>3
        <3> QED
            BY <3>1, <3>4 DEF y
    <2>2. CASE p.owner # Owner(c)
        <3>1. p \in stored /\ {q \in stored' : q.owner = p.owner} = {q \in stored : q.owner = p.owner}
            BY <1>1, <1>2, <1>3, <2>2 DEF others, mine
        <3> QED
            BY <3>1 DEF Bounded, Roomy
    <2> QED
        BY <2>1, <2>2
<1> QED
    BY <1>6, <1>7 DEF Roomy

\* The store stays within its limits.
LEMMA BoundedKept ==
    ASSUME Typed, Bounded, Next
    PROVE  Bounded'
<1>1. stored' \subseteq stored \/ \E c \in Made : Store(c)
    <2>1. ASSUME NEW c \in Made, Claim(c) \/ ClaimMissing(c) \/ ClaimLost(c) PROVE stored' \subseteq stored
        BY <2>1 DEF Claim, ClaimMissing, ClaimLost, Claimable, Purged
    <2>2. ASSUME NEW c \in Made, Issue(c) \/ IssueLost(c) PROVE Store(c)
        BY <2>2 DEF Issue, IssueLost
    <2>3. ASSUME NEW c \in Made, StartPreview(c) \/ Read(c) \/ Validate(c) \/ Handler(c) \/ Authorize(c)
                                 \/ Finish(c) \/ Answer(c) \/ TooMany(c) \/ Unknown(c) \/ Fail(c)
          PROVE  stored' = stored
        BY <2>3 DEF StartPreview, Read, Validate, Handler, Authorize, Finish, Answer, TooMany, Unknown, Fail
    <2>4. ASSUME NEW s \in Session, NEW kind \in {"preview", "write"}, NEW i \in Input, NEW t \in 0..MaxCalls,
                 Submit(s, kind, i, t)
          PROVE  stored' = stored
        BY <2>4 DEF Submit
    <2>5. ASSUME (\E q \in late : Late(q[1], q[2])) \/ Edit \/ Tick PROVE stored' = stored
        BY <2>5 DEF Late, Edit, Tick
    <2> QED
        BY <2>1, <2>2, <2>3, <2>4, <2>5, StepKinds DEF Progress, Trouble
<1> QED
    BY <1>1, SmallerIsBounded, StoreIsBounded DEF Bounded

\* Plans are there when they are needed, and used up only by writing.
LEMMA PlannedKept ==
    ASSUME Typed, Planned, Spending, Next
    PROVE  Planned'
<1>1. ASSUME NEW s \in Session, NEW kind \in {"preview", "write"}, NEW i \in Input, NEW t \in 0..MaxCalls,
             Submit(s, kind, i, t)
      PROVE  Planned'
    <2>0. PICK n : n = Len(call) + 1
        OBVIOUS
    <2>1. /\ Made' = Made \cup {n} /\ pc'[n] = "queued" /\ used'[n] = {}
          /\ \A c \in Made : call'[c] = call[c] /\ pc'[c] = pc[c] /\ plan'[c] = plan[c] /\ used'[c] = used[c]
        BY <1>1, <2>0, SubmitShape
    <2>2. \A c \in Made : PlannedAt(c)'
        BY <2>1 DEF Planned, PlannedAt
    <2>3. PlannedAt(n)'
        BY <2>1 DEF PlannedAt
    <2> QED
        BY <2>1, <2>2, <2>3 DEF Planned
<1>2. ASSUME NEW c \in Made, Progress(c) \/ Trouble(c)
      PROVE  Planned'
    <2>1. CallStep(c) /\ PlannedAt(c) /\ Typed
        BY <1>2, AllCallSteps DEF Planned
    <2>2. \A d \in Made \ {c} : PlannedAt(d)'
        BY <2>1 DEF CallStep, Planned, PlannedAt
    <2>3. PlannedAt(c)'
        <3>1. CASE StartPreview(c) \/ Claim(c) \/ ClaimMissing(c) \/ ClaimLost(c)
            BY <3>1, <2>1 DEF StartPreview, Claim, ClaimMissing, ClaimLost, Goto, PlannedAt, Typed
        <3>2. CASE Read(c)
            <4>1. [input |-> call[c].input, before |-> View(call[c].input, world), intents |-> <<>>] \in PlanSpace
                BY <2>1, CallTypes, EmptySeq DEF PlanSpace
            <4> QED
                BY <3>2, <2>1, <4>1 DEF Read, Goto, PlannedAt, Typed
        <3>3. CASE Issue(c) \/ Validate(c)
            <4>1. Prepared(c) \in PlanSpace /\ Prepared(c).input = call[c].input
                BY <3>3, <2>1, PreparedType DEF PlannedAt, Issue, Validate
            <4> QED
                BY <3>3, <2>1, <4>1 DEF Issue, Validate, Goto, PlannedAt, Typed
        <3>4. CASE IssueLost(c) \/ Finish(c) \/ Fail(c)
            BY <3>4, <2>1 DEF IssueLost, Finish, Fail, Goto, PlannedAt, Typed
        <3>5. CASE Handler(c) \/ Answer(c) \/ TooMany(c) \/ Unknown(c)
            BY <3>5, <2>1 DEF Handler, Answer, TooMany, Unknown, Goto, PlannedAt, Typed
        <3>6. CASE Authorize(c)
            BY <3>6, <2>1 DEF Authorize, Unused, Goto, PlannedAt, Typed
        <3> QED
            BY <1>2, <3>1, <3>2, <3>3, <3>4, <3>5, <3>6 DEF Progress, Trouble
    <2> QED
        BY <2>1, <2>2, <2>3 DEF Planned, CallStep
<1>3. ASSUME (\E q \in late : Late(q[1], q[2])) \/ Edit \/ Tick
      PROVE  Planned'
    <2>1. WorldStep
        BY <1>3, WorldSteps
    <2> QED
        BY <2>1 DEF Planned, PlannedAt, WorldStep, control
<1> QED
    BY <1>1, <1>2, <1>3, StepKinds

\* The steps of a call that issue nothing.
Quiet(c) ==
    \/ StartPreview(c) \/ Claim(c) \/ ClaimMissing(c) \/ ClaimLost(c) \/ Read(c) \/ Validate(c) \/ Handler(c)
    \/ Authorize(c) \/ Finish(c) \/ Answer(c) \/ TooMany(c) \/ Unknown(c) \/ Fail(c)
LEMMA QuietSteps ==
    ASSUME NEW c, Quiet(c)
    PROVE  stored' \subseteq stored /\ approved' = approved
<1>1. CASE StartPreview(c) \/ Read(c) \/ Validate(c) \/ Handler(c) \/ Authorize(c) \/ Finish(c)
    BY <1>1 DEF StartPreview, Read, Validate, Handler, Authorize, Finish, history
<1>2. CASE Answer(c) \/ TooMany(c) \/ Unknown(c) \/ Fail(c)
    BY <1>2 DEF Answer, TooMany, Unknown, Fail, history
<1>3. CASE Claim(c) \/ ClaimMissing(c) \/ ClaimLost(c)
    BY <1>3 DEF Claim, ClaimMissing, ClaimLost, Purged, Claimable, history
<1> QED
    BY <1>1, <1>2, <1>3 DEF Quiet

\* An issued preview goes to the store, and only there.
LEMMA IssuedKept ==
    ASSUME Typed, Planned, Spending, Issued, Next
    PROVE  Issued'
<1>1. ASSUME NEW s \in Session, NEW kind \in {"preview", "write"}, NEW i \in Input, NEW t \in 0..MaxCalls,
             Submit(s, kind, i, t)
      PROVE  Issued'
    <2>0. PICK n : n = Len(call) + 1
        OBVIOUS
    <2>1. /\ Made' = Made \cup {n} /\ n \notin Made
          /\ \A c \in Made : call'[c] = call[c] /\ pc'[c] = pc[c]
          /\ call'[n] = [session |-> s, kind |-> kind, input |-> i, token |-> t]
        BY <1>1, <2>0, SubmitShape
    <2>2. /\ stored' = stored /\ approved' = approved /\ hosted' = hosted
          /\ kind = "write" => t \in DOMAIN approved
        BY <1>1 DEF Submit
    <2>3. DOMAIN approved \subseteq Made
        BY DEF Typed
    <2> QED
        BY <2>1, <2>2, <2>3 DEF Issued, OwnerOf
<1>2. ASSUME NEW c \in Made, Progress(c) \/ Trouble(c)
      PROVE  Issued'
    <2>1. CallStep(c) /\ DOMAIN approved \subseteq Made
        BY <1>2, AllCallSteps DEF Typed
    <2>2. \A d \in Made : pc[d] \in {"ended", "done"} => d # c /\ pc'[d] = pc[d]
        BY <2>1 DEF CallStep
    <2>3. CASE Quiet(c)
        <3>1. stored' \subseteq stored /\ approved' = approved
            BY <2>3, QuietSteps
        <3> QED
            BY <2>1, <2>2, <3>1 DEF Issued, OwnerOf, CallStep
    <2>4. CASE Issue(c) \/ IssueLost(c)
        <3> DEFINE e == [token |-> c, owner |-> Owner(c), plan |-> Prepared(c), expires |-> now + Ttl]
        <3>1. stored' \subseteq stored \cup {e}
            BY <2>4 DEF Issue, IssueLost, Store, Mine
        <3>2. /\ e.token = c /\ e.owner = OwnerOf(call[c].session) /\ e.plan = Prepared(c)
              /\ c \notin DOMAIN approved
            BY <2>2 DEF Issued, Owner
        <3>3. \/ /\ approved' = [t \in DOMAIN approved \cup {c} |-> IF t = c THEN Prepared(c) ELSE approved[t]]
                 /\ pc'[c] = "done"
              \/ approved' = approved /\ pc'[c] = "ended"
            BY <2>4 DEF Issue, IssueLost, Goto, Typed, history
        <3>4. /\ \A t \in DOMAIN approved' : t = c \/ t \in DOMAIN approved
              /\ \A t \in DOMAIN approved : t \in DOMAIN approved' /\ approved'[t] = approved[t]
              /\ c \in DOMAIN approved' => approved'[c] = e.plan /\ pc'[c] = "done"
              /\ pc'[c] \in {"ended", "done"}
            BY <3>2, <3>3
        <3> HIDE DEF e
        <3>5. \A t \in DOMAIN approved' : pc'[t] = "done"
            BY <2>1, <2>2, <3>4 DEF Issued
        <3>6. ASSUME NEW p \in stored'
              PROVE  /\ p.token \in Made /\ pc'[p.token] \in {"ended", "done"}
                     /\ p.owner = OwnerOf(call[p.token].session)
                     /\ p.token \in DOMAIN approved' => p.plan = approved'[p.token]
            <4>1. CASE p = e
                BY <3>2, <3>4, <4>1
            <4>2. CASE p \in stored
                BY <4>2, <2>2, <3>4 DEF Issued
            <4> QED
                BY <3>1, <4>1, <4>2
        <3>7. \A p, q \in stored' : p.token = q.token => p = q
            <4>1. \A p \in stored : p.token # c
                BY <2>2 DEF Issued
            <4> QED
                BY <3>1, <3>2, <4>1 DEF Issued
        <3>8. \A d \in Made : call[d].kind = "write" => call[d].token \in DOMAIN approved'
            BY <3>4 DEF Issued
        <3> QED
            BY <2>1, <3>5, <3>6, <3>7, <3>8 DEF Issued, OwnerOf, CallStep
    <2> QED
        BY <1>2, <2>3, <2>4 DEF Quiet, Progress, Trouble
<1>3. ASSUME (\E q \in late : Late(q[1], q[2])) \/ Edit \/ Tick
      PROVE  Issued'
    <2>1. WorldStep
        BY <1>3, WorldSteps
    <2> QED
        BY <2>1 DEF Issued, OwnerOf, WorldStep, control
<1> QED
    BY <1>1, <1>2, <1>3, StepKinds

\* What the steps other than claims leave of the grants.
LEMMA GrantsStay ==
    ASSUME NEW c, Progress(c) \/ Trouble(c), ~Claim(c)
    PROVE  grant' = grant
<1>1. CASE StartPreview(c) \/ Read(c) \/ Issue(c) \/ Validate(c) \/ Handler(c) \/ Authorize(c) \/ Finish(c)
    BY <1>1 DEF StartPreview, Read, Issue, Validate, Handler, Authorize, Finish
<1>2. CASE Answer(c) \/ TooMany(c) \/ Unknown(c) \/ Fail(c)
    BY <1>2 DEF Answer, TooMany, Unknown, Fail
<1>3. CASE ClaimMissing(c) \/ ClaimLost(c) \/ IssueLost(c)
    BY <1>3 DEF ClaimMissing, ClaimLost, IssueLost
<1> QED
    BY <1>1, <1>2, <1>3 DEF Progress, Trouble

\* A call becomes active by claiming a preview, or by starting to issue one;
\* only a write reaches its handler.
LEMMA Activation ==
    ASSUME Typed, NEW c \in Made, Progress(c) \/ Trouble(c), ~Claim(c), GrantedAt(c)
    PROVE  /\ pc'[c] \in {"read", "capture", "handler", "send", "fetch"} => Active(c) \/ call[c].kind = "preview"
           /\ pc'[c] \in {"handler", "send", "fetch"} => call[c].kind = "write"
<1>1. CASE StartPreview(c) \/ ClaimMissing(c) \/ ClaimLost(c) \/ IssueLost(c) \/ Issue(c)
    BY <1>1 DEF StartPreview, ClaimMissing, ClaimLost, IssueLost, Issue, Goto, Typed
<1>2. CASE Read(c) \/ Validate(c) \/ Handler(c)
    BY <1>2 DEF Read, Validate, Handler, Goto, Typed, GrantedAt, Active
<1>3. CASE Authorize(c) \/ Finish(c) \/ Answer(c) \/ TooMany(c) \/ Unknown(c) \/ Fail(c)
    BY <1>3 DEF Authorize, Finish, Answer, TooMany, Unknown, Fail, Goto, Typed, GrantedAt, Active
<1> QED
    BY <1>1, <1>2, <1>3 DEF Progress, Trouble

\* A preview that is claimed leaves the store for one call.
LEMMA GrantedKept ==
    ASSUME Typed, Planned, Spending, Issued, Granted, Next
    PROVE  Granted'
<1>0. \A d \in Made : call[d].kind = "write" => call[d].token \in DOMAIN approved /\ call[d].token \in Made
    BY DEF Issued, Typed
<1>1. ASSUME NEW s \in Session, NEW kind \in {"preview", "write"}, NEW i \in Input, NEW t \in 0..MaxCalls,
             Submit(s, kind, i, t)
      PROVE  Granted'
    <2>0. PICK n : n = Len(call) + 1
        OBVIOUS
    <2>1. /\ Made' = Made \cup {n} /\ n \notin Made
          /\ \A c \in Made : call'[c] = call[c] /\ pc'[c] = pc[c] /\ grant'[c] = grant[c]
          /\ pc'[n] = "queued" /\ grant'[n] = NoPreview
        BY <1>1, <2>0, SubmitShape
    <2>2. stored' = stored /\ approved' = approved /\ hosted' = hosted
        BY <1>1 DEF Submit
    <2>3. GrantedAt(n)'
        BY <2>1 DEF GrantedAt, HasGrant, Active
    <2>4. ASSUME NEW c \in Made PROVE GrantedAt(c)'
        BY <1>0, <2>1, <2>2 DEF Granted, GrantedAt, HasGrant, Active, Owner, OwnerOf
    <2> QED
        BY <2>1, <2>3, <2>4 DEF Granted
<1>2. ASSUME NEW c \in Made, Progress(c) \/ Trouble(c)
      PROVE  Granted'
    <2>1. CallStep(c)
        BY <1>2, AllCallSteps
    <2>2. \A d \in Made \ {c} : pc'[d] = pc[d] /\ grant'[d] = grant[d]
        BY <2>1 DEF CallStep
    <2>3. call' = call /\ hosted' = hosted /\ Made' = Made
        BY <2>1 DEF CallStep
    <2>4. CASE ~Claim(c)
        <3>1. grant' = grant
            BY <1>2, <2>4, GrantsStay
        <3>2. /\ \A t \in DOMAIN approved : approved'[t] = approved[t]
              /\ \A p \in stored' : p \in stored \/ p.token \notin DOMAIN approved
            <4>1. CASE Quiet(c)
                BY <4>1, QuietSteps
            <4>2. CASE Issue(c) \/ IssueLost(c)
                <5>1. /\ \A t \in DOMAIN approved : t # c => approved'[t] = approved[t]
                      /\ pc[c] = "capture"
                    BY <4>2 DEF Issue, IssueLost, history
                <5>2. c \notin DOMAIN approved
                    BY <5>1 DEF Issued
                <5>3. \A p \in stored' : p \in stored \/ p.token = c
                    BY <4>2 DEF Issue, IssueLost, Store, Mine
                <5> QED
                    BY <5>1, <5>2, <5>3
            <4> QED
                BY <1>2, <4>1, <4>2 DEF Quiet, Progress, Trouble
        <3>3. ASSUME NEW d \in Made, HasGrant(d)
              PROVE  /\ call[d].kind = "write" /\ grant[d].plan = approved'[call[d].token]
                     /\ Owner(d) = OwnerOf(call[call[d].token].session)
                     /\ \A p \in stored' : p.token # call[d].token
                     /\ \A x \in Made : HasGrant(x) /\ call[x].token = call[d].token => x = d
            BY <1>0, <3>2, <3>3 DEF Granted, GrantedAt
        <3>4. ASSUME NEW d \in Made
              PROVE  /\ Active(d)' /\ call[d].kind = "write" => HasGrant(d)
                     /\ pc'[d] \in {"handler", "send", "fetch"} => call[d].kind = "write"
            <4>1. CASE d = c
                BY <1>2, <2>1, <2>4, <4>1, Activation DEF Granted, GrantedAt, Active, CallStep, Location
            <4>2. CASE d # c
                BY <2>2, <4>2 DEF Granted, GrantedAt, Active
            <4> QED
                BY <4>1, <4>2
        <3> QED
            BY <2>3, <3>1, <3>3, <3>4 DEF Granted, GrantedAt, HasGrant, Owner, OwnerOf
    <2>5. CASE Claim(c)
        <3>1. PICK p \in Claimable(c) :
                  /\ stored' = Purged(c) \ {p}
                  /\ \/ pc'[c] = "read" /\ grant' = [grant EXCEPT ![c] = p]
                     \/ pc'[c] = "ended" /\ grant' = grant
            BY <2>5 DEF Claim, Goto, Typed
        <3>2. /\ p \in stored /\ p.token = call[c].token /\ p.owner = Owner(c)
              /\ call[c].kind = "write" /\ pc[c] = "queued" /\ approved' = approved
              /\ stored' \subseteq stored \ {p}
            BY <2>5, <3>1 DEF Claimable, Claim, Purged, history
        <3>3. /\ \A q \in stored' : q \in stored /\ q.token # call[c].token
              /\ p.plan = approved[call[c].token] /\ Owner(c) = OwnerOf(call[call[c].token].session)
            BY <1>0, <3>2 DEF Issued
        <3>4. p # NoPreview
            <4>1. p.token \in CallNo
                BY <3>2 DEF Typed, Preview
            <4> QED
                BY <4>1 DEF NoPreview, CallNo
        <3>5. \A d \in Made : HasGrant(d) => call[d].token # call[c].token
            BY <3>2 DEF Granted, GrantedAt
        <3>6. ASSUME NEW d \in Made \ {c} PROVE GrantedAt(d)'
            BY <2>2, <2>3, <3>2, <3>3, <3>5 DEF Granted, GrantedAt, HasGrant, Active, Owner, OwnerOf
        <3>7. GrantedAt(c)'
            <4>1. CASE pc'[c] = "ended" /\ grant' = grant
                BY <2>2, <2>3, <3>2, <3>3, <3>5, <4>1 DEF Granted, GrantedAt, HasGrant, Active, Owner, OwnerOf
            <4>2. CASE pc'[c] = "read" /\ grant' = [grant EXCEPT ![c] = p]
                <5>1. grant'[c] = p
                    BY <4>2 DEF Typed
                <5> QED
                    BY <2>2, <2>3, <3>2, <3>3, <3>4, <3>5, <4>2, <5>1 DEF GrantedAt, HasGrant, Active, Owner, OwnerOf
            <4> QED
                BY <3>1, <4>1, <4>2
        <3> QED
            BY <2>3, <3>6, <3>7 DEF Granted
    <2> QED
        BY <2>4, <2>5
<1>3. ASSUME (\E q \in late : Late(q[1], q[2])) \/ Edit \/ Tick
      PROVE  Granted'
    <2>1. WorldStep
        BY <1>3, WorldSteps
    <2> QED
        BY <2>1 DEF Granted, GrantedAt, HasGrant, Active, Owner, OwnerOf, WorldStep, control
<1> QED
    BY <1>1, <1>2, <1>3, StepKinds

\* What a budget is made of.
LEMMA BudgetTypes ==
    ASSUME Typed, NEW c \in Made, PlannedAt(c), NEW r
    PROVE  /\ IsFiniteSet(SpentOn(c, r)) /\ Cardinality(SpentOn(c, r)) \in Nat
           /\ Times(r, processed[c]) \in Nat
           /\ InFlight(c, r) \in {0, 1} /\ Delayed(c, r) \in {0, 1}
           /\ used[c] = {} => SpentOn(c, r) = {} /\ Cardinality(SpentOn(c, r)) = 0
<1>1. IsFiniteSet(DOMAIN plan[c].intents)
    <2>1. plan[c].intents \in Seq(Request)
        <3>1. plan[c] \in PlanSpace \/ plan[c] = NoPlan
            BY DEF Typed
        <3>2. NoPlan.intents = <<>> /\ <<>> \in Seq(Request)
            BY EmptySeq DEF NoPlan
        <3>3. plan[c] \in PlanSpace => plan[c].intents \in Seq(Request)
            BY DEF PlanSpace
        <3> QED
            BY <3>1, <3>2, <3>3
    <2>2. DOMAIN plan[c].intents = 1..Len(plan[c].intents) /\ Len(plan[c].intents) \in Nat
        BY <2>1, LenProperties
    <2>3. \A m \in Nat : IsFiniteSet(1..m)
        BY FS_Interval
    <2> QED
        BY <2>2, <2>3
<1>2. SpentOn(c, r) \in SUBSET (DOMAIN plan[c].intents)
    BY DEF SpentOn, PlannedAt
<1>3. IsFiniteSet(SpentOn(c, r)) /\ Cardinality(SpentOn(c, r)) \in Nat
    BY <1>1, <1>2, FS_Subset, FS_CardinalityType
<1>4. Times(r, processed[c]) \in Nat
    <2>1. processed[c] \in Seq(Request)
        BY DEF Typed
    <2> DEFINE K == {k \in DOMAIN processed[c] : processed[c][k] = r}
    <2>2. DOMAIN processed[c] = 1..Len(processed[c]) /\ Len(processed[c]) \in Nat
        BY <2>1, LenProperties
    <2>3. IsFiniteSet(DOMAIN processed[c]) /\ K \in SUBSET (DOMAIN processed[c])
        BY <2>2, FS_Interval
    <2> HIDE DEF K
    <2>4. Cardinality(K) \in Nat
        BY <2>3, FS_Subset, FS_CardinalityType
    <2> QED
        BY <2>4 DEF Times, K
<1>5. used[c] = {} => SpentOn(c, r) = {} /\ Cardinality(SpentOn(c, r)) = 0
    <2>1. used[c] = {} => SpentOn(c, r) = {}
        BY DEF SpentOn
    <2> QED
        BY <2>1, FS_EmptySet
<1> QED
    BY <1>3, <1>4, <1>5 DEF InFlight, Delayed

\* A request that is processed counts once more.
LEMMA Processing ==
    ASSUME Typed, NEW c \in Made, NEW h \in Request, processed' = [processed EXCEPT ![c] = Append(@, h)], NEW r
    PROVE  Times(r, processed'[c]) = Times(r, processed[c]) + (IF h = r THEN 1 ELSE 0)
<1>1. processed'[c] = Append(processed[c], h) /\ processed[c] \in Seq(Request)
    BY DEF Typed
<1> QED
    BY <1>1, TimesAppend

\* Before a call writes it has spent nothing and nothing was spent on it.
LEMMA NothingSpent ==
    ASSUME Typed, Spending, NEW c \in Made, PlannedAt(c), used[c] = {}, pc[c] # "ended",
           used'[c] = used[c], processed' = processed, late' = late, pc'[c] # "fetch"
    PROVE  Paid(c)'
<1>1. /\ processed'[c] = <<>> /\ \A r : <<c, r>> \notin late'
    BY DEF Spending, SpendingAt
<1>2. SUFFICES ASSUME NEW r \in Request
               PROVE  Times(r, processed'[c]) + InFlight(c, r)' + Delayed(c, r)' <= Cardinality(SpentOn(c, r)')
    BY DEF Paid
<1>3. Times(r, processed'[c]) = 0
    BY <1>1, EmptySeq, TimesBasics
<1>4. InFlight(c, r)' = 0 /\ Delayed(c, r)' = 0
    BY <1>1 DEF InFlight, Delayed
<1>5. Cardinality(SpentOn(c, r)') = 0
    <2>1. SpentOn(c, r)' = {}
        BY DEF SpentOn
    <2> QED
        BY <2>1, FS_EmptySet
<1> QED
    BY <1>3, <1>4, <1>5

\* The budget over the steps that lead to a write.
LEMMA SpendingBefore ==
    ASSUME Typed, Spending, NEW c \in Made, PlannedAt(c), GrantedAt(c),
           \/ StartPreview(c) \/ Claim(c) \/ ClaimMissing(c) \/ ClaimLost(c)
           \/ Read(c) \/ Issue(c) \/ IssueLost(c) \/ Validate(c) \/ Handler(c) \/ Fail(c)
    PROVE  SpendingAt(c)' /\ late' = late
<1>1. /\ \/ pc[c] \in {"queued", "read", "capture", "handler"} /\ pc'[c] \in Location \ {"fetch", "send"}
         \/ Handler(c)
      /\ used' = used /\ processed' = processed /\ late' = late
    BY DEF StartPreview, Claim, ClaimMissing, ClaimLost, Read, Issue, IssueLost, Validate, Handler, Fail,
           Goto, Typed, Location, history
<1>2. pc[c] \in {"queued", "read", "capture", "handler"} /\ pc'[c] # "fetch"
    BY <1>1 DEF Handler, Goto, Typed
<1>3. used[c] = {} /\ used'[c] = {} /\ processed'[c] = <<>>
    BY <1>1, <1>2 DEF PlannedAt, Spending, SpendingAt
<1>4. Paid(c)'
    BY <1>1, <1>2, <1>3, NothingSpent
<1>5. pc'[c] \in {"handler", "send"} => HasGrant(c)' /\ plan'[c] = approved'[call'[c].token]
    <2>1. CASE Validate(c)
        BY <2>1 DEF Validate, Valid, Goto, Typed, GrantedAt, HasGrant, Active, history
    <2>2. CASE Handler(c)
        BY <2>2 DEF Handler, Goto, Typed, Spending, SpendingAt, HasGrant, history
    <2>3. CASE ~Validate(c) /\ ~Handler(c)
        BY <2>3 DEF StartPreview, Claim, ClaimMissing, ClaimLost, Read, Issue, IssueLost, Fail, Goto, Typed
    <2> QED
        BY <2>1, <2>2, <2>3
<1> QED
    BY <1>1, <1>2, <1>3, <1>4, <1>5 DEF SpendingAt

\* An intent is used up, and its request put in flight.
LEMMA SpendingAuthorize ==
    ASSUME Typed, Spending, NEW c \in Made, PlannedAt(c), Authorize(c)
    PROVE  SpendingAt(c)' /\ late' = late
<1>1. /\ UNCHANGED <<late, call, plan, grant, todo, approved, processed>>
      /\ pc[c] = "send" /\ todo[c] # <<>> /\ pc'[c] \in {"fetch", "ended"}
    BY DEF Authorize, Goto, Typed, history
<1>2. HasGrant(c) /\ plan[c] = approved[call[c].token] /\ Paid(c) /\ (used[c] = {} => processed[c] = <<>>)
    BY <1>1 DEF Spending, SpendingAt
<1>3. CASE Unused(c) = {}
    <2>1. used' = used /\ pc'[c] = "ended"
        BY <1>3 DEF Authorize, Goto, Typed
    <2>2. Paid(c)'
        BY <1>1, <1>2, <2>1 DEF Paid, InFlight, Delayed, SpentOn
    <2> QED
        BY <1>1, <1>2, <2>1, <2>2 DEF SpendingAt, HasGrant
<1>4. CASE Unused(c) # {}
    <2>1. PICK k \in Unused(c) : used' = [used EXCEPT ![c] = @ \cup {k}]
        BY <1>4 DEF Authorize
    <2>2. k \notin used[c] /\ plan[c].intents[k] = Head(todo[c]) /\ used'[c] = used[c] \cup {k} /\ pc'[c] = "fetch"
        BY <1>4, <2>1 DEF Unused, Typed, Authorize, Goto
    <2>3. ASSUME NEW r \in Request
          PROVE  Times(r, processed'[c]) + InFlight(c, r)' + Delayed(c, r)' <= Cardinality(SpentOn(c, r)')
        <3> DEFINE x == Times(r, processed[c])
                   S == SpentOn(c, r)
                   T == SpentOn(c, r)'
        <3>1. /\ IsFiniteSet(S) /\ Cardinality(S) \in Nat /\ x \in Nat /\ Delayed(c, r) \in {0, 1}
              /\ x + Delayed(c, r) <= Cardinality(S)
            <4>1. InFlight(c, r) = 0 /\ x + InFlight(c, r) + Delayed(c, r) <= Cardinality(S)
                BY <1>1, <1>2 DEF InFlight, Paid
            <4> QED
                BY <4>1, BudgetTypes
        <3>2. processed'[c] = processed[c] /\ Delayed(c, r)' = Delayed(c, r)
            BY <1>1 DEF Delayed
        <3>3. T = IF Head(todo[c]) = r THEN S \cup {k} ELSE S
            BY <1>1, <2>2 DEF SpentOn
        <3>4. k \notin S
            BY <2>2 DEF SpentOn
        <3>5. InFlight(c, r)' = IF Head(todo[c]) = r THEN 1 ELSE 0
            BY <1>1, <2>2 DEF InFlight
        <3> HIDE DEF x, S, T
        <3>6. CASE Head(todo[c]) = r
            <4>1. Cardinality(T) = Cardinality(S) + 1
                BY <3>1, <3>3, <3>4, <3>6, FS_AddElement
            <4>2. x + 1 + Delayed(c, r) <= Cardinality(S) + 1
                BY <3>1
            <4> QED
                BY <3>2, <3>5, <3>6, <4>1, <4>2 DEF x, T
        <3>7. CASE Head(todo[c]) # r
            <4>1. x + 0 + Delayed(c, r) <= Cardinality(S)
                BY <3>1
            <4> QED
                BY <3>2, <3>3, <3>5, <3>7, <4>1 DEF x, T
        <3> QED
            BY <3>6, <3>7
    <2>4. Paid(c)'
        BY <2>3 DEF Paid
    <2>5. used'[c] # {}
        BY <2>2
    <2> QED
        BY <1>1, <1>2, <2>4, <2>5 DEF SpendingAt, HasGrant
<1> QED
    BY <1>1, <1>3, <1>4

\* The end of a call, and a request that is tried again or given up unsent.
LEMMA SpendingWaits ==
    ASSUME Typed, Spending, NEW c \in Made, PlannedAt(c), Finish(c) \/ TooMany(c)
    PROVE  SpendingAt(c)' /\ late' = late
<1>1. /\ UNCHANGED <<late, call, plan, grant, todo, used, approved, processed>>
      /\ pc[c] \in {"send", "fetch"} /\ pc'[c] \in {"done", "ended", pc[c]}
    BY DEF Finish, TooMany, Goto, Typed, history
<1>2. SpendingAt(c)
    BY DEF Spending
<1>3. pc'[c] # "send"
    BY <1>1 DEF Finish, TooMany, Goto, Typed
<1>4. ASSUME NEW r \in Request
      PROVE  Times(r, processed'[c]) + InFlight(c, r)' + Delayed(c, r)' <= Cardinality(SpentOn(c, r)')
    <2>1. Times(r, processed[c]) + InFlight(c, r) + Delayed(c, r) <= Cardinality(SpentOn(c, r))
        BY <1>2 DEF SpendingAt, Paid
    <2>2. processed'[c] = processed[c] /\ Delayed(c, r)' = Delayed(c, r) /\ SpentOn(c, r)' = SpentOn(c, r)
        BY <1>1 DEF Delayed, SpentOn
    <2>3. InFlight(c, r)' = InFlight(c, r) \/ InFlight(c, r)' = 0
        BY <1>1 DEF InFlight
    <2>4. Times(r, processed[c]) + 0 + Delayed(c, r) <= Cardinality(SpentOn(c, r))
        BY <2>1, BudgetTypes
    <2> QED
        BY <2>1, <2>2, <2>3, <2>4
<1>5. Paid(c)'
    BY <1>4 DEF Paid
<1> QED
    BY <1>1, <1>2, <1>5 DEF SpendingAt, HasGrant

\* The outcome of a request: processed, on its way, or never carried out.
LEMMA SpendingOutcome ==
    ASSUME Typed, Spending, NEW c \in Made, PlannedAt(c), Answer(c) \/ Unknown(c)
    PROVE  /\ SpendingAt(c)'
           /\ late \subseteq late' /\ late' \subseteq late \cup {<<c, Head(todo[c])>>}
           /\ late' # late => pc'[c] = "ended"
<1> DEFINE h == Head(todo[c])
<1>1. /\ UNCHANGED <<call, plan, grant, used, approved>>
      /\ pc[c] = "fetch" /\ pc'[c] \in {"send", "ended"}
      /\ todo[c] # <<>> /\ h \in Request
      /\ SpendingAt(c)
    BY HeadTypes DEF Answer, Unknown, Goto, Typed, history, Spending, SpendingAt
<1>2. \A r : <<c, r>> \notin late
    BY <1>1 DEF Spending
<1>3. \/ processed' = [processed EXCEPT ![c] = Append(@, h)] /\ late' = late
      \/ processed' = processed /\ late' = late
      \/ processed' = processed /\ late' = late \cup {<<c, h>>} /\ pc'[c] = "ended"
    BY DEF Answer, Unknown, Process, Goto, Typed
<1> HIDE DEF h
<1>4. ASSUME NEW r \in Request
      PROVE  Times(r, processed'[c]) + InFlight(c, r)' + Delayed(c, r)' <= Cardinality(SpentOn(c, r)')
    <2> DEFINE one == IF h = r THEN 1 ELSE 0
               x == Times(r, processed[c])
               y == Times(r, processed'[c])
               d == Delayed(c, r)'
    <2>1. x + one <= Cardinality(SpentOn(c, r)) /\ x \in Nat /\ one \in {0, 1}
        <3>1. x + InFlight(c, r) + Delayed(c, r) <= Cardinality(SpentOn(c, r))
            BY <1>1 DEF SpendingAt, Paid
        <3>2. InFlight(c, r) = one /\ Delayed(c, r) = 0
            BY <1>1, <1>2 DEF InFlight, Delayed, h
        <3>3. x \in Nat
            BY BudgetTypes
        <3> HIDE DEF x, one
        <3>4. one \in {0, 1}
            BY DEF one
        <3> QED
            BY <3>1, <3>2, <3>3, <3>4
    <2>2. SpentOn(c, r)' = SpentOn(c, r) /\ InFlight(c, r)' = 0
        BY <1>1 DEF SpentOn, InFlight
    <2>3. \/ y = x + one /\ d = 0
          \/ y = x /\ d = 0
          \/ y = x /\ d = one
        <3>1. CASE processed' = [processed EXCEPT ![c] = Append(@, h)] /\ late' = late
            BY <1>1, <1>2, <3>1, Processing DEF Delayed
        <3>2. CASE processed' = processed /\ late' = late
            BY <1>2, <3>2 DEF Delayed
        <3>3. CASE processed' = processed /\ late' = late \cup {<<c, h>>}
            BY <1>2, <3>3 DEF Delayed
        <3> QED
            BY <1>3, <3>1, <3>2, <3>3
    <2> HIDE DEF x, y, d, one
    <2>4. y + 0 + d <= x + one
        BY <2>1, <2>3
    <2>5. Cardinality(SpentOn(c, r)) \in Nat
        BY BudgetTypes
    <2>6. y + 0 + d <= Cardinality(SpentOn(c, r))
        BY <2>1, <2>3, <2>4, <2>5
    <2> QED
        BY <2>2, <2>6 DEF y, d
<1>5. used[c] # {}
    <2>1. Times(h, processed[c]) + InFlight(c, h) + Delayed(c, h) <= Cardinality(SpentOn(c, h))
        BY <1>1 DEF SpendingAt, Paid
    <2>2. InFlight(c, h) = 1
        BY <1>1 DEF InFlight, h
    <2> QED
        BY <2>1, <2>2, BudgetTypes
<1>6. Paid(c)'
    BY <1>4 DEF Paid
<1> QED
    BY <1>1, <1>3, <1>5, <1>6 DEF SpendingAt, HasGrant, h

\* What comes late was paid for when it was sent.
LEMMA SpendingLate ==
    ASSUME Typed, Planned, Spending, NEW q \in late, Late(q[1], q[2])
    PROVE  Spending'
<1> DEFINE c == q[1]
           h == q[2]
<1>1. /\ c \in Made /\ h \in Request /\ q = <<c, h>> /\ pc[c] = "ended"
      /\ SpendingAt(c) /\ PlannedAt(c)
    BY DEF Typed, Spending, Planned
<1> HIDE DEF c, h
<1>2. /\ late' = late \ {<<c, h>>} /\ processed' = [processed EXCEPT ![c] = Append(@, h)]
      /\ UNCHANGED <<call, pc, plan, grant, todo, used, approved>>
    BY DEF c, h, Late, Process, control
<1>3. Made' = Made
    BY <1>2 DEF Made
<1>4. ASSUME NEW d \in Made \ {c} PROVE SpendingAt(d)'
    <2>1. processed'[d] = processed[d] /\ \A r : Delayed(d, r)' = Delayed(d, r)
        BY <1>2 DEF Typed, Delayed
    <2>2. \A r : SpentOn(d, r)' = SpentOn(d, r) /\ InFlight(d, r)' = InFlight(d, r)
        BY <1>2 DEF SpentOn, InFlight
    <2>3. Paid(d)'
        BY <2>1, <2>2 DEF Paid, Spending, SpendingAt
    <2> QED
        BY <1>2, <2>1, <2>3 DEF Spending, SpendingAt, HasGrant
<1>5. ASSUME NEW r \in Request
      PROVE  Times(r, processed'[c]) + InFlight(c, r)' + Delayed(c, r)' <= Cardinality(SpentOn(c, r)')
    <2> DEFINE one == IF h = r THEN 1 ELSE 0
               x == Times(r, processed[c])
    <2>1. /\ Times(r, processed'[c]) = x + one /\ x \in Nat
          /\ x + InFlight(c, r) + Delayed(c, r) <= Cardinality(SpentOn(c, r))
        BY <1>1, <1>2, Processing, BudgetTypes DEF SpendingAt, Paid
    <2>2. SpentOn(c, r)' = SpentOn(c, r) /\ InFlight(c, r)' = InFlight(c, r) /\ InFlight(c, r) = 0
        BY <1>1, <1>2 DEF SpentOn, InFlight
    <2>3. \/ one = 1 /\ Delayed(c, r) = 1 /\ Delayed(c, r)' = 0
          \/ one = 0 /\ Delayed(c, r)' = Delayed(c, r)
        BY <1>1, <1>2 DEF Delayed
    <2>4. Delayed(c, r) \in {0, 1}
        BY DEF Delayed
    <2> HIDE DEF x, one
    <2>5. (x + one) + 0 + Delayed(c, r)' = x + 0 + Delayed(c, r)
        BY <2>1, <2>3, <2>4
    <2> QED
        BY <2>1, <2>2, <2>5
<1>6. SpendingAt(c)'
    <2>1. Paid(c)'
        BY <1>5 DEF Paid
    <2>2. used[c] # {}
        <3>1. Times(h, processed[c]) + InFlight(c, h) + Delayed(c, h) <= Cardinality(SpentOn(c, h))
            BY <1>1 DEF SpendingAt, Paid
        <3>2. Delayed(c, h) = 1
            BY <1>1 DEF Delayed
        <3> QED
            BY <1>1, <3>1, <3>2, BudgetTypes
    <2> QED
        BY <1>1, <1>2, <2>1, <2>2 DEF SpendingAt, HasGrant
<1> QED
    BY <1>2, <1>3, <1>4, <1>6 DEF Spending

\* What is approved under a token does not change.
LEMMA ApprovalsStay ==
    ASSUME Issued, NEW c \in Made, Progress(c) \/ Trouble(c)
    PROVE  \A t \in DOMAIN approved : approved'[t] = approved[t]
<1>1. CASE Quiet(c)
    BY <1>1, QuietSteps
<1>2. CASE Issue(c)
    <2>1. c \notin DOMAIN approved
        BY <1>2 DEF Issue, Issued
    <2> QED
        BY <1>2, <2>1 DEF Issue
<1>3. CASE IssueLost(c)
    BY <1>3 DEF IssueLost, history
<1> QED
    BY <1>1, <1>2, <1>3 DEF Quiet, Progress, Trouble

\* No call overspends what was approved.
LEMMA SpendingKept ==
    ASSUME Typed, Planned, Spending, Issued, Granted, Next
    PROVE  Spending'
<1>0. \A d \in Made : HasGrant(d) => call[d].token \in DOMAIN approved
    BY DEF Issued, Granted, GrantedAt
<1>1. ASSUME NEW s \in Session, NEW kind \in {"preview", "write"}, NEW i \in Input, NEW t \in 0..MaxCalls,
             Submit(s, kind, i, t)
      PROVE  Spending'
    <2>0. PICK n : n = Len(call) + 1
        OBVIOUS
    <2>1. /\ Made' = Made \cup {n} /\ n \notin Made
          /\ \A c \in Made : /\ call'[c] = call[c] /\ pc'[c] = pc[c] /\ grant'[c] = grant[c] /\ plan'[c] = plan[c]
                             /\ todo'[c] = todo[c] /\ used'[c] = used[c] /\ processed'[c] = processed[c]
          /\ pc'[n] = "queued" /\ used'[n] = {} /\ processed'[n] = <<>>
        BY <1>1, <2>0, SubmitShape
    <2>2. late' = late /\ approved' = approved
        BY <1>1 DEF Submit
    <2>3. ASSUME NEW c \in Made PROVE SpendingAt(c)'
        <3>1. \A r : /\ SpentOn(c, r)' = SpentOn(c, r) /\ InFlight(c, r)' = InFlight(c, r)
                     /\ Delayed(c, r)' = Delayed(c, r)
            BY <2>1, <2>2 DEF SpentOn, InFlight, Delayed
        <3>2. Paid(c)'
            BY <2>1, <3>1 DEF Paid, Spending, SpendingAt
        <3> QED
            BY <2>1, <2>2, <3>2 DEF Spending, SpendingAt, HasGrant
    <2>4. SpendingAt(n)'
        <3>1. ASSUME NEW r \in Request
              PROVE  Times(r, processed'[n]) + InFlight(n, r)' + Delayed(n, r)' <= Cardinality(SpentOn(n, r)')
            <4>1. Times(r, processed'[n]) = 0
                BY <2>1, EmptySeq, TimesBasics
            <4>2. InFlight(n, r)' = 0 /\ Delayed(n, r)' = 0
                BY <2>1, <2>2 DEF InFlight, Delayed, Spending
            <4>3. SpentOn(n, r)' = {}
                BY <2>1 DEF SpentOn
            <4> QED
                BY <4>1, <4>2, <4>3, FS_EmptySet
        <3> QED
            BY <2>1, <3>1 DEF SpendingAt, Paid
    <2> QED
        BY <2>1, <2>2, <2>3, <2>4 DEF Spending
<1>2. ASSUME NEW c \in Made, Progress(c) \/ Trouble(c)
      PROVE  Spending'
    <2>1. CallStep(c) /\ PlannedAt(c) /\ GrantedAt(c)
        BY <1>2, AllCallSteps DEF Planned, Granted
    <2>2. \A t \in DOMAIN approved : approved'[t] = approved[t]
        BY <1>2, ApprovalsStay
    <2>3. /\ SpendingAt(c)'
          /\ late \subseteq late' /\ late' \subseteq late \cup {<<c, Head(todo[c])>>}
          /\ late' # late => pc'[c] = "ended"
        <3>1. CASE \/ StartPreview(c) \/ Claim(c) \/ ClaimMissing(c) \/ ClaimLost(c)
                   \/ Read(c) \/ Issue(c) \/ IssueLost(c) \/ Validate(c) \/ Handler(c) \/ Fail(c)
            BY <2>1, <3>1, SpendingBefore
        <3>2. CASE Authorize(c)
            BY <2>1, <3>2, SpendingAuthorize
        <3>3. CASE Finish(c) \/ TooMany(c)
            BY <2>1, <3>3, SpendingWaits
        <3>4. CASE Answer(c) \/ Unknown(c)
            BY <2>1, <3>4, SpendingOutcome
        <3> QED
            BY <1>2, <3>1, <3>2, <3>3, <3>4 DEF Progress, Trouble
    <2>4. ASSUME NEW d \in Made \ {c} PROVE SpendingAt(d)'
        <3>1. \A r : /\ SpentOn(d, r)' = SpentOn(d, r) /\ InFlight(d, r)' = InFlight(d, r)
                     /\ Delayed(d, r)' = Delayed(d, r)
            BY <2>1, <2>3 DEF SpentOn, InFlight, Delayed, CallStep
        <3>2. Paid(d)'
            BY <2>1, <3>1 DEF Paid, Spending, SpendingAt, CallStep
        <3> QED
            BY <1>0, <2>1, <2>2, <3>2 DEF Spending, SpendingAt, HasGrant, CallStep
    <2>5. ASSUME NEW q \in late' PROVE q[1] \in Made /\ pc'[q[1]] = "ended"
        <3>1. CASE q \in late
            BY <2>1, <3>1 DEF Spending, CallStep
        <3>2. CASE q \notin late
            BY <2>3, <3>2
        <3> QED
            BY <3>1, <3>2
    <2> QED
        BY <2>1, <2>3, <2>4, <2>5 DEF Spending, CallStep
<1>3. ASSUME NEW q \in late, Late(q[1], q[2])
      PROVE  Spending'
    BY <1>3, SpendingLate
<1>4. ASSUME Edit \/ Tick
      PROVE  Spending'
    <2>1. UNCHANGED <<late, control, approved, processed>> /\ Made' = Made
        BY <1>4 DEF Edit, Tick, history, control, Made
    <2> QED
        BY <2>1 DEF Spending, SpendingAt, Paid, HasGrant, InFlight, Delayed, SpentOn, control
<1> QED
    BY <1>1, <1>2, <1>3, <1>4, StepKinds

\* While a call works on its plan, only other instances and YNAB's users can
\* change what it has read, and then it counts as disturbed.
LEMMA OthersDisturb ==
    ASSUME Typed, Planned, Spending, InTurn, NEW c \in Made, Progress(c) \/ Trouble(c),
           NEW d \in Made \ {c}, Active(d), world' # world
    PROVE  d \in disturbed'
<1>1. /\ Answer(c) \/ Unknown(c)
      /\ pc[c] = "fetch" /\ Disturb({x \in Made : call[x].session # call[c].session})
    <2>1. CASE Answer(c) \/ Unknown(c)
        BY <2>1 DEF Answer, Unknown
    <2>2. CASE \/ StartPreview(c) \/ Claim(c) \/ ClaimMissing(c) \/ ClaimLost(c) \/ Read(c) \/ Issue(c) \/ IssueLost(c)
        BY <2>2 DEF StartPreview, Claim, ClaimMissing, ClaimLost, Read, Issue, IssueLost
    <2>3. CASE Validate(c) \/ Handler(c) \/ Authorize(c) \/ Finish(c) \/ TooMany(c) \/ Fail(c)
        BY <2>3 DEF Validate, Handler, Authorize, Finish, TooMany, Fail
    <2> QED
        BY <2>1, <2>2, <2>3 DEF Progress, Trouble
<1>2. call[d].session # call[c].session
    <2>1. c \in Int /\ d \in Int
        BY CallTypes DEF CallNo
    <2>2. c < d \/ d < c
        BY <2>1
    <2>3. pc[d] \notin {"queued", "ended", "done"}
        BY DEF Active
    <2> QED
        BY <1>1, <2>2, <2>3 DEF InTurn
<1> QED
    BY <1>1, <1>2 DEF Disturb

\* An undisturbed call knows what YNAB holds.
LEMMA ReviewedKept ==
    ASSUME Typed, Planned, Spending, InTurn, Reviewed, Next
    PROVE  Reviewed'
<1>1. ASSUME NEW s \in Session, NEW kind \in {"preview", "write"}, NEW i \in Input, NEW t \in 0..MaxCalls,
             Submit(s, kind, i, t)
      PROVE  Reviewed'
    <2>0. PICK n : n = Len(call) + 1
        OBVIOUS
    <2>1. /\ Made' = Made \cup {n} /\ pc'[n] = "queued"
          /\ \A c \in Made : call'[c] = call[c] /\ pc'[c] = pc[c] /\ plan'[c] = plan[c] /\ processed'[c] = processed[c]
        BY <1>1, <2>0, SubmitShape
    <2>2. world' = world /\ disturbed' = disturbed
        BY <1>1 DEF Submit
    <2> QED
        BY <2>1, <2>2 DEF Reviewed, ReviewedAt
<1>2. ASSUME NEW c \in Made, Progress(c) \/ Trouble(c)
      PROVE  Reviewed'
    <2>1. CallStep(c) /\ PlannedAt(c) /\ ReviewedAt(c)
        BY <1>2, AllCallSteps DEF Planned, Reviewed
    <2>2. ASSUME NEW d \in Made \ {c} PROVE ReviewedAt(d)'
        <3>1. pc'[d] = pc[d] /\ plan'[d] = plan[d] /\ processed'[d] = processed[d] /\ call' = call /\ disturbed \subseteq disturbed'
            BY <2>1 DEF CallStep
        <3>2. CASE world' = world
            BY <3>1, <3>2 DEF Reviewed, ReviewedAt
        <3>3. CASE world' # world
            <4>1. Active(d) => d \in disturbed'
                BY <1>2, <3>3, OthersDisturb
            <4> QED
                BY <3>1, <4>1 DEF ReviewedAt, Active
        <3> QED
            BY <3>2, <3>3
    <2>3. ReviewedAt(c)'
        <3>1. CASE StartPreview(c) \/ Claim(c) \/ ClaimMissing(c) \/ ClaimLost(c) \/ IssueLost(c) \/ Fail(c) \/ Finish(c)
            BY <3>1 DEF StartPreview, Claim, ClaimMissing, ClaimLost, IssueLost, Fail, Finish, Goto, Typed, ReviewedAt
        <3>2. CASE Read(c)
            BY <3>2 DEF Read, Typed, ReviewedAt, history
        <3>3. CASE Issue(c) \/ Validate(c)
            <4>1. pc[c] = "capture" /\ plan'[c] = Prepared(c) /\ world' = world /\ call' = call /\ processed' = processed
                  /\ disturbed' = disturbed
                BY <3>3 DEF Issue, Validate, Typed, history
            <4>2. plan'[c].before = plan[c].before
                BY <2>1, <4>1, PreparedType DEF PlannedAt
            <4> QED
                BY <2>1, <4>1, <4>2 DEF ReviewedAt
        <3>4. CASE Handler(c) \/ Authorize(c) \/ TooMany(c)
            BY <3>4, <2>1 DEF Handler, Authorize, TooMany, ReviewedAt, history
        <3>5. CASE Answer(c) \/ Unknown(c)
            <4>1. /\ pc[c] = "fetch" /\ call' = call /\ plan' = plan
                  /\ \/ processed' = [processed EXCEPT ![c] = Append(@, Head(todo[c]))]
                     \/ pc'[c] = "ended"
                BY <3>5 DEF Answer, Unknown, Process, Goto, Typed
            <4>2. Append(processed[c], Head(todo[c])) # <<>>
                <5>1. todo[c] # <<>>
                    BY <4>1 DEF Spending, SpendingAt
                <5> QED
                    BY <5>1, HeadTypes, AppendProperties DEF Typed
            <4> QED
                BY <4>1, <4>2 DEF ReviewedAt, Typed
        <3> QED
            BY <1>2, <3>1, <3>2, <3>3, <3>4, <3>5 DEF Progress, Trouble
    <2> QED
        BY <2>1, <2>2, <2>3 DEF Reviewed, CallStep
<1>3. ASSUME (\E q \in late : Late(q[1], q[2])) \/ Edit \/ Tick
      PROVE  Reviewed'
    <2>1. WorldStep
        BY <1>3, WorldSteps
    <2>2. \/ world' = world /\ processed' = processed
          \/ \A c \in Made : Active(c) => c \in disturbed'
        BY <1>3 DEF Late, Edit, Tick, Disturb, history
    <2>3. CASE world' = world /\ processed' = processed
        BY <2>1, <2>3 DEF Reviewed, ReviewedAt, WorldStep, control
    <2>4. CASE \A c \in Made : Active(c) => c \in disturbed'
        BY <2>1, <2>4 DEF Reviewed, ReviewedAt, Active, WorldStep, control
    <2> QED
        BY <2>2, <2>3, <2>4
<1> QED
    BY <1>1, <1>2, <1>3, StepKinds

-----------------------------------------------------------------------------
(* The theorems.                                                           *)

LEMMA InitHolds == Init => IInv
<1> SUFFICES ASSUME Init PROVE IInv
    OBVIOUS
<1>1. call = <<>> /\ Made = {} /\ stored = {} /\ late = {} /\ approved = <<>>
    BY DEF Init, Made
<1>2. /\ call \in Seq(Call) /\ Len(call) = 0
      /\ {MaxCalls, MaxTime, MaxEdits, MaxFaults} \subseteq Nat /\ Start \in State
    BY <1>1, EmptySeq, GuardAssumption
<1>3. /\ pc \in [Made -> Location] /\ plan \in [Made -> PlanSpace \cup {NoPlan}]
      /\ grant \in [Made -> Preview \cup {NoPreview}] /\ todo \in [Made -> Seq(Request)]
      /\ used \in [Made -> SUBSET Nat] /\ attempt \in [Made -> 0..MaxRetries]
      /\ processed \in [Made -> Seq(Request)]
      /\ DOMAIN approved = {} /\ approved \in [DOMAIN approved -> PlanSpace]
    BY <1>1 DEF Init
<1>4. Typed
    BY <1>1, <1>2, <1>3 DEF Init, Typed
<1>5. Bounded
    BY <1>1, FS_EmptySet DEF Bounded, Roomy
<1>6. Planned /\ InTurn /\ Issued /\ Granted /\ Spending /\ Reviewed
    BY <1>1, <1>3 DEF Planned, InTurn, Issued, Granted, Spending, Reviewed
<1> QED
    BY <1>4, <1>5, <1>6 DEF IInv

LEMMA StepHolds == IInv /\ [Next]_vars => IInv'
<1> SUFFICES ASSUME IInv, [Next]_vars PROVE IInv'
    OBVIOUS
<1>1. CASE UNCHANGED vars
    <2>1. /\ UNCHANGED <<hosted, world, late, stored, call, pc, plan, grant, todo, used, attempt>>
          /\ UNCHANGED <<now, edits, faults, approved, processed, disturbed>> /\ Made' = Made
        BY <1>1 DEF vars, control, history, Made
    <2>2. Typed' /\ Bounded' /\ Planned' /\ InTurn'
        BY <2>1 DEF IInv, Typed, Bounded, Roomy, Planned, PlannedAt, InTurn
    <2>3. Issued' /\ Granted'
        BY <2>1 DEF IInv, Issued, Granted, GrantedAt, HasGrant, Active, Owner, OwnerOf
    <2>4. Spending' /\ Reviewed'
        BY <2>1 DEF IInv, Spending, SpendingAt, Paid, HasGrant, InFlight, Delayed, SpentOn, Reviewed, ReviewedAt
    <2> QED
        BY <2>2, <2>3, <2>4 DEF IInv
<1>2. CASE Next
    <2>1. Typed'
        <3>1. ASSUME NEW s \in Session, NEW kind \in {"preview", "write"}, NEW i \in Input, NEW t \in 0..MaxCalls,
                     Submit(s, kind, i, t)
              PROVE  Typed'
            BY <3>1, SubmitShape DEF IInv
        <3>2. ASSUME NEW c \in Made, Progress(c) \/ Trouble(c) PROVE Typed'
            BY <3>2, AllCallSteps DEF IInv, CallStep
        <3>3. ASSUME (\E q \in late : Late(q[1], q[2])) \/ Edit \/ Tick PROVE Typed'
            BY <3>3, WorldSteps DEF IInv, WorldStep
        <3> QED
            BY <1>2, <3>1, <3>2, <3>3, StepKinds
    <2> QED
        BY <1>2, <2>1, BoundedKept, PlannedKept, InTurnKept, IssuedKept, GrantedKept, SpendingKept, ReviewedKept
        DEF IInv
<1> QED
    BY <1>1, <1>2

\* The invariant behind the theorems below: previews in the store or with one
\* call, budgets kept, calls of one instance in turn.
THEOREM GuardInvariance == Spec => []IInv
BY InitHolds, StepHolds, PTL DEF Spec

\* The variables have their types, and no store outgrows its limit: issue drops
\* what has expired and then as many as it takes (lib/write-previews.mjs).
THEOREM GuardTypeCorrect == Spec => []TypeOK
<1>1. IInv => TypeOK
    BY DEF IInv, Typed, Bounded, Roomy, Planned, PlannedAt, TypeOK
<1> QED
    BY <1>1, GuardInvariance, PTL

\* Whatever the tools plan and send, and however calls of several sessions,
\* retries, timeouts and late requests interleave: YNAB processes for a call
\* only requests of the plan its token was issued for, each at most as often as
\* the plan holds it, and for no second call with the same token (the claim of
\* lib/write-previews.mjs, the budget of secureFetch).
THEOREM OnlyAsApproved == Spec => []AsApproved
<1>1. ASSUME IInv, NEW c \in Made, NEW k \in DOMAIN processed[c]
      PROVE  LET r == processed[c][k] IN
             /\ call[c].token \in DOMAIN approved
             /\ Times(r, approved[call[c].token].intents) >= Times(r, processed[c])
             /\ \A d \in WritesUnder(call[c].token) \ {c} : processed[d] = <<>>
    <2> USE DEF IInv
    <2>1. processed[c] \in Seq(Request) /\ SpendingAt(c) /\ PlannedAt(c) /\ GrantedAt(c)
        BY <1>1 DEF Typed, Spending, Planned, Granted
    <2>2. processed[c] # <<>> /\ processed[c][k] \in Request
        BY <1>1, <2>1, LenProperties, ElementOfSeq
    <2>3. used[c] # {} /\ HasGrant(c) /\ plan[c] = approved[call[c].token]
        BY <2>1, <2>2 DEF SpendingAt
    <2>4. call[c].token \in DOMAIN approved
        BY <1>1, <2>1, <2>3 DEF GrantedAt, Issued
    <2>5. ASSUME NEW r \in Request PROVE Times(r, plan[c].intents) >= Times(r, processed[c])
        <3> DEFINE S == SpentOn(c, r)
                   K == {j \in DOMAIN plan[c].intents : plan[c].intents[j] = r}
        <3>1. S \in SUBSET K /\ IsFiniteSet(K)
            <4>1. plan[c].intents \in Seq(Request)
                BY <1>1, <2>3, <2>4 DEF Typed, PlanSpace
            <4>2. DOMAIN plan[c].intents = 1..Len(plan[c].intents) /\ Len(plan[c].intents) \in Nat
                BY <4>1, LenProperties
            <4>3. IsFiniteSet(DOMAIN plan[c].intents) /\ K \in SUBSET (DOMAIN plan[c].intents)
                BY <4>2, FS_Interval
            <4>4. S \in SUBSET K
                BY <2>1 DEF SpentOn, PlannedAt
            <4> HIDE DEF S, K
            <4> QED
                BY <4>3, <4>4, FS_Subset
        <3> HIDE DEF K
        <3>2. Cardinality(S) <= Cardinality(K) /\ Cardinality(K) \in Nat
            BY <3>1, FS_Subset, FS_CardinalityType
        <3>3. /\ Times(r, processed[c]) + InFlight(c, r) + Delayed(c, r) <= Cardinality(S)
              /\ Times(r, processed[c]) \in Nat /\ InFlight(c, r) \in {0, 1} /\ Delayed(c, r) \in {0, 1}
              /\ Cardinality(S) \in Nat
            BY <1>1, <2>1, BudgetTypes DEF SpendingAt, Paid
        <3> HIDE DEF S
        <3>4. Times(r, processed[c]) <= Cardinality(K)
            BY <3>2, <3>3
        <3> QED
            BY <3>4 DEF K, Times
    <2>6. ASSUME NEW d \in WritesUnder(call[c].token) \ {c}, processed[d] # <<>> PROVE FALSE
        <3>1. d \in Made /\ call[d].token = call[c].token /\ d # c
            BY <2>6 DEF WritesUnder
        <3>2. HasGrant(d)
            BY <1>1, <2>6, <3>1 DEF Spending, SpendingAt
        <3> QED
            BY <2>1, <2>3, <3>1, <3>2 DEF GrantedAt
    <2> QED
        BY <2>2, <2>3, <2>4, <2>5, <2>6
<1>2. IInv => AsApproved
    BY <1>1 DEF AsApproved
<1> QED
    BY <1>2, GuardInvariance, PTL

\* What a write sends was approved for the state its own instance still finds:
\* the queue of index.js lets none of its other calls in between.
THEOREM ReviewHolds == Spec => []ReviewedStateHolds
<1>1. IInv => ReviewedStateHolds
    BY DEF IInv, Reviewed, ReviewedAt, Spending, SpendingAt, ReviewedStateHolds
<1> QED
    BY <1>1, GuardInvariance, PTL

\* No handler starts to write with a token of another session (hosted: of
\* another consent) or with one that has expired: claim looks in the store of
\* the caller, and validate looks at the clock again.
THEOREM GrantsAreGood == Spec => GrantIsGood
<1>1. ASSUME IInv, [Next]_vars
      PROVE  [\A c \in Made : pc[c] = "capture" /\ pc'[c] = "handler" =>
                /\ Owner(c) = OwnerOf(call[call[c].token].session)
                /\ now < grant[c].expires]_vars
    <2> USE DEF IInv
    <2> SUFFICES ASSUME Next, NEW c \in Made, pc[c] = "capture", pc'[c] = "handler"
                 PROVE  /\ Owner(c) = OwnerOf(call[call[c].token].session)
                        /\ now < grant[c].expires
        BY <1>1
    <2>1. Validate(c)
        <3>1. ASSUME NEW s \in Session, NEW kind \in {"preview", "write"}, NEW i \in Input, NEW t \in 0..MaxCalls,
                     Submit(s, kind, i, t)
              PROVE  FALSE
            <4>1. pc'[c] = pc[c]
                BY <1>1, <3>1, SubmitShape
            <4> QED
                BY <4>1
        <3>2. ASSUME NEW d \in Made, Progress(d) \/ Trouble(d)
              PROVE  Validate(c)
            <4>1. d = c
                BY <1>1, <3>2, AllCallSteps DEF CallStep
            <4>2. pc[c] = "capture" /\ pc'[c] = "handler" /\ pc \in [Made -> Location]
                BY <1>1 DEF Typed
            <4> QED
                BY <3>2, <4>1, <4>2 DEF Progress, Trouble, StartPreview, Claim, ClaimMissing, ClaimLost, Read, Issue,
                    IssueLost, Handler, Authorize, Finish, Answer, TooMany, Unknown, Fail, Goto
        <3>3. ASSUME (\E q \in late : Late(q[1], q[2])) \/ Edit \/ Tick PROVE FALSE
            BY <1>1, <3>3, WorldSteps DEF WorldStep, control
        <3> QED
            BY <3>1, <3>2, <3>3, StepKinds
    <2>2. HasGrant(c) /\ GrantedAt(c)
        BY <1>1, <2>1 DEF Granted, GrantedAt, Active, Validate
    <2>3. Valid(c)
        BY <1>1, <2>1 DEF Validate, Goto, Typed
    <2>4. now < grant[c].expires
        <3>1. grant[c] \in Preview /\ now \in Nat
            BY <1>1, <2>2, GuardAssumption DEF Typed, HasGrant
        <3> QED
            BY <2>3, <3>1 DEF Valid, Preview
    <2> QED
        BY <2>2, <2>4 DEF GrantedAt
<1> QED
    BY <1>1, GuardInvariance, PTL DEF Spec, GrantIsGood

=============================================================================
