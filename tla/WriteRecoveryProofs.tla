------------------------ MODULE WriteRecoveryProofs ------------------------
(***************************************************************************)
(* Proofs about WriteRecovery, for every set of runners, operations and    *)
(* plans, and for every bound on calls, edits and faults.                  *)
(***************************************************************************)
EXTENDS WriteRecovery, TLAPS

-----------------------------------------------------------------------------
(* The inductive invariant.  A call c is good if                           *)
(*  - it has a step to write, and a positive attempt number, whenever it   *)
(*    writes or is about to;                                               *)
(*  - its copy of the entry shows evidence for what it claims;             *)
(*  - every step the apply loop has passed is applied;                     *)
(*  - its copy differs from a durable entry of the same revision only in   *)
(*    the attempt it is about to save.                                     *)

Evident(e) ==
    \A j \in DOMAIN e.steps :
        /\ e.steps[j].status = "applied" => e.steps[j].verified
        /\ e.steps[j].verified =>
              e.steps[j].attempts > 0 \/ Plan[e.plan][j].before = Plan[e.plan][j].after
        /\ e.status = "completed" => e.steps[j].status = "applied"

SavedLabel == {"verify", "check", "apply", "write", "return"}

Placed(c, p, i) ==
    /\ p \in {"write", "readback"} =>
          i \in DOMAIN c.entry.steps /\ c.entry.steps[i].attempts > 0
    /\ p \in {"apply", "write", "readback"} =>
          \A k \in DOMAIN c.entry.steps : k < i => c.entry.steps[k].status = "applied"

Position(c) ==
    /\ Placed(c, c.pc, c.at)
    /\ c.pc = "save" =>
          /\ Placed(c, c.ret.pc, c.ret.at)
          /\ c.ret.pc \in SavedLabel

Pending(c, j) == c.pc = "save" /\ c.ret.pc = "write" /\ c.ret.at = j

Agrees(c, e) ==
    \A j \in DOMAIN e.steps :
        c.entry.steps[j].attempts = e.steps[j].attempts + (IF Pending(c, j) THEN 1 ELSE 0)

Based(c, J) ==
    /\ c.known = 0 => c.pc = "save" /\ c.ret.pc = "verify"
    /\ c.known > 0 =>
          /\ J[c.op] # NoEntry
          /\ J[c.op].plan = c.entry.plan
          /\ J[c.op].revision >= c.known
          /\ J[c.op].revision = c.known => Agrees(c, J[c.op])

Good(c, J) == Position(c) /\ Evident(c.entry) /\ Based(c, J)

EntriesEvident ==
    \A o \in OpId : Exists(o) => journal[o].revision > 0 /\ Evident(journal[o])

CallsGood ==
    \A r \in Runner : call[r] # NoCall => Good(call[r], journal)

Requested(r) == RequestOf(call[r], call[r].at)

RequestsDiffer ==
    \A r, q \in Runner : At(r, "write") /\ At(q, "write") /\ r # q =>
        Requested(r) # Requested(q)

IInv ==
    /\ TypeOK
    /\ EntriesEvident
    /\ CallsGood
    /\ IntentBeforeWrite
    /\ OneRequestPerIntent
    /\ RequestsDiffer
    /\ late \subseteq sent

-----------------------------------------------------------------------------
(* The helpers keep calls well formed.                                     *)

\* An entry has the steps of its plan.
LEMMA EntryPlan ==
    ASSUME NEW e \in Entry
    PROVE  /\ e.plan \in PlanId
           /\ e \in EntryOf(e.plan)
           /\ DOMAIN e.steps = DOMAIN Plan[e.plan]
           /\ e # NoEntry
BY DEF Entry, EntryOf, NoEntry, EntryStatus

\* The steps of an entry have the shape of steps.
LEMMA StepTypes ==
    ASSUME NEW e \in Entry, NEW j \in DOMAIN e.steps
    PROVE  e.steps[j] \in StepState
BY EntryPlan DEF EntryOf

\* The steps of a plan are numbered and have the shape of plan steps.
LEMMA PlanTypes ==
    ASSUME NEW p \in PlanId, NEW j \in DOMAIN Plan[p]
    PROVE  /\ j \in Nat /\ j \in StepNo
           /\ Plan[p][j] \in PlanStep
BY PlanAssumption DEF StepNo


\* Replacing a step of the copy changes that step and the status alone.
LEMMA PutFacts ==
    ASSUME NEW c \in Call, NEW j \in DOMAIN c.entry.steps,
           NEW step \in StepState, NEW es \in EntryStatus
    PROVE  LET d == Put(c, j, step, es) IN
           /\ d \in Call
           /\ d.op = c.op /\ d.known = c.known /\ d.pc = c.pc /\ d.at = c.at
           /\ d.entry.plan = c.entry.plan /\ d.entry.status = es
           /\ DOMAIN d.entry.steps = DOMAIN c.entry.steps
           /\ d.entry.steps[j] = step
           /\ \A k \in DOMAIN c.entry.steps : k # j =>
                 d.entry.steps[k] = c.entry.steps[k]
<1> DEFINE e == [c.entry EXCEPT !.steps[j] = step, !.status = es]
<1>1. c.entry \in EntryOf(c.entry.plan) /\ c.entry.plan \in PlanId
  BY EntryPlan DEF Call
<1>2. e \in EntryOf(c.entry.plan)
  BY <1>1 DEF EntryOf
<1>3. e \in Entry
  BY <1>1, <1>2 DEF Entry
<1>4. Put(c, j, step, es) = [c EXCEPT !.entry = e]
  BY DEF Put, Call
<1>5. /\ e.plan = c.entry.plan /\ e.status = es
      /\ DOMAIN e.steps = DOMAIN c.entry.steps
      /\ e.steps[j] = step
      /\ \A k \in DOMAIN c.entry.steps : k # j => e.steps[k] = c.entry.steps[k]
  BY <1>1 DEF EntryOf
<1> HIDE DEF e
<1> QED
  BY <1>3, <1>4, <1>5 DEF Call

\* A call that is to be saved keeps its entry.
LEMMA SaveThenFacts ==
    ASSUME NEW c \in Call, NEW p \in Label, NEW i \in Nat
    PROVE  LET d == SaveThen(c, p, i) IN
           /\ d \in Call
           /\ d.op = c.op /\ d.known = c.known /\ d.entry = c.entry
           /\ d.pc = "save" /\ d.ret.pc = p /\ d.ret.at = i
BY DEF SaveThen, Call, Label

\* A call that goes on keeps its entry.
LEMMA GotoFacts ==
    ASSUME NEW c \in Call, NEW p \in Label, NEW i \in Nat
    PROVE  LET d == Goto(c, p, i) IN
           /\ d \in Call
           /\ d.op = c.op /\ d.known = c.known /\ d.entry = c.entry
           /\ d.pc = p /\ d.at = i
BY DEF Goto, Call, Label

\* A call that has read a target keeps its entry.
LEMMA SeesFacts ==
    ASSUME NEW c \in Call, NEW j \in DOMAIN c.entry.steps
    PROVE  LET d == Sees(c, j) IN
           /\ d \in Call
           /\ d.op = c.op /\ d.known = c.known /\ d.entry = c.entry
           /\ d.pc = c.pc /\ d.at = c.at
<1>1. j \in StepNo
  BY EntryPlan, PlanTypes DEF Call
<1> QED
  BY <1>1 DEF Sees, Call

\* A call that finishes keeps the steps of its entry.
LEMMA FinishFacts ==
    ASSUME NEW c \in Call, NEW es \in EntryStatus
    PROVE  LET d == Finish(c, es) IN
           /\ d \in Call
           /\ d.op = c.op /\ d.known = c.known
           /\ d.pc = "save" /\ d.ret.pc = "return" /\ d.ret.at = 1
           /\ d.entry.plan = c.entry.plan /\ d.entry.status = es
           /\ d.entry.steps = c.entry.steps
<1> DEFINE e == [c.entry EXCEPT !.status = es]
           b == [c EXCEPT !.entry = e]
<1>1. c.entry \in EntryOf(c.entry.plan) /\ c.entry.plan \in PlanId
  BY EntryPlan DEF Call
<1>2. e \in EntryOf(c.entry.plan)
  BY <1>1 DEF EntryOf
<1>3. e \in Entry
  BY <1>1, <1>2 DEF Entry
<1>4. e.plan = c.entry.plan /\ e.status = es /\ e.steps = c.entry.steps
  BY <1>1 DEF EntryOf
<1>5. b \in Call /\ b.op = c.op /\ b.known = c.known /\ b.entry = e
  BY <1>3 DEF Call
<1>6. Finish(c, es) = SaveThen(b, "return", 1)
  BY DEF Finish, SaveThen, Call
<1>7. "return" \in Label /\ 1 \in Nat
  BY DEF Label
<1> HIDE DEF b, e
<1>8. /\ SaveThen(b, "return", 1) \in Call
      /\ SaveThen(b, "return", 1).op = b.op
      /\ SaveThen(b, "return", 1).known = b.known
      /\ SaveThen(b, "return", 1).entry = b.entry
      /\ SaveThen(b, "return", 1).pc = "save"
      /\ SaveThen(b, "return", 1).ret.pc = "return"
      /\ SaveThen(b, "return", 1).ret.at = 1
  BY <1>5, <1>7, SaveThenFacts
<1> QED
  BY <1>4, <1>5, <1>6, <1>8


-----------------------------------------------------------------------------
(* Steps that touch nothing but one call.                                  *)

\* An idle runner has no call.
LEMMA NoCallDiffers == NoCall \notin Call /\ NoCall.pc = "idle"
BY DEF NoCall, Call, Label


\* A call that adds no attempt but the one it is about to save stays good.
LEMMA StillGood ==
    ASSUME NEW c \in Call, NEW d \in Call, TypeOK, Good(c, journal), c.pc # "save",
           d.op = c.op, d.known = c.known, d.entry.plan = c.entry.plan,
           \A j \in DOMAIN c.entry.steps :
              d.entry.steps[j].attempts =
                 c.entry.steps[j].attempts + (IF Pending(d, j) THEN 1 ELSE 0),
           Position(d), Evident(d.entry)
    PROVE  Good(d, journal)
<1>1. c.known > 0
  BY DEF Good, Based, Call
<1>2. DOMAIN d.entry.steps = DOMAIN c.entry.steps
  BY EntryPlan DEF Call
<1>3. ASSUME journal[c.op] # NoEntry, journal[c.op].plan = c.entry.plan
      PROVE  DOMAIN journal[c.op].steps = DOMAIN c.entry.steps
  BY <1>3, EntryPlan DEF TypeOK, Call
<1>4. ASSUME journal[c.op] # NoEntry, journal[c.op].plan = c.entry.plan,
             Agrees(c, journal[c.op])
      PROVE  Agrees(d, journal[c.op])
  <2> SUFFICES ASSUME NEW j \in DOMAIN journal[c.op].steps
               PROVE  d.entry.steps[j].attempts =
                        journal[c.op].steps[j].attempts + (IF Pending(d, j) THEN 1 ELSE 0)
    BY DEF Agrees
  <2>1. c.entry.steps[j].attempts = journal[c.op].steps[j].attempts + 0
    BY <1>4 DEF Agrees, Pending
  <2>2. journal[c.op].steps[j].attempts \in Nat
    BY <1>4, StepTypes DEF TypeOK, Call, StepState
  <2> QED
    BY <2>1, <2>2, <1>3, <1>4
<1> QED
  BY <1>1, <1>4 DEF Good, Based


\* What is left to show when one call changes and nothing else.
LEMMA LocalStep ==
    ASSUME IInv, NEW r \in Runner, NEW d, Becomes(r, d),
           UNCHANGED <<journal, ynab, late, history>>,
           calls' \in Nat, edits' \in Nat, faults' \in Nat,
           \/ d = NoCall
           \/ d \in Call /\ Good(d, journal) /\ d.pc # "write"
    PROVE  IInv'
<1>1. TypeOK'
  BY DEF IInv, TypeOK, Becomes, history
<1>2. EntriesEvident'
  BY DEF IInv, EntriesEvident, Exists
<1>3. CallsGood'
  <2>1. \A q \in Runner : call'[q] = IF q = r THEN d ELSE call[q]
    BY DEF IInv, TypeOK, Becomes
  <2> QED
    BY <2>1 DEF IInv, CallsGood
<1>4. \A q \in Runner : call'[q].pc = "write" => q # r /\ call'[q] = call[q]
  BY NoCallDiffers DEF IInv, TypeOK, Becomes
<1>5. IntentBeforeWrite'
  BY <1>4 DEF IInv, IntentBeforeWrite, Journaled, Exists, StepsOf, At, history
<1>6. OneRequestPerIntent'
  BY <1>4 DEF IInv, OneRequestPerIntent, At, history
<1>7. RequestsDiffer'
  BY <1>4 DEF IInv, RequestsDiffer, At, Requested
<1>8. (late \subseteq sent)'
  BY DEF IInv, history
<1> QED
  BY <1>1, <1>2, <1>3, <1>5, <1>6, <1>7, <1>8 DEF IInv

\* A runner that is not idle has a good call.
LEMMA Running ==
    ASSUME IInv, NEW r \in Runner, call[r].pc # "idle"
    PROVE  call[r] \in Call /\ Good(call[r], journal)
BY NoCallDiffers DEF IInv, TypeOK, CallsGood

\* Counting a fault keeps the counter a number.
LEMMA FaultType ==
    ASSUME TypeOK, Fault
    PROVE  faults' \in Nat
BY DEF TypeOK, Fault

\* A loop replaces step j of its copy and saves it.
LEMMA PutAndSave ==
    ASSUME TypeOK, NEW c \in Call, Good(c, journal), c.pc # "save",
           NEW j \in DOMAIN c.entry.steps, NEW b, b = c \/ b = Sees(c, j),
           NEW step \in StepState, NEW es \in EntryStatus,
           NEW p \in SavedLabel, NEW i \in Nat,
           p = "write" => i = j,
           step.attempts = Mine(c, j).attempts + (IF p = "write" THEN 1 ELSE 0),
           step.status = "applied" => step.verified,
           step.verified => step.attempts > 0 \/ NoChange(c, j),
           es = "completed" => step.status = "applied" /\ c.entry.status = "completed",
           p \in {"apply", "write"} => \A k \in DOMAIN c.entry.steps : k < i =>
              (IF k = j THEN step ELSE Mine(c, k)).status = "applied"
    PROVE  LET d == SaveThen(Put(b, j, step, es), p, i) IN
           d \in Call /\ Good(d, journal) /\ d.pc # "write"
<1> DEFINE x == Put(b, j, step, es)
           d == SaveThen(x, p, i)
<1>1. /\ b \in Call /\ b.op = c.op /\ b.known = c.known /\ b.entry = c.entry
      /\ b.pc = c.pc
  BY SeesFacts
<1>2. /\ x \in Call /\ x.op = c.op /\ x.known = c.known
      /\ x.entry.plan = c.entry.plan /\ x.entry.status = es
      /\ DOMAIN x.entry.steps = DOMAIN c.entry.steps
      /\ x.entry.steps[j] = step
      /\ \A k \in DOMAIN c.entry.steps : k # j =>
            x.entry.steps[k] = c.entry.steps[k]
  BY <1>1, PutFacts
<1>3. p \in Label
  BY DEF Label, SavedLabel
<1> HIDE DEF x
<1>4. /\ d \in Call /\ d.op = c.op /\ d.known = c.known /\ d.entry = x.entry
      /\ d.pc = "save" /\ d.ret.pc = p /\ d.ret.at = i
  BY <1>2, <1>3, SaveThenFacts
<1> HIDE DEF d
<1>5. \A k \in DOMAIN c.entry.steps : c.entry.steps[k] \in StepState
  BY StepTypes DEF Call
<1>6. \A k \in DOMAIN c.entry.steps :
        d.entry.steps[k].attempts =
           c.entry.steps[k].attempts + (IF Pending(d, k) THEN 1 ELSE 0)
  BY <1>2, <1>4, <1>5 DEF Pending, Mine, StepState
<1>7. Position(d)
  <2>1. p = "write" => step.attempts > 0
    BY <1>5 DEF Mine, StepState
  <2> QED
    BY <1>2, <1>4, <2>1 DEF Position, Placed, Mine, SavedLabel
<1>8. Evident(d.entry)
  BY <1>2, <1>4 DEF Evident, Good, Mine, NoChange, Here
<1>9. Good(d, journal)
  BY <1>2, <1>4, <1>6, <1>7, <1>8, StillGood
<1> QED
  BY <1>4, <1>9 DEF d, x

\* Finishing with a status is good, with "completed" if all steps are applied.
LEMMA FinishIsGood ==
    ASSUME TypeOK, NEW c \in Call, Good(c, journal), c.pc # "save",
           NEW es \in EntryStatus,
           es = "completed" => \A j \in DOMAIN c.entry.steps : Mine(c, j).status = "applied"
    PROVE  LET d == Finish(c, es) IN
           d \in Call /\ Good(d, journal) /\ d.pc # "write"
<1> DEFINE d == Finish(c, es)
<1>1. /\ d \in Call
      /\ d.op = c.op /\ d.known = c.known
      /\ d.pc = "save" /\ d.ret.pc = "return" /\ d.ret.at = 1
      /\ d.entry.plan = c.entry.plan /\ d.entry.status = es
      /\ d.entry.steps = c.entry.steps
  BY FinishFacts
<1> HIDE DEF d
<1>2. \A k \in DOMAIN c.entry.steps : c.entry.steps[k] \in StepState
  BY StepTypes DEF Call
<1>3. \A k \in DOMAIN c.entry.steps :
        d.entry.steps[k].attempts =
           c.entry.steps[k].attempts + (IF Pending(d, k) THEN 1 ELSE 0)
  BY <1>1, <1>2 DEF Pending, StepState
<1>4. Position(d)
  BY <1>1 DEF Position, Placed, SavedLabel
<1>5. Evident(d.entry)
  BY <1>1 DEF Evident, Good, Mine
<1>6. Good(d, journal)
  BY <1>1, <1>3, <1>4, <1>5, StillGood
<1> QED
  BY <1>1, <1>6 DEF d

\* Marking a step is good, as applied if it has been verified before.
LEMMA MarkIsGood ==
    ASSUME TypeOK, NEW c \in Call, Good(c, journal), c.pc # "save",
           NEW j \in DOMAIN c.entry.steps, NEW b, b = c \/ b = Sees(c, j),
           NEW st \in StepStatus, NEW es \in EntryStatus,
           NEW p \in {"verify", "return"}, NEW i \in Nat,
           st = "applied" => Mine(c, j).verified,
           es = "completed" => st = "applied" /\ c.entry.status = "completed"
    PROVE  LET d == SaveThen(Mark(b, j, st, es), p, i) IN
           d \in Call /\ Good(d, journal) /\ d.pc # "write"
<1> DEFINE s == [Mine(c, j) EXCEPT !.status = st]
<1>1. Mine(c, j) \in StepState
  BY StepTypes DEF Call, Mine
<1>2. /\ s \in StepState /\ s.attempts = Mine(c, j).attempts + 0
      /\ s.status = st /\ s.verified = Mine(c, j).verified
  BY <1>1 DEF StepState
<1>3. s.verified => s.attempts > 0 \/ NoChange(c, j)
  BY <1>1, <1>2 DEF Good, Evident, Mine, NoChange, Here, StepState
<1>4. Mine(b, j) = Mine(c, j)
  BY SeesFacts DEF Mine
<1>5. p \in SavedLabel /\ p # "write" /\ p \notin {"apply", "write"}
  BY DEF SavedLabel
<1> HIDE DEF s
<1>6. LET d == SaveThen(Put(b, j, s, es), p, i) IN
      d \in Call /\ Good(d, journal) /\ d.pc # "write"
  BY <1>2, <1>3, <1>5, PutAndSave
<1> QED
  BY <1>4, <1>6 DEF Mark, s

\* Recording a verified step is good if it was attempted or changes nothing.
LEMMA AppliedIsGood ==
    ASSUME TypeOK, NEW c \in Call, Good(c, journal), c.pc # "save",
           NEW j \in DOMAIN c.entry.steps, NEW b, b = c \/ b = Sees(c, j),
           NEW es \in EntryStatus, es = "completed" => c.entry.status = "completed",
           NEW p \in {"check", "apply"},
           Mine(c, j).attempts > 0 \/ NoChange(c, j),
           p = "apply" => \A k \in DOMAIN c.entry.steps :
                             k < j => Mine(c, k).status = "applied"
    PROVE  LET d == SaveThen(Applied(b, j, es), p, j + 1) IN
           d \in Call /\ Good(d, journal) /\ d.pc # "write"
<1> DEFINE s == [status |-> "applied", attempts |-> Mine(c, j).attempts,
                 verified |-> TRUE]
<1>1. Mine(c, j) \in StepState
  BY StepTypes DEF Call, Mine
<1>2. /\ s \in StepState /\ s.attempts = Mine(c, j).attempts + 0
      /\ s.status = "applied" /\ s.verified
  <2>1. "applied" \in StepStatus
    BY DEF StepStatus
  <2> QED
    BY <1>1, <2>1 DEF StepState
<1>3. s.attempts > 0 \/ NoChange(c, j)
  BY <1>1, <1>2 DEF StepState
<1>4. Mine(b, j) = Mine(c, j)
  BY SeesFacts DEF Mine
<1>5. p \in SavedLabel /\ p # "write"
  BY DEF SavedLabel
<1>6. \A k \in DOMAIN c.entry.steps : k \in Nat
  BY EntryPlan, PlanTypes DEF Call
<1> HIDE DEF s
<1>7. p \in {"apply", "write"} => \A k \in DOMAIN c.entry.steps : k < j + 1 =>
         (IF k = j THEN s ELSE Mine(c, k)).status = "applied"
  BY <1>2, <1>5, <1>6
<1>8. j + 1 \in Nat
  BY <1>6
<1>9. LET d == SaveThen(Put(b, j, s, es), p, j + 1) IN
      d \in Call /\ Good(d, journal) /\ d.pc # "write"
  BY <1>2, <1>3, <1>5, <1>7, <1>8, PutAndSave
<1> QED
  BY <1>4, <1>9 DEF Applied, s

\* Recording an intent is good at the first step that is not applied.
LEMMA IntentIsGood ==
    ASSUME TypeOK, NEW c \in Call, Good(c, journal), c.pc # "save",
           NEW j \in DOMAIN c.entry.steps, Mine(c, j).status # "applied",
           \A k \in DOMAIN c.entry.steps : k < j => Mine(c, k).status = "applied"
    PROVE  LET d == SaveThen(Intent(Sees(c, j), j), "write", j) IN
           d \in Call /\ Good(d, journal) /\ d.pc # "write"
<1> DEFINE s == [status |-> "intent", attempts |-> Mine(c, j).attempts + 1,
                 verified |-> Mine(c, j).verified]
           b == Sees(c, j)
<1>1. Mine(c, j) \in StepState
  BY StepTypes DEF Call, Mine
<1>2. /\ s \in StepState /\ s.attempts = Mine(c, j).attempts + 1
      /\ s.status = "intent"
  <2>1. "intent" \in StepStatus
    BY DEF StepStatus
  <2> QED
    BY <1>1, <2>1 DEF StepState
<1>3. s.attempts > 0
  BY <1>1, <1>2 DEF StepState
<1>4. Mine(b, j) = Mine(c, j)
  BY SeesFacts DEF Mine
<1>5. "write" \in SavedLabel /\ "running" \in EntryStatus
  BY DEF SavedLabel, EntryStatus
<1>6. \A k \in DOMAIN c.entry.steps : k \in Nat
  BY EntryPlan, PlanTypes DEF Call
<1> HIDE DEF s
<1>7. \A k \in DOMAIN c.entry.steps : k < j =>
         (IF k = j THEN s ELSE Mine(c, k)).status = "applied"
  BY <1>6
<1>9. LET d == SaveThen(Put(b, j, s, "running"), "write", j) IN
      d \in Call /\ Good(d, journal) /\ d.pc # "write"
  BY <1>2, <1>3, <1>5, <1>6, <1>7, PutAndSave
<1> QED
  BY <1>4, <1>9 DEF Intent, s, b

\* A loop goes on without a save.
LEMMA GotoIsGood ==
    ASSUME TypeOK, NEW c \in Call, Good(c, journal), c.pc # "save",
           NEW b, b = c \/ \E j \in DOMAIN c.entry.steps : b = Sees(c, j),
           NEW p \in {"verify", "check", "apply"}, NEW i \in Nat,
           p = "apply" => i = 1
    PROVE  LET d == Goto(b, p, i) IN
           d \in Call /\ Good(d, journal) /\ d.pc # "write"
<1> DEFINE d == Goto(b, p, i)
<1>1. b \in Call /\ b.op = c.op /\ b.known = c.known /\ b.entry = c.entry
  BY SeesFacts
<1>2. p \in Label
  BY DEF Label
<1>3. /\ d \in Call /\ d.op = c.op /\ d.known = c.known /\ d.entry = c.entry
      /\ d.pc = p /\ d.at = i
  BY <1>1, <1>2, GotoFacts
<1> HIDE DEF d
<1>4. \A k \in DOMAIN c.entry.steps : k \in Nat \ {0} /\ c.entry.steps[k] \in StepState
  BY EntryPlan, StepTypes, PlanAssumption DEF Call
<1>5. Position(d)
  BY <1>3, <1>4 DEF Position, Placed
<1>6. Good(d, journal)
  BY <1>3, <1>4, <1>5, StillGood DEF Good, Pending, StepState
<1> QED
  BY <1>3, <1>6 DEF d


-----------------------------------------------------------------------------
(* Every action keeps the invariant.                                       *)

\* A call that opens an unfinished entry is good.
LEMMA OpenedIsGood ==
    ASSUME IInv, NEW o \in OpId, journal[o] # NoEntry,
           journal[o].status # "completed"
    PROVE  LET d == Opened(o, journal[o]) IN
           d \in Call /\ Good(d, journal) /\ d.pc = "verify"
<1> DEFINE d == Opened(o, journal[o])
<1>1. journal[o] \in Entry
  BY DEF IInv, TypeOK
<1>2. journal[o].revision \in Nat /\ journal[o].revision > 0 /\ Evident(journal[o])
  BY <1>1, EntryPlan DEF IInv, EntriesEvident, Exists, EntryOf
<1>3. d \in Call
  BY <1>1, <1>2 DEF Opened, Call, Label
<1>4. \A j \in DOMAIN journal[o].steps : journal[o].steps[j].attempts \in Nat
  BY <1>1, StepTypes DEF StepState
<1>5. Good(d, journal)
  BY <1>2, <1>4, <1>1, EntryPlan
  DEF Opened, Good, Position, Placed, Based, Agrees, Pending, EntryOf
<1> QED
  BY <1>3, <1>5 DEF Opened

\* Starting an operation keeps the invariant.
LEMMA RunNewKeeps ==
    ASSUME IInv, NEW r \in Runner, NEW o \in OpId, NEW p \in PlanId, RunNew(r, o, p)
    PROVE  IInv'
<1> DEFINE e == NewEntry(r, p)
           d == SaveThen(Opened(o, e), "verify", 1)
<1>1. TenantOf[r] \in Tenant
  BY PlanAssumption
<1>2. e \in EntryOf(p) /\ e.plan = p
  BY <1>1 DEF NewEntry, EntryOf, EntryStatus, StepState, StepStatus
<1>3. e \in Entry
  BY <1>2 DEF Entry
<1>4. e.revision = 0
  BY DEF NewEntry
<1>5. Evident(e)
  BY <1>2 DEF NewEntry, Evident
<1> HIDE DEF e
<1>6. Opened(o, e) \in Call /\ Opened(o, e).entry = e /\ Opened(o, e).known = 0
  BY <1>3, <1>4 DEF Opened, Call, Label
<1>7. /\ d \in Call /\ d.known = 0 /\ d.entry = e /\ d.pc = "save"
      /\ d.ret.pc = "verify"
  <2>1. "verify" \in Label /\ 1 \in Nat
    BY DEF Label
  <2> QED
    BY <1>6, <2>1, SaveThenFacts
<1> HIDE DEF d
<1>8. Good(d, journal)
  BY <1>5, <1>7 DEF Good, Position, Placed, Based, SavedLabel
<1>9. Becomes(r, d)
  BY DEF RunNew, Opens, d, e
<1> QED
  BY <1>7, <1>8, <1>9, LocalStep DEF RunNew, Opens, IInv, TypeOK, history

\* Calling run again for an operation keeps the invariant.
LEMMA RunAgainKeeps ==
    ASSUME IInv, NEW r \in Runner, NEW o \in OpId, NEW p \in PlanId, RunAgain(r, o, p)
    PROVE  IInv'
<1> DEFINE d == Opened(o, journal[o])
<1>1. d \in Call /\ Good(d, journal) /\ d.pc = "verify"
  BY OpenedIsGood DEF RunAgain, InScope
<1>2. Becomes(r, d)
  BY DEF RunAgain, Opens
<1> HIDE DEF d
<1> QED
  BY <1>1, <1>2, LocalStep DEF RunAgain, Opens, IInv, TypeOK, history

\* Resuming an operation, from another session too, keeps the invariant.
LEMMA ResumeKeeps ==
    ASSUME IInv, NEW r \in Runner, NEW o \in OpId, Resume(r, o)
    PROVE  IInv'
<1> DEFINE c == Opened(o, journal[o])
           e == [c.entry EXCEPT !.rebound = @ \cup {r}]
           x == [c EXCEPT !.entry = e]
           d == SaveThen(x, "verify", 1)
<1>1. c \in Call /\ Good(c, journal) /\ c.pc = "verify"
  BY OpenedIsGood DEF Resume, InScope
<1>2. \/ Becomes(r, c)
      \/ Becomes(r, SaveThen([c EXCEPT !.entry.rebound = @ \cup {r}], "verify", 1))
  BY DEF Resume, Opens
<1> HIDE DEF c
<1>3. [c EXCEPT !.entry.rebound = @ \cup {r}] = x
  BY <1>1 DEF Call
<1>4. e \in EntryOf(c.entry.plan) /\ c.entry.plan \in PlanId
  BY <1>1, EntryPlan DEF EntryOf, Call
<1>5. e \in Entry
  BY <1>4 DEF Entry
<1>6. e.plan = c.entry.plan /\ e.steps = c.entry.steps /\ e.status = c.entry.status
  BY <1>1, EntryPlan DEF EntryOf, Call
<1> HIDE DEF e
<1>7. x \in Call /\ x.op = c.op /\ x.known = c.known /\ x.entry = e
  BY <1>1, <1>5 DEF Call
<1> HIDE DEF x
<1>8. /\ d \in Call /\ d.op = c.op /\ d.known = c.known /\ d.entry = e
      /\ d.pc = "save" /\ d.ret.pc = "verify" /\ d.ret.at = 1
  <2>1. "verify" \in Label /\ 1 \in Nat
    BY DEF Label
  <2> QED
    BY <1>7, <2>1, SaveThenFacts
<1>9. Becomes(r, c) \/ Becomes(r, d)
  BY <1>2, <1>3
<1> HIDE DEF d
<1>10. Good(d, journal)
  <2>1. \A k \in DOMAIN c.entry.steps : c.entry.steps[k].attempts \in Nat
    BY <1>1, StepTypes DEF Call, StepState
  <2>2. Position(d) /\ Evident(d.entry)
    BY <1>1, <1>6, <1>8 DEF Position, Placed, SavedLabel, Evident, Good
  <2> QED
    BY <1>1, <1>6, <1>8, <2>1, <2>2, StillGood DEF Pending, IInv
<1>11. calls' \in Nat /\ edits' \in Nat /\ faults' \in Nat
  BY DEF Resume, Opens, IInv, TypeOK
<1> QED
  BY <1>1, <1>8, <1>9, <1>10, <1>11, LocalStep DEF Resume, Opens

\* A call that ends, or dies, keeps the invariant.
LEMMA ReturnKeeps ==
    ASSUME IInv, NEW r \in Runner,
           Return(r) \/ SaveConflict(r) \/ Crash(r)
    PROVE  IInv'
BY LocalStep, FaultType DEF Return, SaveConflict, Crash, bounds, IInv, TypeOK

\* What a loop leaves unchanged.
LEMMA LoopKeeps ==
    ASSUME IInv, NEW r \in Runner, NEW d \in Call, Good(d, journal), d.pc # "write",
           Succeeds(r, d) \/ ReadFails(r, d)
    PROVE  IInv'
<1>1. calls' \in Nat /\ edits' \in Nat /\ faults' \in Nat
  BY FaultType DEF Succeeds, ReadFails, Loop, IInv, TypeOK
<1> QED
  BY <1>1, LocalStep DEF Succeeds, ReadFails, Loop

\* Stopping at a step that is neither applied nor completed is good.
LEMMA StopIsGood ==
    ASSUME TypeOK, NEW c \in Call, Good(c, journal), c.pc # "save",
           NEW j \in DOMAIN c.entry.steps, NEW st \in StepStatus, NEW es \in EntryStatus,
           st # "applied", es # "completed"
    PROVE  LET d == StopAt(c, j, st, es) IN
           d \in Call /\ Good(d, journal) /\ d.pc # "write"
<1>1. "return" \in {"verify", "return"} /\ 1 \in Nat
  OBVIOUS
<1>2. LET d == SaveThen(Mark(c, j, st, es), "return", 1) IN
      d \in Call /\ Good(d, journal) /\ d.pc # "write"
  BY <1>1, MarkIsGood
<1> QED
  BY <1>2 DEF StopAt

\* A step of the verify loop keeps the invariant.
LEMMA VerifyStepKeeps ==
    ASSUME IInv, NEW r \in Runner, NEW j \in StepNo, VerifyStep(r, j)
    PROVE  IInv'
<1> DEFINE c == call[r]
<1>1. c \in Call /\ Good(c, journal) /\ c.pc = "verify" /\ TypeOK
  BY Running DEF VerifyStep, At, IInv
<1>2. j \in DOMAIN c.entry.steps /\ c.entry.steps[j] \in StepState /\ j \in Nat
  BY <1>1, StepTypes, EntryPlan, PlanTypes
  DEF VerifyStep, IsFirst, ToVerify, Ahead, Call
<1>3. \/ ReadFails(r, Unavailable(c))
      \/ Succeeds(r, StopAt(c, j, "conflict", "conflict"))
      \/ Succeeds(r, Goto(Sees(c, j), "verify", j + 1))
      \/ /\ Mine(c, j).verified
         /\ Succeeds(r, SaveThen(Mark(Sees(c, j), j, "applied", c.entry.status),
                                 "verify", j + 1))
  BY DEF VerifyStep, IsFirst, ToVerify
<1> HIDE DEF c
<1>4. Evident(c.entry) /\ c.entry.status \in EntryStatus
  BY <1>1, EntryPlan DEF Good, Call, EntryOf
<1>5. CASE ReadFails(r, Unavailable(c))
  BY <1>1, <1>5, FinishIsGood, LoopKeeps DEF Unavailable, EntryStatus
<1>6. CASE Succeeds(r, StopAt(c, j, "conflict", "conflict"))
  BY <1>1, <1>2, <1>6, StopIsGood, LoopKeeps DEF StepStatus, EntryStatus
<1>7. CASE Succeeds(r, Goto(Sees(c, j), "verify", j + 1))
  BY <1>1, <1>2, <1>7, GotoIsGood, LoopKeeps
<1>8. CASE /\ Mine(c, j).verified
           /\ Succeeds(r, SaveThen(Mark(Sees(c, j), j, "applied", c.entry.status),
                                   "verify", j + 1))
  <2>1. "applied" \in StepStatus /\ j + 1 \in Nat
    BY <1>2 DEF StepStatus
  <2>2. LET d == SaveThen(Mark(Sees(c, j), j, "applied", c.entry.status), "verify", j + 1)
        IN  d \in Call /\ Good(d, journal) /\ d.pc # "write"
    BY <1>1, <1>2, <1>4, <1>8, <2>1, MarkIsGood
  <2> QED
    BY <1>8, <2>2, LoopKeeps
<1> QED
  BY <1>3, <1>5, <1>6, <1>7, <1>8


\* Going from one loop to the next keeps the invariant.
LEMMA DoneKeeps ==
    ASSUME IInv, NEW r \in Runner, VerifyDone(r) \/ CheckDone(r)
    PROVE  IInv'
<1> DEFINE c == call[r]
<1>1. c \in Call /\ Good(c, journal) /\ c.pc \in {"verify", "check"} /\ TypeOK
  BY Running DEF VerifyDone, CheckDone, At, IInv
<1>2. Succeeds(r, Goto(c, "check", 1)) \/ Succeeds(r, Goto(c, "apply", 1))
  BY DEF VerifyDone, CheckDone
<1> HIDE DEF c
<1>3. c.pc # "save"
  BY <1>1
<1>4. ASSUME NEW p \in {"verify", "check", "apply"}
      PROVE  LET d == Goto(c, p, 1) IN
             d \in Call /\ Good(d, journal) /\ d.pc # "write"
  BY <1>1, <1>3, GotoIsGood
<1> QED
  BY <1>2, <1>4, LoopKeeps

\* What the check and the apply loop have established when they reach step j.
LEMMA AtStep ==
    ASSUME IInv, NEW r \in Runner, NEW j \in StepNo,
           At(r, "check") \/ At(r, "apply"), IsFirst(j, ToApply(call[r]))
    PROVE  /\ call[r] \in Call /\ Good(call[r], journal) /\ TypeOK
           /\ call[r].pc # "save"
           /\ j \in DOMAIN call[r].entry.steps /\ j \in Nat
           /\ Mine(call[r], j).status # "applied"
           /\ At(r, "apply") => \A k \in DOMAIN call[r].entry.steps :
                 k < j => Mine(call[r], k).status = "applied"
<1>1. call[r] \in Call /\ Good(call[r], journal) /\ TypeOK
  BY Running DEF At, IInv
<1>2. call[r].at \in Nat /\ \A k \in DOMAIN call[r].entry.steps : k \in Nat
  BY <1>1, EntryPlan, PlanTypes DEF Call
<1>3. j \in ToApply(call[r]) /\ \A k \in ToApply(call[r]) : j <= k
  BY DEF IsFirst
<1>4. /\ j \in DOMAIN call[r].entry.steps /\ call[r].at <= j
      /\ Mine(call[r], j).status # "applied"
  BY <1>3 DEF ToApply, Ahead
<1>5. call[r].pc # "save"
  BY DEF At
<1>6. ASSUME At(r, "apply"), NEW k \in DOMAIN call[r].entry.steps, k < j
      PROVE  Mine(call[r], k).status = "applied"
  <2>1. CASE k < call[r].at
    BY <1>1, <1>6, <2>1 DEF Good, Position, Placed, Mine, At
  <2>2. CASE ~(k < call[r].at)
    <3>1. call[r].at <= k /\ ~(j <= k)
      BY <1>2, <1>4, <1>6, <2>2
    <3> QED
      BY <1>3, <1>6, <3>1 DEF ToApply, Ahead
  <2> QED
    BY <2>1, <2>2
<1> QED
  BY <1>1, <1>2, <1>4, <1>5, <1>6

\* Recognising a target that is not in its before-state keeps the invariant.
LEMMA RecogniseKeeps ==
    ASSUME IInv, NEW r \in Runner, NEW j \in StepNo, NEW loop \in {"check", "apply"},
           At(r, loop), IsFirst(j, ToApply(call[r])), Recognise(r, j, loop)
    PROVE  IInv'
<1> DEFINE c == call[r]
<1>1. /\ c \in Call /\ Good(c, journal) /\ TypeOK /\ c.pc # "save"
      /\ j \in DOMAIN c.entry.steps /\ j \in Nat
      /\ loop = "apply" => \A k \in DOMAIN c.entry.steps :
            k < j => Mine(c, k).status = "applied"
  BY AtStep
<1>2. \/ /\ Reached(c, j)
         /\ Succeeds(r, SaveThen(Applied(Sees(c, j), j, "running"), loop, j + 1))
      \/ Succeeds(r, StopAt(c, j, "conflict", "conflict"))
  BY DEF Recognise
<1> HIDE DEF c
<1>3. CASE /\ Reached(c, j)
           /\ Succeeds(r, SaveThen(Applied(Sees(c, j), j, "running"), loop, j + 1))
  <2>1. "running" \in EntryStatus /\ "running" # "completed"
    BY DEF EntryStatus
  <2>2. Mine(c, j).attempts > 0 \/ NoChange(c, j)
    BY <1>3 DEF Reached
  <2>3. LET d == SaveThen(Applied(Sees(c, j), j, "running"), loop, j + 1) IN
        d \in Call /\ Good(d, journal) /\ d.pc # "write"
    BY <1>1, <2>1, <2>2, AppliedIsGood
  <2> QED
    BY <1>3, <2>3, LoopKeeps
<1>4. CASE Succeeds(r, StopAt(c, j, "conflict", "conflict"))
  BY <1>1, <1>4, StopIsGood, LoopKeeps DEF StepStatus, EntryStatus
<1> QED
  BY <1>2, <1>3, <1>4

\* A step of the check loop keeps the invariant.
LEMMA CheckStepKeeps ==
    ASSUME IInv, NEW r \in Runner, NEW j \in StepNo, CheckStep(r, j)
    PROVE  IInv'
<1> DEFINE c == call[r]
<1>1. At(r, "check") /\ IsFirst(j, ToApply(c))
  BY DEF CheckStep
<1>2. /\ c \in Call /\ Good(c, journal) /\ TypeOK /\ c.pc # "save"
      /\ j \in DOMAIN c.entry.steps /\ j \in Nat
  BY <1>1, AtStep
<1>3. \/ ReadFails(r, Unavailable(c))
      \/ Recognise(r, j, "check")
      \/ Succeeds(r, Goto(Sees(c, j), "check", j + 1))
  BY DEF CheckStep
<1>4. CASE ReadFails(r, Unavailable(c))
  <2> HIDE DEF c
  <2> QED
    BY <1>2, <1>4, FinishIsGood, LoopKeeps DEF Unavailable, EntryStatus
<1>5. CASE Recognise(r, j, "check")
  BY <1>1, <1>5, RecogniseKeeps
<1>6. CASE Succeeds(r, Goto(Sees(c, j), "check", j + 1))
  <2> HIDE DEF c
  <2> QED
    BY <1>2, <1>6, GotoIsGood, LoopKeeps
<1> QED
  BY <1>3, <1>4, <1>5, <1>6

\* A step of the apply loop, which asks for the intent to be saved, keeps it.
LEMMA ApplyStepKeeps ==
    ASSUME IInv, NEW r \in Runner, NEW j \in StepNo, ApplyStep(r, j)
    PROVE  IInv'
<1> DEFINE c == call[r]
<1>1. At(r, "apply") /\ IsFirst(j, ToApply(c))
  BY DEF ApplyStep
<1>2. /\ c \in Call /\ Good(c, journal) /\ TypeOK /\ c.pc # "save"
      /\ j \in DOMAIN c.entry.steps /\ j \in Nat
      /\ Mine(c, j).status # "applied"
      /\ \A k \in DOMAIN c.entry.steps : k < j => Mine(c, k).status = "applied"
  BY <1>1, AtStep
<1>3. \/ ReadFails(r, Unavailable(c))
      \/ Recognise(r, j, "apply")
      \/ Succeeds(r, SaveThen(Intent(Sees(c, j), j), "write", j))
  BY DEF ApplyStep
<1>4. CASE ReadFails(r, Unavailable(c))
  <2> HIDE DEF c
  <2> QED
    BY <1>2, <1>4, FinishIsGood, LoopKeeps DEF Unavailable, EntryStatus
<1>5. CASE Recognise(r, j, "apply")
  BY <1>1, <1>5, RecogniseKeeps
<1>6. CASE Succeeds(r, SaveThen(Intent(Sees(c, j), j), "write", j))
  <2> HIDE DEF c
  <2> QED
    BY <1>2, <1>6, IntentIsGood, LoopKeeps
<1> QED
  BY <1>3, <1>4, <1>5, <1>6

\* Completing the operation keeps the invariant.
LEMMA ApplyDoneKeeps ==
    ASSUME IInv, NEW r \in Runner, ApplyDone(r)
    PROVE  IInv'
<1> DEFINE c == call[r]
<1>1. c \in Call /\ Good(c, journal) /\ c.pc = "apply" /\ TypeOK
  BY Running DEF ApplyDone, At, IInv
<1>2. ToApply(c) = {} /\ Succeeds(r, Finish(c, "completed"))
  BY DEF ApplyDone
<1> HIDE DEF c
<1>3. c.at \in Nat /\ \A k \in DOMAIN c.entry.steps : k \in Nat
  BY <1>1, EntryPlan, PlanTypes DEF Call
<1>4. \A k \in DOMAIN c.entry.steps : Mine(c, k).status = "applied"
  BY <1>1, <1>2, <1>3 DEF ToApply, Ahead, Mine, Good, Position, Placed
<1>5. LET d == Finish(c, "completed") IN d \in Call /\ Good(d, journal) /\ d.pc # "write"
  BY <1>1, <1>4, FinishIsGood DEF EntryStatus
<1> QED
  BY <1>2, <1>5, LoopKeeps

\* The read after a write keeps the invariant.
LEMMA ReadBackKeeps ==
    ASSUME IInv, NEW r \in Runner, ReadBack(r)
    PROVE  IInv'
<1> DEFINE c == call[r]
           j == c.at
<1>1. c \in Call /\ Good(c, journal) /\ c.pc = "readback" /\ TypeOK
  BY Running DEF ReadBack, At, IInv
<1>2. \/ \E st \in StepStatus, es \in EntryStatus :
            /\ st # "applied" /\ es # "completed"
            /\ Succeeds(r, StopAt(c, j, st, es)) \/ ReadFails(r, StopAt(c, j, st, es))
      \/ Succeeds(r, SaveThen(Applied(c, j, c.entry.status), "apply", j + 1))
  BY DEF ReadBack, StepStatus, EntryStatus
<1> HIDE DEF c
<1>3. /\ j \in DOMAIN c.entry.steps
      /\ Mine(c, j).attempts > 0
      /\ \A k \in DOMAIN c.entry.steps : k < j => Mine(c, k).status = "applied"
  BY <1>1 DEF Good, Position, Placed, Mine
<1>4. c.entry.status \in EntryStatus
  BY <1>1, EntryPlan DEF Call, EntryOf
<1> HIDE DEF j
<1>5. ASSUME NEW st \in StepStatus, NEW es \in EntryStatus,
             st # "applied", es # "completed",
             Succeeds(r, StopAt(c, j, st, es)) \/ ReadFails(r, StopAt(c, j, st, es))
      PROVE  IInv'
  BY <1>1, <1>3, <1>5, StopIsGood, LoopKeeps
<1>6. CASE Succeeds(r, SaveThen(Applied(c, j, c.entry.status), "apply", j + 1))
  <2>1. LET d == SaveThen(Applied(c, j, c.entry.status), "apply", j + 1) IN
        d \in Call /\ Good(d, journal) /\ d.pc # "write"
    BY <1>1, <1>3, <1>4, AppliedIsGood
  <2> QED
    BY <1>6, <2>1, LoopKeeps
<1> QED
  BY <1>2, <1>5, <1>6


\* A save keeps what other calls rely on: it only adds attempts, and it moves
\* the entry past the revision they know.
LEMMA PersistFacts ==
    ASSUME IInv, NEW r \in Runner, At(r, "save"), RevisionMatches(call[r]),
           Persist(call[r])
    PROVE  LET c == call[r]
               e == NextEntry(c) IN
           /\ e \in Entry /\ e.revision = c.known + 1 /\ e.plan = c.entry.plan
           /\ e.steps = c.entry.steps /\ Evident(e)
           /\ journal' \in [OpId -> Entry \cup {NoEntry}]
           /\ journal'[c.op] = e
           /\ \A o \in OpId \ {c.op} : journal'[o] = journal[o]
           /\ EntriesEvident'
           /\ \A q \in Runner : q # r /\ call[q] # NoCall => Good(call[q], journal')
           /\ \A w \in Request : Journaled(w) => Journaled(w)'
           /\ \A w \in Request :
                 /\ w.op = c.op /\ Journaled(w)
                 /\ c.ret.pc = "write" /\ w.at = c.ret.at
                 => w.attempt < e.steps[w.at].attempts
<1> DEFINE c == call[r]
           e == NextEntry(c)
           J == journal'
<1>1. c \in Call /\ Good(c, journal) /\ c.pc = "save" /\ TypeOK
  BY Running DEF At, IInv
<1>2. journal' = [journal EXCEPT ![c.op] = e] /\ RevisionMatches(c)
  BY DEF Persist
<1>3. /\ \A q \in Runner : call[q] # NoCall =>
            call[q] \in Call /\ Good(call[q], journal)
      /\ EntriesEvident
  BY DEF IInv, TypeOK, CallsGood
<1> HIDE DEF c
<1>4. c.entry \in EntryOf(c.entry.plan) /\ c.entry.plan \in PlanId /\ c.known \in Nat
      /\ c.op \in OpId
  BY <1>1, EntryPlan DEF Call
<1>5. e \in EntryOf(c.entry.plan) /\ e.revision = c.known + 1 /\ e.plan = c.entry.plan
      /\ e.steps = c.entry.steps /\ e.status = c.entry.status
  BY <1>4 DEF NextEntry, EntryOf
<1>6. e \in Entry /\ Evident(e)
  BY <1>1, <1>4, <1>5 DEF Entry, Good, Evident
<1> HIDE DEF e
<1>7. /\ J \in [OpId -> Entry \cup {NoEntry}]
      /\ J[c.op] = e
      /\ \A o \in OpId \ {c.op} : J[o] = journal[o]
  BY <1>1, <1>2, <1>4, <1>6 DEF TypeOK
<1>8. EntriesEvident'
  BY <1>3, <1>4, <1>5, <1>6, <1>7 DEF EntriesEvident, Exists
<1>9. /\ c.known = 0 => journal[c.op] = NoEntry
      /\ c.known > 0 =>
            /\ journal[c.op] # NoEntry /\ journal[c.op].revision = c.known
            /\ journal[c.op].plan = c.entry.plan
            /\ Agrees(c, journal[c.op])
  BY <1>1, <1>2 DEF RevisionMatches, Good, Based
<1>10. ASSUME NEW q \in Runner, q # r, call[q] # NoCall
       PROVE  Good(call[q], J)
  <2>1. call[q] \in Call /\ Good(call[q], journal) /\ call[q].known \in Nat
        /\ call[q].op \in OpId
    BY <1>3, <1>10 DEF Call
  <2>2. CASE call[q].op # c.op
    BY <1>7, <2>1, <2>2 DEF Good, Based
  <2>3. CASE call[q].op = c.op /\ call[q].known > 0
    <3>1. /\ journal[c.op] # NoEntry /\ journal[c.op].revision >= call[q].known
          /\ journal[c.op].plan = call[q].entry.plan
      BY <2>1, <2>3 DEF Good, Based
    <3>2. c.known > 0 /\ e.plan = call[q].entry.plan /\ e.revision > call[q].known
      BY <1>4, <1>5, <1>9, <2>1, <3>1
    <3>3. e # NoEntry
      BY <1>6, EntryPlan
    <3> QED
      BY <1>4, <1>5, <1>7, <2>1, <2>3, <3>2, <3>3 DEF Good, Based
  <2>4. CASE call[q].op = c.op /\ call[q].known = 0
    BY <2>1, <2>4 DEF Good, Based
  <2> QED
    BY <2>1, <2>2, <2>3, <2>4
<1>11. ASSUME NEW j \in DOMAIN c.entry.steps, c.known > 0
       PROVE  /\ journal[c.op].steps[j].attempts \in Nat
              /\ DOMAIN journal[c.op].steps = DOMAIN c.entry.steps
              /\ e.steps[j].attempts = journal[c.op].steps[j].attempts +
                    (IF c.ret.pc = "write" /\ c.ret.at = j THEN 1 ELSE 0)
  <2>1. journal[c.op] \in Entry /\ journal[c.op].plan = c.entry.plan
    BY <1>1, <1>4, <1>9, <1>11 DEF TypeOK
  <2>2. DOMAIN journal[c.op].steps = DOMAIN c.entry.steps
    BY <1>1, <2>1, EntryPlan DEF Call
  <2>3. journal[c.op].steps[j].attempts \in Nat
    BY <2>1, <2>2, StepTypes DEF StepState
  <2> QED
    BY <1>1, <1>5, <1>9, <1>11, <2>2, <2>3 DEF Agrees, Pending
<1>12. ASSUME NEW w \in Request, w.op = c.op, Journaled(w)
       PROVE  /\ c.known > 0 /\ w.plan = c.entry.plan
              /\ w.at \in DOMAIN c.entry.steps
              /\ w.attempt \in Nat
              /\ w.attempt <= journal[c.op].steps[w.at].attempts
  <2>1. /\ c.known > 0 /\ w.plan = c.entry.plan
        /\ w.at \in DOMAIN journal[c.op].steps
        /\ w.attempt <= journal[c.op].steps[w.at].attempts
    BY <1>4, <1>9, <1>12 DEF Journaled, Exists, StepsOf
  <2>2. journal[c.op] \in Entry /\ journal[c.op].plan = c.entry.plan
    BY <1>1, <1>4, <1>9, <2>1 DEF TypeOK
  <2>3. DOMAIN journal[c.op].steps = DOMAIN c.entry.steps
    BY <1>1, <2>2, EntryPlan DEF Call
  <2>4. w.attempt \in Nat
    BY DEF Request
  <2> QED
    BY <2>1, <2>3, <2>4
<1>13. ASSUME NEW w \in Request, Journaled(w)
       PROVE  Journaled(w)'
  <2>1. w.op \in OpId
    BY DEF Request
  <2>2. CASE w.op # c.op
    BY <1>7, <1>13, <2>1, <2>2 DEF Journaled, Exists, StepsOf
  <2>3. CASE w.op = c.op
    <3>1. w.attempt <= e.steps[w.at].attempts
      BY <1>11, <1>12, <1>13, <2>3
    <3>2. e # NoEntry
      BY <1>6, EntryPlan
    <3> QED
      BY <1>5, <1>7, <1>12, <1>13, <2>3, <3>1, <3>2 DEF Journaled, Exists, StepsOf
  <2> QED
    BY <2>2, <2>3
<1>14. ASSUME NEW w \in Request, w.op = c.op, Journaled(w),
              c.ret.pc = "write", w.at = c.ret.at
       PROVE  w.attempt < e.steps[w.at].attempts
  BY <1>11, <1>12, <1>14
<1> QED
  BY <1>5, <1>6, <1>7, <1>8, <1>10, <1>13, <1>14 DEF c, e

\* What a call is about to send is a request.
LEMMA RequestTyped ==
    ASSUME TypeOK, NEW c \in Call, Good(c, journal), c.pc = "write"
    PROVE  RequestOf(c, c.at) \in Request
<1>1. c.at \in DOMAIN c.entry.steps
  BY DEF Good, Position, Placed
<1>2. c.entry.plan \in PlanId /\ c.at \in DOMAIN Plan[c.entry.plan] /\ c.op \in OpId
  BY <1>1, EntryPlan DEF Call
<1>3. Mine(c, c.at).attempts \in Nat
  BY <1>1, StepTypes DEF Call, Mine, StepState
<1>4. RequestOf(c, c.at) \in [op : OpId, plan : {c.entry.plan},
                             at : DOMAIN Plan[c.entry.plan], attempt : Nat]
  BY <1>2, <1>3 DEF RequestOf
<1> QED
  BY <1>2, <1>4 DEF Request

\* After its save a call goes on with the entry that is now durable.
LEMMA GoesOnFacts ==
    ASSUME NEW c \in Call, NextEntry(c) \in Entry
    PROVE  LET d == Goto(Acknowledged(c), c.ret.pc, c.ret.at) IN
           /\ d \in Call /\ d.op = c.op /\ d.entry = NextEntry(c)
           /\ d.known = c.known + 1
           /\ d.pc = c.ret.pc /\ d.at = c.ret.at
<1> DEFINE x == Acknowledged(c)
           d == Goto(x, c.ret.pc, c.ret.at)
<1>1. ASSUME NEW n \in Nat, NEW e \in Entry
      PROVE  LET y == [c EXCEPT !.entry = e, !.known = n] IN
             /\ y \in Call /\ y.op = c.op /\ y.entry = e /\ y.known = n
             /\ y.ret = c.ret
  BY DEF Call
<1>2. c.known + 1 \in Nat
  BY DEF Call
<1>3. x \in Call /\ x.op = c.op /\ x.entry = NextEntry(c) /\ x.known = c.known + 1
      /\ x.ret = c.ret
  BY <1>1, <1>2 DEF Acknowledged
<1>4. c.ret.pc \in Label /\ c.ret.at \in Nat
  BY DEF Call
<1> HIDE DEF x
<1>5. /\ d \in Call /\ d.op = x.op /\ d.entry = x.entry /\ d.known = x.known
      /\ d.pc = c.ret.pc /\ d.at = c.ret.at
  BY <1>3, <1>4 DEF Goto, Call
<1> QED
  BY <1>3, <1>5 DEF x

\* The call goes on with the entry its save has made durable.
LEMMA SavedCallIsGood ==
    ASSUME IInv, NEW r \in Runner, At(r, "save"), RevisionMatches(call[r]),
           Persist(call[r])
    PROVE  LET c == call[r]
               d == Goto(Acknowledged(c), c.ret.pc, c.ret.at) IN
           /\ d \in Call /\ Good(d, journal')
           /\ d.op = c.op /\ d.entry = NextEntry(c)
           /\ d.pc = c.ret.pc /\ d.at = c.ret.at
<1> DEFINE c == call[r]
           e == NextEntry(c)
           d == Goto(Acknowledged(c), c.ret.pc, c.ret.at)
           J == journal'
<1>1. c \in Call /\ Good(c, journal) /\ c.pc = "save" /\ TypeOK
  BY Running DEF At, IInv
<1>2. /\ e \in Entry /\ e.revision = c.known + 1 /\ e.plan = c.entry.plan
      /\ e.steps = c.entry.steps /\ Evident(e)
      /\ J[c.op] = e
  BY PersistFacts
<1> HIDE DEF c, J
<1>3. /\ d \in Call /\ d.op = c.op /\ d.entry = e /\ d.known = c.known + 1
      /\ d.pc = c.ret.pc /\ d.at = c.ret.at
  BY <1>1, <1>2, GoesOnFacts
<1> HIDE DEF d, e
<1>4. c.known \in Nat /\ c.ret.pc \in Label
  BY <1>1 DEF Call
<1>5. d.pc # "save" /\ Placed(c, d.pc, d.at)
  BY <1>1, <1>3 DEF Good, Position, SavedLabel
<1>6. Position(d)
  BY <1>2, <1>3, <1>5 DEF Position, Placed
<1>7. \A j \in DOMAIN e.steps : e.steps[j].attempts \in Nat
  BY <1>2, StepTypes DEF StepState
<1>8. Based(d, J)
  BY <1>2, <1>3, <1>4, <1>5, <1>7, EntryPlan DEF Based, Agrees, Pending
<1> QED
  BY <1>2, <1>3, <1>6, <1>8 DEF Good, d, e, c, J


\* What a durable save leaves to show, whether its call goes on or ends.
LEMMA PersistStep ==
    ASSUME IInv, NEW r \in Runner, At(r, "save"), RevisionMatches(call[r]),
           Persist(call[r]), NEW d, Becomes(r, d),
           UNCHANGED <<ynab, late, history>>,
           calls' \in Nat, edits' \in Nat, faults' \in Nat,
           \/ d = NoCall
           \/ /\ d \in Call /\ Good(d, journal')
              /\ d.op = call[r].op /\ d.entry = NextEntry(call[r])
              /\ d.pc = call[r].ret.pc /\ d.at = call[r].ret.at
    PROVE  IInv'
<1> DEFINE c == call[r]
<1>1. c \in Call /\ Good(c, journal) /\ c.pc = "save" /\ TypeOK /\ c.op \in OpId
  BY Running DEF At, IInv, Call
<1>2. \A q \in Runner : call'[q] = IF q = r THEN d ELSE call[q]
  BY DEF IInv, TypeOK, Becomes
<1>3. /\ journal' \in [OpId -> Entry \cup {NoEntry}]
      /\ journal'[c.op] = NextEntry(c) /\ NextEntry(c) \in Entry
      /\ EntriesEvident'
      /\ \A q \in Runner : q # r /\ call[q] # NoCall => Good(call[q], journal')
      /\ \A w \in Request : Journaled(w) => Journaled(w)'
      /\ \A w \in Request :
            /\ w.op = c.op /\ Journaled(w)
            /\ c.ret.pc = "write" /\ w.at = c.ret.at
            => w.attempt < NextEntry(c).steps[w.at].attempts
  BY PersistFacts
<1>4. TypeOK'
  BY <1>1, <1>3 DEF TypeOK, Becomes, history
<1>5. CallsGood'
  BY <1>2, <1>3 DEF CallsGood
<1>6. \A q \in Runner : q # r /\ call[q].pc = "write" =>
         Requested(q) \in Request /\ Journaled(Requested(q)) /\ Requested(q) \notin sent
  BY Running, RequestTyped, <1>1
  DEF IInv, IntentBeforeWrite, OneRequestPerIntent, Requested, At
<1>7. sent' = sent /\ \A w \in sent : w \in Request /\ Journaled(w)
  BY DEF IInv, TypeOK, IntentBeforeWrite, history
<1>8. ASSUME d.pc = "write"
      PROVE  LET w == RequestOf(d, d.at) IN
             /\ w \in Request /\ Journaled(w)' /\ w \notin sent
             /\ \A v \in Request : Journaled(v) => v # w
  <2> DEFINE w == RequestOf(d, d.at)
  <2>1. /\ d \in Call /\ Good(d, journal') /\ d.op = c.op
        /\ d.entry = NextEntry(c) /\ c.ret.pc = "write" /\ d.at = c.ret.at
    BY <1>8, NoCallDiffers
  <2>2. /\ w.op = c.op /\ w.at = c.ret.at /\ w.plan = d.entry.plan
        /\ w.attempt = NextEntry(c).steps[w.at].attempts
    BY <2>1 DEF RequestOf, Mine
  <2>3. w \in Request
    <3>1. d.at \in DOMAIN d.entry.steps
      BY <1>8, <2>1 DEF Good, Position, Placed
    <3>2. d.entry.plan \in PlanId /\ d.at \in DOMAIN Plan[d.entry.plan]
      BY <2>1, <3>1, EntryPlan DEF Call
    <3>3. Mine(d, d.at).attempts \in Nat
      BY <2>1, <3>1, StepTypes DEF Call, Mine, StepState
    <3>4. w \in [op : OpId, plan : {d.entry.plan},
                 at : DOMAIN Plan[d.entry.plan], attempt : Nat]
      BY <1>1, <2>1, <3>2, <3>3 DEF RequestOf
    <3> QED
      BY <3>2, <3>4 DEF Request
  <2>4. w.attempt \in Nat
    BY <2>3 DEF Request
  <2>5. \A v \in Request : Journaled(v) => v # w
    BY <1>3, <2>1, <2>2, <2>4
  <2>6. Journaled(w)'
    <3>1. d.at \in DOMAIN d.entry.steps
      BY <1>8, <2>1 DEF Good, Position, Placed
    <3>2. journal'[w.op] # NoEntry
      BY <1>3, <2>2, EntryPlan
    <3>3. journal'[w.op].plan = w.plan /\ journal'[w.op].steps = NextEntry(c).steps
      BY <1>3, <2>1, <2>2
    <3>4. w.at \in DOMAIN journal'[w.op].steps
      BY <2>1, <2>2, <3>1, <3>3
    <3>5. w.attempt <= journal'[w.op].steps[w.at].attempts
      BY <2>2, <2>4, <3>3
    <3> QED
      BY <3>2, <3>3, <3>4, <3>5 DEF Journaled, Exists, StepsOf
  <2> QED
    BY <1>7, <2>3, <2>5, <2>6
<1>9. IntentBeforeWrite'
  BY <1>2, <1>3, <1>6, <1>7, <1>8 DEF IntentBeforeWrite, At, Requested
<1>10. OneRequestPerIntent'
  BY <1>2, <1>6, <1>7, <1>8 DEF OneRequestPerIntent, At, Requested
<1>11. RequestsDiffer'
  BY <1>2, <1>6, <1>8 DEF RequestsDiffer, At, Requested, IInv
<1>12. (late \subseteq sent)'
  BY DEF IInv, history
<1> QED
  BY <1>3, <1>4, <1>5, <1>9, <1>10, <1>11, <1>12 DEF IInv

\* A save that succeeds keeps the invariant.
LEMMA SaveDurableKeeps ==
    ASSUME IInv, NEW r \in Runner, SaveDurable(r)
    PROVE  IInv'
<1> DEFINE d == Goto(Acknowledged(call[r]), call[r].ret.pc, call[r].ret.at)
<1>1. At(r, "save") /\ RevisionMatches(call[r]) /\ Persist(call[r])
  BY DEF SaveDurable
<1>2. /\ d \in Call /\ Good(d, journal')
      /\ d.op = call[r].op /\ d.entry = NextEntry(call[r])
      /\ d.pc = call[r].ret.pc /\ d.at = call[r].ret.at
  BY <1>1, SavedCallIsGood
<1>3. Becomes(r, d)
  BY DEF SaveDurable
<1>4. /\ UNCHANGED <<ynab, late, history>>
      /\ calls' \in Nat /\ edits' \in Nat /\ faults' \in Nat
  BY DEF SaveDurable, bounds, IInv, TypeOK
<1> HIDE DEF d
<1> QED
  BY <1>1, <1>2, <1>3, <1>4, PersistStep

\* A save that fails, or is durable though its reply is lost, keeps it.
LEMMA SaveFailedKeeps ==
    ASSUME IInv, NEW r \in Runner, SaveFailed(r)
    PROVE  IInv'
<1>1. /\ At(r, "save") /\ Becomes(r, NoCall)
      /\ UNCHANGED <<ynab, late, history>>
      /\ calls' \in Nat /\ edits' \in Nat /\ faults' \in Nat
  BY FaultType DEF SaveFailed, IInv, TypeOK
<1>2. CASE UNCHANGED journal
  BY <1>1, <1>2, LocalStep
<1>3. CASE RevisionMatches(call[r]) /\ Persist(call[r])
  BY <1>1, <1>3, PersistStep
<1> QED
  BY <1>2, <1>3 DEF SaveFailed


\* A change of a target keeps the types.
LEMMA ChangedType ==
    ASSUME TypeOK, NEW t \in Target, NEW v \in Value, NEW who \in OpId \cup {User},
           Changed(t, v, who)
    PROVE  /\ ynab' \in [Target -> Value]
           /\ touched' \in [Target -> SUBSET (OpId \cup {User})]
BY DEF TypeOK, Changed

\* A write leaves a value.
LEMMA WrittenType ==
    ASSUME NEW v \in Value, NEW step \in PlanStep
    PROVE  Written(v, step) \in Value
BY DEF Written, Value, PlanStep

\* A write, applied, lost or late, keeps the invariant: its request is new.
LEMMA WriteStepKeeps ==
    ASSUME IInv, NEW r \in Runner, WriteStep(r)
    PROVE  IInv'
<1> DEFINE c == call[r]
           w == RequestOf(c, c.at)
           d == Goto(c, "readback", c.at)
<1>1. c \in Call /\ Good(c, journal) /\ c.pc = "write" /\ TypeOK
  BY Running DEF WriteStep, At, IInv
<1>2. w \in Request /\ Journaled(w) /\ c.op \in OpId
  BY <1>1, RequestTyped DEF IInv, IntentBeforeWrite, WriteStep, Call
<1>3. /\ sent' = sent \cup {w} /\ call' = [call EXCEPT ![r] = d]
      /\ late' = late \/ late' = late \cup {w}
      /\ journal' = journal /\ calls' = calls /\ edits' = edits
      /\ faults' = faults \/ Fault
      /\ \/ ynab' = ynab /\ touched' = touched
         \/ Changed(Here(c, c.at).target,
                    Written(ynab[Here(c, c.at).target], Here(c, c.at)), c.op)
  BY DEF WriteStep, Becomes
<1> HIDE DEF c, w
<1>4. d \in Call /\ Good(d, journal) /\ d.pc = "readback"
  <2>1. c.at \in Nat /\ "readback" \in Label
    BY <1>1 DEF Call, Label
  <2>2. /\ d \in Call /\ d.op = c.op /\ d.known = c.known /\ d.entry = c.entry
        /\ d.pc = "readback" /\ d.at = c.at
    BY <1>1, <2>1, GotoFacts
  <2>3. Position(d)
    BY <1>1, <2>2 DEF Good, Position, Placed
  <2>4. \A k \in DOMAIN c.entry.steps : c.entry.steps[k].attempts \in Nat
    BY <1>1, StepTypes DEF Call, StepState
  <2> HIDE DEF d
  <2> QED
    BY <1>1, <2>2, <2>3, <2>4, StillGood DEF Good, Pending
<1> HIDE DEF d
<1>5. TypeOK'
  <2>1. Here(c, c.at) \in PlanStep /\ Here(c, c.at).target \in Target
    <3>1. c.entry.plan \in PlanId /\ c.at \in DOMAIN Plan[c.entry.plan]
      BY <1>1, EntryPlan DEF Call, Good, Position, Placed
    <3>2. Here(c, c.at) \in PlanStep
      BY <3>1, PlanTypes DEF Here
    <3> QED
      BY <3>2 DEF PlanStep
  <2>2. Written(ynab[Here(c, c.at).target], Here(c, c.at)) \in Value
    BY <1>1, <2>1, WrittenType DEF TypeOK
  <2>3. /\ ynab' \in [Target -> Value]
        /\ touched' \in [Target -> SUBSET (OpId \cup {User})]
    BY <1>1, <1>2, <1>3, <2>1, <2>2, ChangedType DEF TypeOK
  <2>4. faults' \in Nat
    BY <1>1, <1>3, FaultType DEF TypeOK
  <2> QED
    BY <1>1, <1>2, <1>3, <1>4, <2>3, <2>4 DEF TypeOK
<1>6. EntriesEvident'
  BY <1>3 DEF IInv, EntriesEvident, Exists
<1>7. \A q \in Runner : call'[q] = IF q = r THEN d ELSE call[q]
  BY <1>1, <1>3 DEF TypeOK
<1>8. CallsGood'
  BY <1>3, <1>4, <1>7 DEF IInv, CallsGood
<1>9. \A q \in Runner : call'[q].pc = "write" => q # r /\ call'[q] = call[q]
  BY <1>4, <1>7
<1>10. \A v : Journaled(v)' <=> Journaled(v)
  BY <1>3 DEF Journaled, Exists, StepsOf
<1>11. IntentBeforeWrite'
  BY <1>2, <1>3, <1>9, <1>10 DEF IInv, IntentBeforeWrite, At
<1>12. OneRequestPerIntent'
  <2> SUFFICES ASSUME NEW q \in Runner, call'[q].pc = "write"
               PROVE  RequestOf(call'[q], call'[q].at) \notin sent'
    BY DEF OneRequestPerIntent, At
  <2>1. q # r /\ call'[q] = call[q]
    BY <1>9
  <2>2. Requested(q) # w /\ Requested(q) \notin sent
    BY <1>1, <2>1 DEF IInv, RequestsDiffer, OneRequestPerIntent, At, Requested, c, w
  <2> QED
    BY <1>3, <2>1, <2>2 DEF Requested
<1>13. RequestsDiffer'
  BY <1>9 DEF IInv, RequestsDiffer, At, Requested
<1>14. (late \subseteq sent)'
  BY <1>3 DEF IInv
<1> QED
  BY <1>5, <1>6, <1>8, <1>11, <1>12, <1>13, <1>14 DEF IInv

\* What happens in YNAB by itself concerns the invariant only by its types.
LEMMA OutsideKeeps ==
    ASSUME IInv, TypeOK', late' \subseteq late, UNCHANGED <<journal, call, sent>>
    PROVE  IInv'
<1>1. EntriesEvident' /\ CallsGood'
  BY DEF IInv, EntriesEvident, CallsGood, Exists
<1>2. IntentBeforeWrite' /\ OneRequestPerIntent' /\ RequestsDiffer'
  BY DEF IInv, IntentBeforeWrite, OneRequestPerIntent, RequestsDiffer, Requested,
         Journaled, Exists, StepsOf, At
<1> QED
  BY <1>1, <1>2 DEF IInv

\* A late write keeps the invariant.
LEMMA LateWriteKeeps ==
    ASSUME IInv, NEW w \in late, LateWrite(w)
    PROVE  IInv'
<1> DEFINE step == Plan[w.plan][w.at]
<1>1. TypeOK /\ w \in Request
  BY DEF IInv, TypeOK
<1>2. w.plan \in PlanId /\ w.at \in DOMAIN Plan[w.plan] /\ w.op \in OpId
  BY <1>1 DEF Request
<1>3. step \in PlanStep /\ step.target \in Target
  BY <1>2, PlanTypes DEF PlanStep
<1>4. Changed(step.target, Written(ynab[step.target], step), w.op)
  BY DEF LateWrite
<1> HIDE DEF step
<1>5. Written(ynab[step.target], step) \in Value
  BY <1>1, <1>3, WrittenType DEF TypeOK
<1>6. TypeOK'
  BY <1>1, <1>2, <1>3, <1>4, <1>5, ChangedType DEF TypeOK, LateWrite, bounds
<1> QED
  BY <1>6, OutsideKeeps DEF LateWrite

\* An edit made outside the server keeps the invariant.
LEMMA ExternalEditKeeps ==
    ASSUME IInv, NEW t \in Target, NEW v \in Value, ExternalEdit(t, v)
    PROVE  IInv'
<1>1. TypeOK'
  BY ChangedType DEF IInv, TypeOK, ExternalEdit
<1> QED
  BY <1>1, OutsideKeeps DEF ExternalEdit

-----------------------------------------------------------------------------
(* The theorems.                                                           *)

\* The invariant holds at the outset.
LEMMA InitInv == Init => IInv
<1> SUFFICES ASSUME Init PROVE IInv
  OBVIOUS
<1>1. TypeOK
  BY PlanAssumption DEF Init, TypeOK
<1> QED
  BY <1>1 DEF Init, IInv, EntriesEvident, CallsGood, IntentBeforeWrite,
              OneRequestPerIntent, RequestsDiffer, Exists, At, NoCall

\* Every step keeps the invariant.
LEMMA NextInv == IInv /\ [Next]_vars => IInv'
<1> SUFFICES ASSUME IInv, [Next]_vars PROVE IInv'
  OBVIOUS
<1>1. CASE UNCHANGED vars
  BY <1>1, OutsideKeeps DEF vars, bounds, history, IInv, TypeOK
<1>2. CASE \E r \in Runner : Calls(r)
  BY <1>2, RunNewKeeps, RunAgainKeeps, ResumeKeeps DEF Calls
<1>3. ASSUME NEW r \in Runner, Progress(r) PROVE IInv'
  BY <1>3, SaveDurableKeeps, ReturnKeeps, SaveFailedKeeps, VerifyStepKeeps,
     CheckStepKeeps, ApplyStepKeeps, DoneKeeps, ApplyDoneKeeps, WriteStepKeeps,
     ReadBackKeeps
  DEF Progress
<1>4. CASE Environment
  BY <1>4, ReturnKeeps, LateWriteKeeps, ExternalEditKeeps DEF Environment
<1> QED
  BY <1>1, <1>2, <1>3, <1>4 DEF Next

\* The invariant behind the theorems below: every call knows the attempts of
\* its entry up to the revision it has read, and every request sent is one of them.
THEOREM Invariance == Spec => []IInv
BY InitInv, NextInv, PTL DEF Spec

\* Every variable keeps its type, for any number of runners and operations.
THEOREM TypeCorrect == Spec => []TypeOK
<1>1. IInv => TypeOK
  BY DEF IInv
<1> QED
  BY <1>1, Invariance, PTL

\* No request reaches YNAB that the durable journal does not account for.
THEOREM IntentIsDurable == Spec => []IntentBeforeWrite
<1>1. IInv => IntentBeforeWrite
  BY DEF IInv
<1> QED
  BY <1>1, Invariance, PTL

\* However many instances recover an operation at the same time, no durable
\* intent is ever spent on two requests.
THEOREM IntentIsSpentOnce == Spec => []OneRequestPerIntent
<1>1. IInv => OneRequestPerIntent
  BY DEF IInv
<1> QED
  BY <1>1, Invariance, PTL

\* A step counts as applied, and an operation as completed, only on evidence.
THEOREM AppliedNeedsEvidence == Spec => []AppliedOnEvidence
<1>1. IInv => AppliedOnEvidence
  BY DEF IInv, EntriesEvident, Evident, AppliedOnEvidence, StepsOf
<1> QED
  BY <1>1, Invariance, PTL

-----------------------------------------------------------------------------
(* The order of the three loops: no target is written before every target   *)
(* of the plan has been read and found in its expected state.               *)

(* The invariant is about each call by itself.  The verify loop leaves      *)
(* behind no applied step it has not seen, the check loop no step at all,   *)
(* and the steps that are applied when it starts have been seen before.     *)

\* What a call that goes on at label p and step i has seen.
SeenAt(c, p, i) ==
    /\ c.fresh \subseteq DOMAIN c.entry.steps
    /\ p = "verify" =>
          \A k \in DOMAIN c.entry.steps :
             k < i /\ c.entry.steps[k].status = "applied" => k \in c.fresh
    /\ p = "check" =>
          \A k \in DOMAIN c.entry.steps :
             k < i \/ c.entry.steps[k].status = "applied" => k \in c.fresh
    /\ p \in {"apply", "write", "readback"} => DOMAIN c.entry.steps \subseteq c.fresh

Seen(c) ==
    /\ c.pc # "save" => SeenAt(c, c.pc, c.at)
    /\ c.pc = "save" => SeenAt(c, c.ret.pc, c.ret.at)

CallsSeen == \A r \in Runner : call[r] # NoCall => Seen(call[r])

-----------------------------------------------------------------------------
(* The helpers.                                                            *)

\* Labels other than "save" keep what has been seen where it is.
LEMMA GotoSeen ==
    ASSUME NEW c \in Call, NEW p \in Label, p # "save", NEW i \in Nat, SeenAt(c, p, i)
    PROVE  Seen(Goto(c, p, i))
<1> DEFINE d == Goto(c, p, i)
<1>1. d.pc = p /\ d.at = i /\ d.entry = c.entry /\ d.fresh = c.fresh
  BY DEF Goto, Call
<1> HIDE DEF d
<1>2. Seen(d)
  BY <1>1 DEF Seen, SeenAt
<1> QED
  BY <1>2 DEF d

\* A save keeps what has been seen for where it goes on.
LEMMA SaveSeen ==
    ASSUME NEW c \in Call, NEW p \in Label, NEW i \in Nat, SeenAt(c, p, i)
    PROVE  Seen(SaveThen(c, p, i))
<1> DEFINE d == SaveThen(c, p, i)
<1>1. d.pc = "save" /\ d.ret.pc = p /\ d.ret.at = i /\ d.entry = c.entry
      /\ d.fresh = c.fresh
  BY DEF SaveThen, Call
<1> HIDE DEF d
<1>2. Seen(d)
  BY <1>1 DEF Seen, SeenAt
<1> QED
  BY <1>2 DEF d

\* Having read step j, a call has seen it and what it had seen before.
LEMMA SeesAdds ==
    ASSUME NEW c \in Call, NEW j
    PROVE  Sees(c, j).fresh = c.fresh \cup {j} /\ Sees(c, j).entry = c.entry
BY DEF Sees, Call

\* Replacing a step of the copy changes that step and nothing that is seen.
LEMMA PutSeen ==
    ASSUME NEW c \in Call, NEW j \in DOMAIN c.entry.steps,
           NEW step \in StepState, NEW es \in EntryStatus
    PROVE  LET d == Put(c, j, step, es) IN
           /\ d \in Call /\ d.fresh = c.fresh
           /\ DOMAIN d.entry.steps = DOMAIN c.entry.steps
           /\ \A k \in DOMAIN c.entry.steps : k # j =>
                 d.entry.steps[k] = c.entry.steps[k]
<1>1. Put(c, j, step, es).fresh = c.fresh
  BY DEF Put, Call
<1> QED
  BY <1>1, PutFacts

\* A call that only stops has seen steps of its plan.
LEMMA StopSeen ==
    ASSUME NEW c \in Call, c.fresh \subseteq DOMAIN c.entry.steps,
           NEW j \in DOMAIN c.entry.steps,
           NEW step \in StepStatus, NEW es \in EntryStatus
    PROVE  Seen(StopAt(c, j, step, es))
<1> DEFINE s == [Mine(c, j) EXCEPT !.status = step]
           x == Put(c, j, s, es)
<1>1. s \in StepState
  BY StepTypes DEF Call, Mine, StepState
<1> HIDE DEF s
<1>2. x \in Call /\ x.fresh = c.fresh /\ DOMAIN x.entry.steps = DOMAIN c.entry.steps
  BY <1>1, PutSeen
<1> HIDE DEF x
<1>3. "return" \in Label /\ 1 \in Nat /\ SeenAt(x, "return", 1)
  BY <1>2 DEF Label, SeenAt
<1>4. Seen(SaveThen(x, "return", 1))
  BY <1>2, <1>3, SaveSeen
<1> QED
  BY <1>4 DEF StopAt, Mark, x, s

\* So has a call that finishes.
LEMMA FinishSeen ==
    ASSUME NEW c \in Call, c.fresh \subseteq DOMAIN c.entry.steps, NEW es \in EntryStatus
    PROVE  Seen(Finish(c, es))
<1> DEFINE d == Finish(c, es)
<1>1. d.pc = "save" /\ d.ret.pc = "return" /\ d.entry.steps = c.entry.steps
  BY FinishFacts
<1>2. d.fresh = c.fresh
  BY DEF Finish, SaveThen, Call
<1> HIDE DEF d
<1>3. Seen(d)
  BY <1>1, <1>2 DEF Seen, SeenAt
<1> QED
  BY <1>3 DEF d

\* A call that has recorded step j as applied, having seen it.
LEMMA AppliedSeen ==
    ASSUME NEW c \in Call, NEW j \in DOMAIN c.entry.steps, c.pc # "save",
           NEW b, b = Sees(c, j) \/ (b = c /\ j \in c.fresh),
           NEW step \in StepState, NEW es \in EntryStatus,
           NEW p \in {"verify", "check", "apply"},
           c.fresh \subseteq DOMAIN c.entry.steps,
           \A k \in DOMAIN c.entry.steps :
              /\ p = "verify" /\ k < j /\ c.entry.steps[k].status = "applied" =>
                    k \in c.fresh
              /\ p = "check" /\ (k < j \/ c.entry.steps[k].status = "applied") =>
                    k \in c.fresh
              /\ p = "apply" => k \in c.fresh
    PROVE  Seen(SaveThen(Put(b, j, step, es), p, j + 1))
<1> DEFINE x == Put(b, j, step, es)
<1>1. b \in Call /\ b.entry = c.entry /\ b.fresh = c.fresh \cup {j}
  BY SeesFacts, SeesAdds
<1>2. /\ x \in Call /\ x.fresh = c.fresh \cup {j}
      /\ DOMAIN x.entry.steps = DOMAIN c.entry.steps
      /\ \A k \in DOMAIN c.entry.steps : k # j => x.entry.steps[k] = c.entry.steps[k]
  BY <1>1, PutSeen
<1> HIDE DEF x
<1>3. \A k \in DOMAIN c.entry.steps : k \in Nat
  BY EntryPlan, PlanTypes DEF Call
<1>4. \A k \in DOMAIN c.entry.steps : k < j + 1 => k < j \/ k = j
  BY <1>3
<1>5. SeenAt(x, p, j + 1)
  BY <1>2, <1>4 DEF SeenAt
<1>6. p \in Label /\ j + 1 \in Nat
  BY <1>3 DEF Label
<1>7. Seen(SaveThen(x, p, j + 1))
  BY <1>2, <1>5, <1>6, SaveSeen
<1> QED
  BY <1>7 DEF x

-----------------------------------------------------------------------------
(* Every action keeps the invariant.                                       *)

\* What is left to show when one call changes.
LEMMA OneCall ==
    ASSUME TypeOK, CallsSeen, NEW r \in Runner, NEW d, Becomes(r, d),
           d = NoCall \/ Seen(d)
    PROVE  CallsSeen'
<1>1. \A q \in Runner : call'[q] = IF q = r THEN d ELSE call[q]
  BY DEF TypeOK, Becomes
<1> QED
  BY <1>1 DEF CallsSeen

\* What is known of a call that is not idle.
LEMMA Standing ==
    ASSUME IInv, CallsSeen, NEW r \in Runner, call[r].pc # "idle"
    PROVE  /\ TypeOK /\ call[r] \in Call /\ Seen(call[r])
           /\ call[r].fresh \subseteq DOMAIN call[r].entry.steps
           /\ call[r].at \in Nat
           /\ \A k \in DOMAIN call[r].entry.steps : k \in Nat
<1>1. TypeOK /\ call[r] \in Call /\ Seen(call[r])
  BY Running, NoCallDiffers DEF IInv, CallsSeen
<1>2. call[r].at \in Nat /\ \A k \in DOMAIN call[r].entry.steps : k \in Nat
  BY <1>1, EntryPlan, PlanTypes DEF Call
<1> QED
  BY <1>1, <1>2 DEF Seen, SeenAt

\* Nothing lies behind a call that is at its first step.
LEMMA AtFirst ==
    ASSUME NEW c, \A k \in DOMAIN c.entry.steps : k \in Nat \ {0}, c.fresh = {}
    PROVE  SeenAt(c, "verify", 1)
BY DEF SeenAt

\* Opening an entry keeps the invariant.
LEMMA OpenKeepsSeen ==
    ASSUME IInv, CallsSeen, NEW r \in Runner, Calls(r)
    PROVE  CallsSeen'
<1>0. TypeOK
  BY DEF IInv
<1>1. ASSUME NEW o \in OpId, NEW e \in Entry
      PROVE  LET c == Opened(o, e) IN
             /\ c \in Call /\ c.entry = e /\ c.fresh = {} /\ Seen(c)
  <2>1. e.revision \in Nat
    BY EntryPlan DEF EntryOf
  <2>2. /\ Opened(o, e) \in Call /\ Opened(o, e).entry = e /\ Opened(o, e).fresh = {}
        /\ Opened(o, e).pc = "verify" /\ Opened(o, e).at = 1
    BY <2>1 DEF Opened, Call, Label
  <2>3. \A k \in DOMAIN e.steps : k \in Nat \ {0}
    BY EntryPlan, PlanAssumption
  <2>4. SeenAt(Opened(o, e), "verify", 1)
    BY <2>2, <2>3, AtFirst
  <2> QED
    BY <2>2, <2>4 DEF Seen
<1>2. ASSUME NEW x \in Call, x.fresh = {}
      PROVE  Seen(SaveThen(x, "verify", 1))
  <2>1. \A k \in DOMAIN x.entry.steps : k \in Nat \ {0}
    BY EntryPlan, PlanAssumption DEF Call
  <2>2. SeenAt(x, "verify", 1) /\ "verify" \in Label /\ 1 \in Nat
    BY <1>2, <2>1, AtFirst DEF Label
  <2> QED
    BY <2>2, SaveSeen
<1>3. ASSUME NEW o \in OpId, NEW p \in PlanId, RunNew(r, o, p)
      PROVE  CallsSeen'
  <2>1. NewEntry(r, p) \in EntryOf(p)
    BY PlanAssumption DEF NewEntry, EntryOf, EntryStatus, StepState, StepStatus
  <2>2. NewEntry(r, p) \in Entry
    BY <2>1 DEF Entry
  <2>3. Seen(SaveThen(Opened(o, NewEntry(r, p)), "verify", 1))
    BY <1>1, <1>2, <2>2
  <2> QED
    BY <1>0, <1>3, <2>3, OneCall DEF RunNew, Opens
<1>4. ASSUME NEW o \in OpId, NEW p \in PlanId, RunAgain(r, o, p)
      PROVE  CallsSeen'
  <2>1. journal[o] \in Entry
    BY <1>0, <1>4 DEF RunAgain, InScope, TypeOK
  <2>2. Seen(Opened(o, journal[o]))
    BY <1>1, <2>1
  <2> QED
    BY <1>0, <1>4, <2>2, OneCall DEF RunAgain, Opens
<1>5. ASSUME NEW o \in OpId, Resume(r, o)
      PROVE  CallsSeen'
  <2> DEFINE c == Opened(o, journal[o])
             e == [c.entry EXCEPT !.rebound = @ \cup {r}]
             x == [c EXCEPT !.entry = e]
  <2>1. journal[o] \in Entry
    BY <1>0, <1>5 DEF Resume, InScope, TypeOK
  <2>2. c \in Call /\ c.fresh = {} /\ Seen(c)
    BY <1>1, <2>1
  <2>3. \/ Becomes(r, c)
        \/ Becomes(r, SaveThen([c EXCEPT !.entry.rebound = @ \cup {r}], "verify", 1))
    BY <1>5 DEF Resume, Opens
  <2> HIDE DEF c
  <2>4. [c EXCEPT !.entry.rebound = @ \cup {r}] = x
    BY <2>2 DEF Call
  <2>5. e \in EntryOf(c.entry.plan) /\ c.entry.plan \in PlanId
    BY <2>2, EntryPlan DEF EntryOf, Call
  <2>6. e \in Entry
    BY <2>5 DEF Entry
  <2> HIDE DEF e
  <2>7. x \in Call /\ x.fresh = {}
    BY <2>2, <2>6 DEF Call
  <2>8. Seen(SaveThen(x, "verify", 1))
    BY <1>2, <2>7
  <2> QED
    BY <1>0, <2>2, <2>3, <2>4, <2>8, OneCall
<1> QED
  BY <1>3, <1>4, <1>5 DEF Calls

\* The end of a call, and a save, keep the invariant.
LEMMA SaveKeepsSeen ==
    ASSUME IInv, CallsSeen, NEW r \in Runner,
           \/ Return(r) \/ SaveConflict(r) \/ SaveFailed(r) \/ Crash(r)
           \/ SaveDurable(r)
    PROVE  CallsSeen'
<1>1. CASE Return(r) \/ SaveConflict(r) \/ SaveFailed(r) \/ Crash(r)
  BY <1>1, OneCall DEF IInv, Return, SaveConflict, SaveFailed, Crash
<1>2. CASE SaveDurable(r)
  <2> DEFINE c == call[r]
             x == Acknowledged(c)
  <2>1. c \in Call /\ Good(c, journal) /\ Seen(c) /\ c.pc = "save" /\ TypeOK
    BY <1>2, Running, Standing DEF SaveDurable, At
  <2>2. Becomes(r, Goto(x, c.ret.pc, c.ret.at))
    BY <1>2 DEF SaveDurable
  <2> HIDE DEF c
  <2>3. c.entry \in EntryOf(c.entry.plan) /\ c.entry.plan \in PlanId /\ c.known \in Nat
    BY <2>1, EntryPlan DEF Call
  <2>4. NextEntry(c) \in EntryOf(c.entry.plan) /\ NextEntry(c).steps = c.entry.steps
    BY <2>3 DEF NextEntry, EntryOf
  <2>5. NextEntry(c) \in Entry
    BY <2>3, <2>4 DEF Entry
  <2>e. /\ DOMAIN c = {"op", "pc", "at", "ret", "entry", "known", "fresh"}
        /\ x = [c EXCEPT !.entry = NextEntry(c), !.known = c.known + 1]
        /\ c.known + 1 \in Nat
    BY <2>1, <2>3 DEF Acknowledged, Call
  <2>f. x.entry = NextEntry(c) /\ x.fresh = c.fresh
    BY <2>e
  <2>g. x \in Call
    BY <2>1, <2>5, <2>e DEF Call
  <2>6. x \in Call /\ x.entry.steps = c.entry.steps /\ x.fresh = c.fresh
    BY <2>4, <2>f, <2>g
  <2> HIDE DEF x
  <2>7. /\ c.ret.pc \in Label /\ c.ret.at \in Nat
        /\ c.ret.pc # "save" /\ SeenAt(c, c.ret.pc, c.ret.at)
    BY <2>1 DEF Good, Position, SavedLabel, Seen, Call
  <2>8. SeenAt(x, c.ret.pc, c.ret.at)
    BY <2>6, <2>7 DEF SeenAt
  <2>9. Seen(Goto(x, c.ret.pc, c.ret.at))
    BY <2>6, <2>7, <2>8, GotoSeen
  <2> QED
    BY <2>1, <2>2, <2>9, OneCall
<1> QED
  BY <1>1, <1>2

\* A step of a loop keeps the invariant if its call has seen enough.
LEMMA LoopKeepsSeen ==
    ASSUME IInv, CallsSeen, NEW r \in Runner, NEW d, Seen(d),
           Succeeds(r, d) \/ ReadFails(r, d)
    PROVE  CallsSeen'
BY OneCall DEF IInv, Succeeds, ReadFails, Loop

\* A step of the verify loop keeps the invariant.
LEMMA VerifyKeepsSeen ==
    ASSUME IInv, CallsSeen, NEW r \in Runner, NEW j \in StepNo, VerifyStep(r, j)
    PROVE  CallsSeen'
<1> DEFINE c == call[r]
<1>1. /\ c \in Call /\ Seen(c) /\ c.pc = "verify"
      /\ c.fresh \subseteq DOMAIN c.entry.steps
      /\ c.at \in Nat /\ \A k \in DOMAIN c.entry.steps : k \in Nat
  BY Standing DEF VerifyStep, At
<1>2. IsFirst(j, ToVerify(c))
  BY DEF VerifyStep
<1>3. \/ ReadFails(r, Unavailable(c))
      \/ Succeeds(r, StopAt(c, j, "conflict", "conflict"))
      \/ /\ Mine(c, j).status = "applied"
         /\ Succeeds(r, Goto(Sees(c, j), "verify", j + 1))
      \/ Succeeds(r, SaveThen(Mark(Sees(c, j), j, "applied", c.entry.status),
                              "verify", j + 1))
  BY DEF VerifyStep
<1> HIDE DEF c
<1>4. /\ j \in DOMAIN c.entry.steps
      /\ \A k \in DOMAIN c.entry.steps :
            k < j /\ c.entry.steps[k].status = "applied" => k \in c.fresh
  BY <1>1, <1>2 DEF IsFirst, ToVerify, Ahead, Mine, Seen, SeenAt
<1>5. c.entry.status \in EntryStatus /\ Mine(c, j) \in StepState
  BY <1>1, <1>4, EntryPlan, StepTypes DEF Call, EntryOf, Mine
<1>6. CASE ReadFails(r, Unavailable(c))
  BY <1>1, <1>6, FinishSeen, LoopKeepsSeen DEF Unavailable, EntryStatus
<1>7. CASE Succeeds(r, StopAt(c, j, "conflict", "conflict"))
  BY <1>1, <1>4, <1>7, StopSeen, LoopKeepsSeen DEF StepStatus, EntryStatus
<1>8. CASE Succeeds(r, Goto(Sees(c, j), "verify", j + 1))
  <2>1. Sees(c, j) \in Call /\ Sees(c, j).entry = c.entry
        /\ Sees(c, j).fresh = c.fresh \cup {j}
    BY <1>1, <1>4, SeesFacts, SeesAdds
  <2>2. \A k \in DOMAIN c.entry.steps : k < j + 1 => k < j \/ k = j
    BY <1>1, <1>4
  <2>3. SeenAt(Sees(c, j), "verify", j + 1)
    BY <1>1, <1>4, <2>1, <2>2 DEF SeenAt
  <2>4. "verify" \in Label /\ j + 1 \in Nat
    BY <1>1, <1>4 DEF Label
  <2> QED
    BY <1>8, <2>1, <2>3, <2>4, GotoSeen, LoopKeepsSeen
<1>9. CASE Succeeds(r, SaveThen(Mark(Sees(c, j), j, "applied", c.entry.status),
                                "verify", j + 1))
  <2> DEFINE s == [Mine(Sees(c, j), j) EXCEPT !.status = "applied"]
  <2>1. s \in StepState
    BY <1>1, <1>5, SeesAdds DEF Mine, StepState, StepStatus
  <2> HIDE DEF s
  <2>2. Seen(SaveThen(Put(Sees(c, j), j, s, c.entry.status), "verify", j + 1))
    BY <1>1, <1>4, <1>5, <2>1, AppliedSeen
  <2> QED
    BY <1>9, <2>2, LoopKeepsSeen DEF Mark, s
<1> QED
  BY <1>3, <1>6, <1>7, <1>8, <1>9

\* Going from one loop to the next keeps the invariant.
LEMMA DoneKeepsSeen ==
    ASSUME IInv, CallsSeen, NEW r \in Runner,
           VerifyDone(r) \/ CheckDone(r) \/ ApplyDone(r)
    PROVE  CallsSeen'
<1> DEFINE c == call[r]
<1>1. /\ c \in Call /\ Seen(c) /\ c.pc \in {"verify", "check", "apply"}
      /\ c.fresh \subseteq DOMAIN c.entry.steps
      /\ c.at \in Nat /\ \A k \in DOMAIN c.entry.steps : k \in Nat
  BY Standing DEF VerifyDone, CheckDone, ApplyDone, At
<1>2. \/ c.pc = "verify" /\ ToVerify(c) = {} /\ Succeeds(r, Goto(c, "check", 1))
      \/ c.pc = "check" /\ ToApply(c) = {} /\ Succeeds(r, Goto(c, "apply", 1))
      \/ Succeeds(r, Finish(c, "completed"))
  BY DEF VerifyDone, CheckDone, ApplyDone, At
<1> HIDE DEF c
<1>3. "check" \in Label /\ "apply" \in Label /\ 1 \in Nat
  BY DEF Label
<1>4. CASE c.pc = "verify" /\ ToVerify(c) = {} /\ Succeeds(r, Goto(c, "check", 1))
  <2>1. \A k \in DOMAIN c.entry.steps : ~(k < 1)
    <3>1. c.entry \in Entry
      BY <1>1 DEF Call
    <3>2. c.entry.plan \in PlanId /\ DOMAIN c.entry.steps = DOMAIN Plan[c.entry.plan]
      BY <3>1, EntryPlan
    <3>3. Plan[c.entry.plan] \in Seq(PlanStep)
      BY <3>2, PlanAssumption
    <3>4. DOMAIN Plan[c.entry.plan] = 1..Len(Plan[c.entry.plan])
      BY <3>3
    <3> QED
      BY <3>2, <3>4
  <2>2. SeenAt(c, "verify", c.at)
    BY <1>1, <1>4 DEF Seen
  <2>3. ASSUME NEW k \in DOMAIN c.entry.steps, c.entry.steps[k].status = "applied"
        PROVE  k \in c.fresh
    <3>1. k < c.at
      <4>1. k \notin Ahead(c)
        BY <1>4, <2>3 DEF ToVerify, Mine
      <4> QED
        BY <1>1, <4>1 DEF Ahead
    <3> QED
      BY <2>2, <2>3, <3>1 DEF SeenAt
  <2>4. SeenAt(c, "check", 1)
    BY <1>1, <2>1, <2>3 DEF SeenAt
  <2> QED
    BY <1>1, <1>3, <1>4, <2>4, GotoSeen, LoopKeepsSeen
<1>5. CASE c.pc = "check" /\ ToApply(c) = {} /\ Succeeds(r, Goto(c, "apply", 1))
  <2>1. SeenAt(c, "apply", 1)
    BY <1>1, <1>5 DEF ToApply, Ahead, Mine, Seen, SeenAt
  <2> QED
    BY <1>1, <1>3, <1>5, <2>1, GotoSeen, LoopKeepsSeen
<1>6. CASE Succeeds(r, Finish(c, "completed"))
  BY <1>1, <1>6, FinishSeen, LoopKeepsSeen DEF EntryStatus
<1> QED
  BY <1>2, <1>4, <1>5, <1>6

\* What the check and the apply loop have seen when they reach step j.
LEMMA SeenBefore ==
    ASSUME IInv, CallsSeen, NEW r \in Runner, NEW j \in StepNo,
           NEW loop \in {"check", "apply"}, At(r, loop), IsFirst(j, ToApply(call[r]))
    PROVE  LET c == call[r] IN
           /\ c \in Call /\ c.pc # "save" /\ c.fresh \subseteq DOMAIN c.entry.steps
           /\ j \in DOMAIN c.entry.steps
           /\ \A k \in DOMAIN c.entry.steps : k \in Nat
           /\ \A k \in DOMAIN c.entry.steps :
                 /\ loop = "check" /\ (k < j \/ c.entry.steps[k].status = "applied") =>
                       k \in c.fresh
                 /\ loop = "apply" => k \in c.fresh
<1> DEFINE c == call[r]
<1>1. /\ c \in Call /\ Seen(c) /\ c.pc = loop
      /\ c.fresh \subseteq DOMAIN c.entry.steps
      /\ c.at \in Nat /\ \A k \in DOMAIN c.entry.steps : k \in Nat
  BY Standing DEF At
<1>2. IsFirst(j, ToApply(c))
  OBVIOUS
<1> HIDE DEF c
<1>3. j \in DOMAIN c.entry.steps
  BY <1>2 DEF IsFirst, ToApply, Ahead
<1>4. CASE loop = "check"
  <2>1. \A k \in DOMAIN c.entry.steps : k < j =>
           k < c.at \/ c.entry.steps[k].status = "applied"
    BY <1>1, <1>2, <1>3 DEF IsFirst, ToApply, Ahead, Mine
  <2>2. \A k \in DOMAIN c.entry.steps :
           k < c.at \/ c.entry.steps[k].status = "applied" => k \in c.fresh
    BY <1>1, <1>4 DEF Seen, SeenAt
  <2> QED
    BY <1>1, <1>3, <1>4, <2>1, <2>2 DEF c
<1>5. CASE loop = "apply"
  BY <1>1, <1>3, <1>5 DEF Seen, SeenAt, c
<1> QED
  BY <1>4, <1>5

\* Recognising a target keeps the invariant, in either loop.
LEMMA RecogniseKeepsSeen ==
    ASSUME IInv, CallsSeen, NEW r \in Runner, NEW j \in StepNo,
           NEW loop \in {"check", "apply"},
           At(r, loop), IsFirst(j, ToApply(call[r])), Recognise(r, j, loop)
    PROVE  CallsSeen'
<1> DEFINE c == call[r]
           s == [status |-> "applied", attempts |-> Mine(Sees(c, j), j).attempts,
                 verified |-> TRUE]
<1>1. /\ c \in Call /\ c.pc # "save" /\ c.fresh \subseteq DOMAIN c.entry.steps
      /\ j \in DOMAIN c.entry.steps
      /\ \A k \in DOMAIN c.entry.steps :
            /\ loop = "check" /\ (k < j \/ c.entry.steps[k].status = "applied") =>
                  k \in c.fresh
            /\ loop = "apply" => k \in c.fresh
  BY SeenBefore
<1>2. \/ Succeeds(r, SaveThen(Applied(Sees(c, j), j, "running"), loop, j + 1))
      \/ Succeeds(r, StopAt(c, j, "conflict", "conflict"))
  BY DEF Recognise
<1> HIDE DEF c
<1>3. CASE Succeeds(r, SaveThen(Applied(Sees(c, j), j, "running"), loop, j + 1))
  <2>1. Mine(c, j) \in StepState /\ Mine(Sees(c, j), j) = Mine(c, j)
    BY <1>1, StepTypes, SeesAdds DEF Call, Mine
  <2>2. s \in StepState /\ "running" \in EntryStatus
    BY <2>1 DEF StepState, StepStatus, EntryStatus
  <2> HIDE DEF s
  <2>3. Seen(SaveThen(Put(Sees(c, j), j, s, "running"), loop, j + 1))
    BY <1>1, <2>2, AppliedSeen
  <2> QED
    BY <1>3, <2>3, LoopKeepsSeen DEF Applied, s
<1>4. CASE Succeeds(r, StopAt(c, j, "conflict", "conflict"))
  BY <1>1, <1>4, StopSeen, LoopKeepsSeen DEF StepStatus, EntryStatus
<1> QED
  BY <1>2, <1>3, <1>4

\* A step of the check loop keeps the invariant.
LEMMA CheckKeepsSeen ==
    ASSUME IInv, CallsSeen, NEW r \in Runner, NEW j \in StepNo, CheckStep(r, j)
    PROVE  CallsSeen'
<1> DEFINE c == call[r]
<1>1. At(r, "check") /\ IsFirst(j, ToApply(c))
  BY DEF CheckStep
<1>2. /\ c \in Call /\ c.fresh \subseteq DOMAIN c.entry.steps
      /\ j \in DOMAIN c.entry.steps
      /\ \A k \in DOMAIN c.entry.steps : k \in Nat
      /\ \A k \in DOMAIN c.entry.steps :
            k < j \/ c.entry.steps[k].status = "applied" => k \in c.fresh
  BY <1>1, SeenBefore
<1>3. \/ ReadFails(r, Unavailable(c))
      \/ Recognise(r, j, "check")
      \/ Succeeds(r, Goto(Sees(c, j), "check", j + 1))
  BY DEF CheckStep
<1>4. CASE Recognise(r, j, "check")
  BY <1>1, <1>4, RecogniseKeepsSeen
<1> HIDE DEF c
<1>5. CASE ReadFails(r, Unavailable(c))
  BY <1>2, <1>5, FinishSeen, LoopKeepsSeen DEF Unavailable, EntryStatus
<1>6. CASE Succeeds(r, Goto(Sees(c, j), "check", j + 1))
  <2>1. Sees(c, j) \in Call /\ Sees(c, j).entry = c.entry
        /\ Sees(c, j).fresh = c.fresh \cup {j}
    BY <1>2, SeesFacts, SeesAdds
  <2>2. \A k \in DOMAIN c.entry.steps : k < j + 1 => k < j \/ k = j
    BY <1>2
  <2>3. SeenAt(Sees(c, j), "check", j + 1)
    BY <1>2, <2>1, <2>2 DEF SeenAt
  <2>4. "check" \in Label /\ j + 1 \in Nat
    BY <1>2 DEF Label
  <2> QED
    BY <1>6, <2>1, <2>3, <2>4, GotoSeen, LoopKeepsSeen
<1> QED
  BY <1>3, <1>4, <1>5, <1>6

\* A step of the apply loop keeps the invariant.
LEMMA ApplyKeepsSeen ==
    ASSUME IInv, CallsSeen, NEW r \in Runner, NEW j \in StepNo, ApplyStep(r, j)
    PROVE  CallsSeen'
<1> DEFINE c == call[r]
           b == Sees(c, j)
           s == [status |-> "intent", attempts |-> Mine(b, j).attempts + 1,
                 verified |-> Mine(b, j).verified]
<1>1. At(r, "apply") /\ IsFirst(j, ToApply(c))
  BY DEF ApplyStep
<1>2. /\ c \in Call /\ c.fresh \subseteq DOMAIN c.entry.steps
      /\ j \in DOMAIN c.entry.steps
      /\ \A k \in DOMAIN c.entry.steps : k \in Nat /\ k \in c.fresh
  BY <1>1, SeenBefore
<1>3. \/ ReadFails(r, Unavailable(c))
      \/ Recognise(r, j, "apply")
      \/ Succeeds(r, SaveThen(Intent(b, j), "write", j))
  BY DEF ApplyStep
<1>4. CASE Recognise(r, j, "apply")
  BY <1>1, <1>4, RecogniseKeepsSeen
<1> HIDE DEF c
<1>5. CASE ReadFails(r, Unavailable(c))
  BY <1>2, <1>5, FinishSeen, LoopKeepsSeen DEF Unavailable, EntryStatus
<1>6. CASE Succeeds(r, SaveThen(Intent(b, j), "write", j))
  <2>1. b \in Call /\ b.entry = c.entry /\ b.fresh = c.fresh \cup {j}
    BY <1>2, SeesFacts, SeesAdds
  <2> HIDE DEF b
  <2>2. Mine(b, j) \in StepState
    BY <1>2, <2>1, StepTypes DEF Call, Mine
  <2>3. s \in StepState /\ "running" \in EntryStatus
    BY <2>2 DEF StepState, StepStatus, EntryStatus
  <2> HIDE DEF s
  <2>4. LET x == Put(b, j, s, "running") IN
        /\ x \in Call /\ x.fresh = b.fresh /\ DOMAIN x.entry.steps = DOMAIN c.entry.steps
    BY <1>2, <2>1, <2>3, PutSeen
  <2>5. SeenAt(Put(b, j, s, "running"), "write", j)
    BY <1>2, <2>1, <2>4 DEF SeenAt
  <2>6. "write" \in Label /\ j \in Nat
    BY <1>2 DEF Label
  <2>7. Seen(SaveThen(Put(b, j, s, "running"), "write", j))
    BY <2>4, <2>5, <2>6, SaveSeen
  <2> QED
    BY <1>6, <2>7, LoopKeepsSeen DEF Intent, s
<1> QED
  BY <1>3, <1>4, <1>5, <1>6

\* Sending a write, and reading its target back, keep the invariant.
LEMMA WriteKeepsSeen ==
    ASSUME IInv, CallsSeen, NEW r \in Runner, WriteStep(r) \/ ReadBack(r)
    PROVE  CallsSeen'
<1> DEFINE c == call[r]
           j == c.at
<1>1. /\ c \in Call /\ Seen(c) /\ c.pc \in {"write", "readback"} /\ TypeOK
      /\ Good(c, journal)
      /\ c.fresh \subseteq DOMAIN c.entry.steps
      /\ c.at \in Nat /\ \A k \in DOMAIN c.entry.steps : k \in Nat
  BY Standing, Running DEF WriteStep, ReadBack, At
<1>2. \/ Becomes(r, Goto(c, "readback", j))
      \/ \E st \in StepStatus, es \in EntryStatus :
            Succeeds(r, StopAt(c, j, st, es)) \/ ReadFails(r, StopAt(c, j, st, es))
      \/ Succeeds(r, SaveThen(Applied(c, j, c.entry.status), "apply", j + 1))
  BY DEF WriteStep, ReadBack, StepStatus, EntryStatus
<1> HIDE DEF c
<1>3. /\ j \in DOMAIN c.entry.steps /\ j \in Nat
      /\ DOMAIN c.entry.steps \subseteq c.fresh
  BY <1>1 DEF Good, Position, Placed, Seen, SeenAt
<1>4. c.entry.status \in EntryStatus /\ Mine(c, j) \in StepState
  BY <1>1, <1>3, EntryPlan, StepTypes DEF Call, EntryOf, Mine
<1> HIDE DEF j
<1>5. CASE Becomes(r, Goto(c, "readback", j))
  <2>1. "readback" \in Label /\ SeenAt(c, "readback", j)
    BY <1>1, <1>3 DEF Label, SeenAt
  <2>2. Seen(Goto(c, "readback", j))
    BY <1>1, <1>3, <2>1, GotoSeen
  <2> QED
    BY <1>1, <1>5, <2>2, OneCall
<1>6. ASSUME NEW st \in StepStatus, NEW es \in EntryStatus,
             Succeeds(r, StopAt(c, j, st, es)) \/ ReadFails(r, StopAt(c, j, st, es))
      PROVE  CallsSeen'
  BY <1>1, <1>3, <1>6, StopSeen, LoopKeepsSeen
<1>7. CASE Succeeds(r, SaveThen(Applied(c, j, c.entry.status), "apply", j + 1))
  <2> DEFINE s == [status |-> "applied", attempts |-> Mine(c, j).attempts,
                   verified |-> TRUE]
  <2>1. s \in StepState
    BY <1>4 DEF StepState, StepStatus
  <2> HIDE DEF s
  <2>2. c.pc # "save" /\ j \in c.fresh
    BY <1>1, <1>3
  <2>3. Seen(SaveThen(Put(c, j, s, c.entry.status), "apply", j + 1))
    BY <1>1, <1>3, <1>4, <2>1, <2>2, AppliedSeen
  <2> QED
    BY <1>7, <2>3, LoopKeepsSeen DEF Applied, s
<1> QED
  BY <1>2, <1>5, <1>6, <1>7

-----------------------------------------------------------------------------
(* The theorem.                                                            *)

\* Every step keeps what the calls have seen.
LEMMA SeenIsInductive == IInv /\ CallsSeen /\ [Next]_vars => CallsSeen'
<1> SUFFICES ASSUME IInv, CallsSeen, [Next]_vars
             PROVE  CallsSeen'
  OBVIOUS
<1>1. CASE UNCHANGED vars
  BY <1>1 DEF vars, CallsSeen
<1>2. ASSUME NEW w \in late, LateWrite(w)
      PROVE  CallsSeen'
  BY <1>2 DEF LateWrite, CallsSeen
<1>3. ASSUME NEW t \in Target, NEW v \in Value, ExternalEdit(t, v)
      PROVE  CallsSeen'
  BY <1>3 DEF ExternalEdit, CallsSeen
<1>4. ASSUME NEW r \in Runner, Crash(r)
      PROVE  CallsSeen'
  BY <1>4, SaveKeepsSeen
<1>5. ASSUME NEW r \in Runner, Calls(r)
      PROVE  CallsSeen'
  BY <1>5, OpenKeepsSeen
<1>6. ASSUME NEW r \in Runner, Progress(r)
      PROVE  CallsSeen'
  BY <1>6, SaveKeepsSeen, VerifyKeepsSeen, DoneKeepsSeen, CheckKeepsSeen,
     ApplyKeepsSeen, WriteKeepsSeen
  DEF Progress
<1> QED
  BY <1>1, <1>2, <1>3, <1>4, <1>5, <1>6 DEF Next, Environment

\* No call writes to a target before it has read every target of the plan and
\* found it in the state the journal and the plan expect, whatever runs beside
\* it: write-recovery.mjs checks all remaining targets before it changes any.
THEOREM ChecksComeFirst == Spec => []CheckedBeforeWrite
<1>1. Init => CallsSeen
  BY DEF Init, CallsSeen
<1>2. IInv /\ CallsSeen => CheckedBeforeWrite
  <2> SUFFICES ASSUME IInv, CallsSeen, NEW r \in Runner, At(r, "write")
               PROVE  call[r].fresh = DOMAIN call[r].entry.steps
    BY DEF CheckedBeforeWrite
  <2> QED
    BY Standing DEF At, Seen, SeenAt
<1>3. Init => IInv
  BY InitInv
<1>4. IInv /\ [Next]_vars => IInv'
  BY NextInv
<1> QED
  BY <1>1, <1>2, <1>3, <1>4, SeenIsInductive, PTL DEF Spec

-----------------------------------------------------------------------------
(* The outcome: what the journal calls verified holds, and a conflict has a *)
(* cause.                                                                   *)

(* The invariant follows an operation o as long as nobody else has changed  *)
(* a target of it.  Until a request of o is applied there the target holds  *)
(* its first value, and from then on what any number of applications of the *)
(* same absolute write leave.  A copy of the entry may say "conflict"       *)
(* without a cause only if it has missed an attempt, and then the revision  *)
(* it knows is too old for its save.                                        *)

Alone(o, t) == touched[t] \subseteq {o}

Holds(o, e) ==
    \A j \in DOMAIN e.steps :
        e.steps[j].verified /\ Alone(o, Plan[e.plan][j].target) =>
            ynab[Plan[e.plan][j].target] = Plan[e.plan][j].after

HasCause(o, p) ==
    \E j \in DOMAIN Plan[p] :
        \/ ~Alone(o, Plan[p][j].target)
        \/ Start[Plan[p][j].target] # Plan[p][j].before

Stale(c) == c.known > 0 /\ journal[c.op].revision > c.known

Truthful(c) ==
    /\ Holds(c.op, c.entry)
    /\ c.entry.status = "conflict" => HasCause(c.op, c.entry.plan) \/ Stale(c)
    /\ c.known = 0 => \A j \in DOMAIN c.entry.steps : ~c.entry.steps[j].verified

JournalTruthful ==
    \A o \in OpId : Exists(o) =>
        /\ Holds(o, journal[o])
        /\ journal[o].status = "conflict" => HasCause(o, journal[o].plan)

CallsTruthful == \A r \in Runner : call[r] # NoCall => Truthful(call[r])

StepOf(w) == Plan[w.plan][w.at]

SentCounted == \A w \in sent : w.attempt > 0

TouchedBySent ==
    \A t \in Target, o \in OpId : o \in touched[t] =>
        \E w \in sent : w.op = o /\ StepOf(w).target = t

Untouched == \A t \in Target : touched[t] = {} => ynab[t] = Start[t]

OwnWork ==
    \A w \in sent : touched[StepOf(w).target] = {w.op} =>
        ynab[StepOf(w).target] = Written(Start[StepOf(w).target], StepOf(w))

Truth ==
    /\ JournalTruthful /\ CallsTruthful
    /\ SentCounted /\ TouchedBySent /\ Untouched /\ OwnWork

-----------------------------------------------------------------------------
(* Values and requests.                                                    *)

\* A request is for a step of a plan.
LEMMA RequestFacts ==
    ASSUME NEW w \in Request
    PROVE  /\ w.op \in OpId /\ w.plan \in PlanId /\ w.at \in DOMAIN Plan[w.plan]
           /\ w.attempt \in Nat
           /\ StepOf(w) \in PlanStep /\ StepOf(w).target \in Target
<1>1. w.op \in OpId /\ w.plan \in PlanId /\ w.at \in DOMAIN Plan[w.plan] /\ w.attempt \in Nat
  BY DEF Request
<1>2. StepOf(w) \in PlanStep
  BY <1>1, PlanTypes DEF StepOf
<1> QED
  BY <1>1, <1>2 DEF PlanStep

\* Repeating a write changes nothing, and it takes a step from before to after.
LEMMA WriteIsAbsolute ==
    ASSUME NEW p \in PlanId, NEW j \in DOMAIN Plan[p], NEW v \in Value
    PROVE  LET step == Plan[p][j] IN
           /\ Written(v, step) \in Value
           /\ Written(Written(v, step), step) = Written(v, step)
           /\ Written(step.after, step) = step.after
           /\ Written(step.before, step) = step.after
<1>1. Plan[p][j] \in PlanStep /\ Plan[p][j].before.rest = Plan[p][j].after.rest
  BY PlanTypes, PlanAssumption
<1> QED
  BY <1>1 DEF PlanStep, Written, Value

\* The requests of one operation at one target are for one step.
LEMMA OneStepPerTarget ==
    ASSUME NEW v \in Request, NEW w \in Request, Journaled(v), Journaled(w),
           v.op = w.op, StepOf(v).target = StepOf(w).target
    PROVE  StepOf(v) = StepOf(w)
<1>1. v.plan = w.plan
  BY DEF Journaled
<1>2. v.at = w.at
  BY <1>1, RequestFacts, PlanAssumption DEF StepOf
<1> QED
  BY <1>1, <1>2 DEF StepOf

\* What changes when a target changes.
LEMMA ChangedFacts ==
    ASSUME TypeOK, NEW t \in Target, NEW v, NEW who, Changed(t, v, who)
    PROVE  /\ ynab'[t] = v /\ touched'[t] = touched[t] \cup {who}
           /\ \A u \in Target \ {t} : ynab'[u] = ynab[u] /\ touched'[u] = touched[u]
BY DEF TypeOK, Changed

\* A cause does not go away.
LEMMA CauseStays ==
    ASSUME TypeOK, NEW t \in Target, NEW v, NEW who, Changed(t, v, who),
           NEW o \in OpId, NEW p \in PlanId, HasCause(o, p)
    PROVE  HasCause(o, p)'
<1>1. \A u \in Target : touched[u] \subseteq touched'[u]
  BY ChangedFacts
<1>2. \A j \in DOMAIN Plan[p] : Plan[p][j].target \in Target
  BY PlanTypes DEF PlanStep
<1> QED
  BY <1>1, <1>2 DEF HasCause, Alone

\* A write of an operation keeps what its own entry calls verified, and
\* concerns no other operation.
LEMMA WriteHolds ==
    ASSUME TypeOK, NEW w \in Request,
           Changed(StepOf(w).target, Written(ynab[StepOf(w).target], StepOf(w)), w.op),
           NEW o \in OpId, NEW e \in Entry, Holds(o, e),
           \/ o = w.op => e.plan = w.plan
           \/ \A j \in DOMAIN e.steps : ~e.steps[j].verified
    PROVE  Holds(o, e)'
<1> DEFINE t == StepOf(w).target
<1> SUFFICES ASSUME NEW j \in DOMAIN e.steps, e.steps[j].verified,
                    Alone(o, Plan[e.plan][j].target)'
             PROVE  ynab'[Plan[e.plan][j].target] = Plan[e.plan][j].after
  BY DEF Holds
<1>1. e.plan \in PlanId /\ j \in DOMAIN Plan[e.plan]
  BY EntryPlan
<1>2. Plan[e.plan][j].target \in Target /\ t \in Target
  BY <1>1, PlanTypes, RequestFacts DEF PlanStep
<1>3. CASE Plan[e.plan][j].target # t
  <2> DEFINE u == Plan[e.plan][j].target
  <2>1. u \in Target \ {t}
    BY <1>2, <1>3
  <2> HIDE DEF u
  <2>2. ynab'[u] = ynab[u] /\ touched'[u] = touched[u]
    BY <1>2, <2>1, ChangedFacts
  <2>3. Alone(o, u)
    BY <2>2 DEF Alone, u
  <2>4. ynab[u] = Plan[e.plan][j].after
    BY <2>3 DEF Holds, u
  <2> QED
    BY <2>2, <2>4 DEF u
<1>4. CASE Plan[e.plan][j].target = t
  <2>1. touched'[t] = touched[t] \cup {w.op} /\ ynab'[t] = Written(ynab[t], StepOf(w))
    BY <1>2, ChangedFacts
  <2>2. o = w.op /\ Alone(o, t)
    BY <1>4, <2>1 DEF Alone
  <2>3. e.plan = w.plan
    BY <2>2
  <2>4. j = w.at
    BY <1>1, <1>4, <2>3, RequestFacts, PlanAssumption DEF StepOf
  <2>5. ynab[t] = StepOf(w).after
    BY <1>4, <2>2, <2>3, <2>4 DEF Holds, StepOf
  <2>6. Written(StepOf(w).after, StepOf(w)) = StepOf(w).after
    <3>1. PICK x \in Value : x = Start[StepOf(w).target]
      BY <1>2, PlanAssumption
    <3>2. w.plan \in PlanId /\ w.at \in DOMAIN Plan[w.plan]
      BY RequestFacts
    <3>3. Written(Plan[w.plan][w.at].after, Plan[w.plan][w.at]) = Plan[w.plan][w.at].after
      BY <3>1, <3>2, WriteIsAbsolute
    <3> QED
      BY <3>3 DEF StepOf
  <2> QED
    BY <1>4, <2>1, <2>3, <2>4, <2>5, <2>6 DEF StepOf
<1> QED
  BY <1>3, <1>4

\* An edit made outside leaves nobody alone with its target.
LEMMA EditHolds ==
    ASSUME TypeOK, NEW t \in Target, NEW v, Changed(t, v, User),
           NEW o \in OpId, NEW e \in Entry, Holds(o, e)
    PROVE  Holds(o, e)'
<1> SUFFICES ASSUME NEW j \in DOMAIN e.steps, e.steps[j].verified,
                    Alone(o, Plan[e.plan][j].target)'
             PROVE  ynab'[Plan[e.plan][j].target] = Plan[e.plan][j].after
  BY DEF Holds
<1>1. Plan[e.plan][j].target \in Target
  BY EntryPlan, PlanTypes DEF PlanStep
<1>2. o # User
  BY PlanAssumption
<1>3. Plan[e.plan][j].target # t
  BY <1>2, ChangedFacts DEF Alone
<1> QED
  BY <1>1, <1>3, ChangedFacts DEF Holds, Alone

-----------------------------------------------------------------------------
(* Every action keeps the truth of the outcome.                            *)

\* What is left to show when one call changes and nothing else.
LEMMA LocalTruth ==
    ASSUME IInv, Truth, NEW r \in Runner, NEW d, Becomes(r, d),
           UNCHANGED <<journal, ynab, history>>,
           d = NoCall \/ Truthful(d)
    PROVE  Truth'
<1>1. \A q \in Runner : call'[q] = IF q = r THEN d ELSE call[q]
  BY DEF IInv, TypeOK, Becomes
<1>2. ynab' = ynab /\ touched' = touched /\ sent' = sent /\ journal' = journal
  BY DEF history
<1>3. \A o, e : Holds(o, e)' <=> Holds(o, e)
  BY <1>2 DEF Holds, Alone
<1>4. \A o, p : HasCause(o, p)' <=> HasCause(o, p)
  BY <1>2 DEF HasCause, Alone
<1>5. JournalTruthful'
  <2> SUFFICES ASSUME NEW o \in OpId, NEW e, e = journal'[o], e # NoEntry
               PROVE  /\ Holds(o, e)'
                      /\ e.status = "conflict" => HasCause(o, e.plan)'
    BY <1>2 DEF JournalTruthful, Exists, Holds, HasCause, Alone
  <2> QED
    BY <1>2, <1>3, <1>4 DEF Truth, JournalTruthful, Exists
<1>6. CallsTruthful'
  <2> SUFFICES ASSUME NEW q \in Runner, NEW x, x = call'[q], x # NoCall
               PROVE  Truthful(x)'
    BY <1>2 DEF CallsTruthful, Truthful, Holds, HasCause, Alone, Stale
  <2>1. Truthful(x)
    BY <1>1 DEF Truth, CallsTruthful
  <2> QED
    BY <1>2, <1>3, <1>4, <2>1 DEF Truthful, Stale
<1>7. SentCounted' /\ TouchedBySent' /\ Untouched' /\ OwnWork'
  BY <1>2 DEF Truth, SentCounted, TouchedBySent, Untouched, OwnWork, StepOf
<1> QED
  BY <1>5, <1>6, <1>7 DEF Truth

\* A call that goes on with its copy as it is stays truthful.
LEMMA SameCopy ==
    ASSUME NEW c, NEW d, Truthful(c),
           d.op = c.op, d.known = c.known, d.entry = c.entry
    PROVE  Truthful(d)
BY DEF Truthful, Stale

\* A call may record as verified what it has just read, and as a conflict what
\* has a cause, or what its save will not make durable.
LEMMA PutTruthful ==
    ASSUME NEW c \in Call, Truthful(c), c.known > 0,
           NEW j \in DOMAIN c.entry.steps, NEW b, b = c \/ b = Sees(c, j),
           NEW step \in StepState, NEW es \in EntryStatus,
           NEW p \in Label, NEW i \in Nat,
           step.verified => Mine(c, j).verified \/ Observed(c, j) = Here(c, j).after,
           es = "conflict" => \/ c.entry.status = "conflict"
                              \/ HasCause(c.op, c.entry.plan)
                              \/ Stale(c)
    PROVE  Truthful(SaveThen(Put(b, j, step, es), p, i))
<1> DEFINE x == Put(b, j, step, es)
           d == SaveThen(x, p, i)
<1>1. b \in Call /\ b.op = c.op /\ b.known = c.known /\ b.entry = c.entry
  BY SeesFacts
<1>2. /\ x \in Call /\ x.op = c.op /\ x.known = c.known
      /\ x.entry.plan = c.entry.plan /\ x.entry.status = es
      /\ DOMAIN x.entry.steps = DOMAIN c.entry.steps
      /\ x.entry.steps[j] = step
      /\ \A k \in DOMAIN c.entry.steps : k # j => x.entry.steps[k] = c.entry.steps[k]
  BY <1>1, PutFacts
<1> HIDE DEF x
<1>3. d.op = c.op /\ d.known = c.known /\ d.entry = x.entry
  BY <1>2, SaveThenFacts
<1> HIDE DEF d
<1>4. Holds(d.op, d.entry)
  <2> DEFINE P == Plan[c.entry.plan]
  <2>a. d.entry.plan = c.entry.plan /\ d.op = c.op /\ d.entry.steps = x.entry.steps
    BY <1>2, <1>3
  <2>b. DOMAIN d.entry.steps = DOMAIN c.entry.steps
    BY <1>2, <2>a
  <2> SUFFICES ASSUME NEW k \in DOMAIN c.entry.steps, x.entry.steps[k].verified, Alone(c.op, P[k].target)
               PROVE  ynab[P[k].target] = P[k].after
    BY <2>a, <2>b DEF Holds
  <2>1. CASE c.entry.steps[k].verified
    BY <2>1 DEF Truthful, Holds
  <2>2. CASE ~c.entry.steps[k].verified
    <3>1. k = j /\ step.verified
      BY <1>2, <2>2
    <3> QED
      BY <2>2, <3>1 DEF Mine, Observed, Here
  <2> QED
    BY <2>1, <2>2
<1>5. es = "conflict" => HasCause(d.op, d.entry.plan) \/ Stale(d)
  BY <1>2, <1>3 DEF Truthful, Stale
<1>6. d.known > 0 /\ d.known \in Nat
  BY <1>3 DEF Call
<1>7. Truthful(d)
  BY <1>2, <1>3, <1>4, <1>5, <1>6 DEF Truthful
<1> QED
  BY <1>7 DEF d, x

\* A call that finishes with another status than a conflict stays truthful.
LEMMA FinishTruthful ==
    ASSUME NEW c \in Call, Truthful(c), c.known > 0, NEW es \in EntryStatus \ {"conflict"}
    PROVE  Truthful(Finish(c, es))
<1> DEFINE d == Finish(c, es)
<1>1. /\ d.op = c.op /\ d.known = c.known
      /\ d.entry.plan = c.entry.plan /\ d.entry.status = es
      /\ d.entry.steps = c.entry.steps
  BY FinishFacts
<1> HIDE DEF d
<1>2. Truthful(d)
  BY <1>1 DEF Truthful, Holds, Call
<1> QED
  BY <1>2 DEF d

\* A step of a loop keeps the truth if its call stays truthful.
LEMMA LoopTruth ==
    ASSUME IInv, Truth, NEW r \in Runner, NEW d, Truthful(d),
           Succeeds(r, d) \/ ReadFails(r, d)
    PROVE  Truth'
BY LocalTruth DEF Succeeds, ReadFails, Loop

\* What is known of a call inside its loops.
LEMMA LoopFacts ==
    ASSUME IInv, NEW r \in Runner, call[r].pc \notin {"idle", "save"}
    PROVE  LET c == call[r] IN
           /\ TypeOK /\ c \in Call /\ Good(c, journal)
           /\ c.known \in Nat /\ c.known > 0 /\ c.op \in OpId
           /\ c.entry.plan \in PlanId /\ c.entry.status \in EntryStatus
           /\ DOMAIN c.entry.steps = DOMAIN Plan[c.entry.plan]
           /\ \A k \in DOMAIN c.entry.steps : k \in Nat /\ Mine(c, k) \in StepState
           /\ journal[c.op] \in Entry /\ Exists(c.op)
           /\ journal[c.op].plan = c.entry.plan
           /\ DOMAIN journal[c.op].steps = DOMAIN c.entry.steps
<1> DEFINE c == call[r]
<1>1. TypeOK /\ c \in Call /\ Good(c, journal) /\ c.pc \notin {"idle", "save"}
  BY Running DEF IInv
<1> HIDE DEF c
<1>2. c.known \in Nat /\ c.known > 0 /\ c.op \in OpId
  BY <1>1 DEF Good, Based, Call
<1>3. /\ c.entry.plan \in PlanId /\ c.entry.status \in EntryStatus
      /\ DOMAIN c.entry.steps = DOMAIN Plan[c.entry.plan]
  BY <1>1, EntryPlan DEF Call, EntryOf
<1>4. \A k \in DOMAIN c.entry.steps : k \in Nat /\ Mine(c, k) \in StepState
  BY <1>1, <1>3, PlanTypes, StepTypes DEF Call, Mine
<1>5. journal[c.op] \in Entry /\ Exists(c.op) /\ journal[c.op].plan = c.entry.plan
  BY <1>1, <1>2 DEF Good, Based, TypeOK, Exists
<1>6. DOMAIN journal[c.op].steps = DOMAIN c.entry.steps
  BY <1>3, <1>5, EntryPlan
<1> QED
  BY <1>1, <1>2, <1>3, <1>4, <1>5, <1>6 DEF c

\* It is truthful, too.
LEMMA LoopTruthful ==
    ASSUME IInv, Truth, NEW r \in Runner, call[r].pc \notin {"idle", "save"}
    PROVE  Truthful(call[r])
BY NoCallDiffers DEF Truth, CallsTruthful

\* Without a cause a call finds its targets before or after its step, and
\* after it only by an attempt its copy counts, unless it is stale.
LEMMA WithoutCause ==
    ASSUME IInv, Truth, NEW r \in Runner, call[r].pc \notin {"idle", "save"},
           NEW j \in DOMAIN call[r].entry.steps,
           ~HasCause(call[r].op, call[r].entry.plan)
    PROVE  LET c == call[r] IN
           \/ Observed(c, j) = Here(c, j).before
           \/ /\ Observed(c, j) = Here(c, j).after
              /\ ~Stale(c) => Mine(c, j).attempts > 0
<1> DEFINE c == call[r]
           t == Here(c, j).target
<1>1. /\ TypeOK /\ c \in Call /\ Good(c, journal) /\ c.pc # "save"
      /\ c.known \in Nat /\ c.known > 0 /\ c.op \in OpId
      /\ c.entry.plan \in PlanId /\ j \in DOMAIN Plan[c.entry.plan]
      /\ DOMAIN c.entry.steps = DOMAIN Plan[c.entry.plan]
      /\ \A k \in DOMAIN c.entry.steps : k \in Nat /\ Mine(c, k) \in StepState
      /\ journal[c.op] \in Entry /\ Exists(c.op)
      /\ journal[c.op].plan = c.entry.plan
      /\ DOMAIN journal[c.op].steps = DOMAIN c.entry.steps
  BY LoopFacts
<1>2. Here(c, j) \in PlanStep /\ t \in Target
  BY <1>1, PlanTypes DEF Here, PlanStep
<1>3. touched[t] \subseteq {c.op} /\ Start[t] = Here(c, j).before
  BY <1>1 DEF HasCause, Alone, Here
<1> HIDE DEF c
<1>4. CASE touched[t] = {}
  BY <1>2, <1>3, <1>4 DEF Truth, Untouched, Observed, c
<1>5. CASE c.op \in touched[t]
  <2>1. PICK w \in sent : w.op = c.op /\ StepOf(w).target = t
    BY <1>1, <1>2, <1>5 DEF Truth, TouchedBySent
  <2>2. w \in Request /\ Journaled(w) /\ w.attempt > 0
    BY <2>1 DEF IInv, TypeOK, IntentBeforeWrite, Truth, SentCounted
  <2>3. w.plan = c.entry.plan /\ w.attempt \in Nat /\ w.at \in DOMAIN Plan[w.plan]
    BY <1>1, <2>1, <2>2, RequestFacts DEF Journaled
  <2>4. w.at = j
    BY <1>1, <2>1, <2>3, PlanAssumption DEF StepOf, Here
  <2>5. StepOf(w) = Here(c, j)
    BY <2>3, <2>4 DEF StepOf, Here
  <2>6. touched[t] = {w.op}
    BY <1>3, <1>5, <2>1
  <2>7. ynab[t] = Written(Start[t], Here(c, j))
    BY <2>1, <2>5, <2>6 DEF Truth, OwnWork
  <2>8. Start[t] \in Value /\ Written(Here(c, j).before, Here(c, j)) = Here(c, j).after
    <3>1. Start[t] \in Value
      BY <1>2, PlanAssumption
    <3>2. c.entry.plan \in PlanId /\ j \in DOMAIN Plan[c.entry.plan]
      BY <1>1
    <3>3. Written(Plan[c.entry.plan][j].before, Plan[c.entry.plan][j]) = Plan[c.entry.plan][j].after
      BY <3>1, <3>2, WriteIsAbsolute
    <3> QED
      BY <3>1, <3>3 DEF Here
  <2>9. Observed(c, j) = Here(c, j).after
    BY <1>3, <2>7, <2>8 DEF Observed
  <2>10. ASSUME ~Stale(c) PROVE Mine(c, j).attempts > 0
    <3>1. journal[c.op].revision \in Nat /\ journal[c.op].steps[j].attempts \in Nat
      BY <1>1, EntryPlan, StepTypes DEF EntryOf, StepState
    <3>2. journal[c.op].revision = c.known
      BY <1>1, <2>10, <3>1 DEF Stale, Good, Based
    <3>3. Agrees(c, journal[c.op])
      BY <1>1, <3>2 DEF Good, Based
    <3>4. c.entry.steps[j].attempts = journal[c.op].steps[j].attempts
      BY <1>1, <3>1, <3>3 DEF Agrees, Pending
    <3>5. w.attempt <= journal[c.op].steps[j].attempts
      BY <2>1, <2>2, <2>4 DEF Journaled
    <3> QED
      BY <2>2, <2>3, <3>1, <3>4, <3>5 DEF Mine
  <2> QED
    BY <2>9, <2>10 DEF c
<1> QED
  BY <1>3, <1>4, <1>5 DEF c

\* Opening an entry keeps the truth.
LEMMA OpenTruth ==
    ASSUME IInv, Truth, NEW r \in Runner, Calls(r)
    PROVE  Truth'
<1>1. ASSUME NEW o \in OpId, NEW d, Opens(r, d), Truthful(d)
      PROVE  Truth'
  BY <1>1, LocalTruth DEF Opens
<1>2. ASSUME NEW o \in OpId, journal[o] # NoEntry
      PROVE  /\ Truthful(Opened(o, journal[o])) /\ Opened(o, journal[o]) \in Call
  <2>1. journal[o] \in Entry /\ journal[o].revision > 0 /\ journal[o].revision \in Nat
    BY <1>2, EntryPlan DEF IInv, TypeOK, EntriesEvident, Exists, EntryOf
  <2>2. Opened(o, journal[o]) \in Call
    BY <2>1 DEF Opened, Call, Label
  <2> QED
    BY <1>2, <2>1, <2>2 DEF Opened, Truthful, Truth, JournalTruthful, Exists
<1>3. ASSUME NEW o \in OpId, NEW p \in PlanId, RunNew(r, o, p)
      PROVE  Truth'
  <2> DEFINE e == NewEntry(r, p)
             d == SaveThen(Opened(o, e), "verify", 1)
  <2>1. e \in EntryOf(p)
    BY PlanAssumption DEF NewEntry, EntryOf, EntryStatus, StepState, StepStatus
  <2>2. /\ e \in Entry /\ e.revision = 0 /\ e.status = "prepared"
        /\ \A j \in DOMAIN e.steps : e.steps[j].verified = FALSE
    BY <2>1 DEF Entry, NewEntry
  <2>3. Opens(r, d)
    BY <1>3 DEF RunNew
  <2> HIDE DEF e
  <2>4. Opened(o, e) \in Call /\ Opened(o, e).entry = e /\ Opened(o, e).known = 0
        /\ Opened(o, e).op = o
    BY <2>2 DEF Opened, Call, Label
  <2>v. "verify" \in Label /\ 1 \in Nat
    BY DEF Label
  <2>5. d.entry = e /\ d.known = 0 /\ d.op = o
    BY <2>4, <2>v, SaveThenFacts
  <2> HIDE DEF d
  <2>6. Truthful(d)
    BY <2>2, <2>5 DEF Truthful, Holds
  <2> QED
    BY <1>1, <2>3, <2>6
<1>4. ASSUME NEW o \in OpId, NEW p \in PlanId, RunAgain(r, o, p)
      PROVE  Truth'
  BY <1>1, <1>2, <1>4 DEF RunAgain, InScope
<1>5. ASSUME NEW o \in OpId, Resume(r, o)
      PROVE  Truth'
  <2> DEFINE c == Opened(o, journal[o])
             e == [c.entry EXCEPT !.rebound = @ \cup {r}]
             x == [c EXCEPT !.entry = e]
             d == SaveThen(x, "verify", 1)
  <2>1. c \in Call /\ Truthful(c)
    BY <1>2, <1>5 DEF Resume, InScope
  <2>2. \/ Opens(r, c)
        \/ Opens(r, SaveThen([c EXCEPT !.entry.rebound = @ \cup {r}], "verify", 1))
    BY <1>5 DEF Resume
  <2> HIDE DEF c
  <2>3. [c EXCEPT !.entry.rebound = @ \cup {r}] = x
    BY <2>1 DEF Call
  <2>4. e \in EntryOf(c.entry.plan) /\ c.entry.plan \in PlanId
    BY <2>1, EntryPlan DEF EntryOf, Call
  <2>5. e \in Entry
    BY <2>4 DEF Entry
  <2>6. e.plan = c.entry.plan /\ e.steps = c.entry.steps /\ e.status = c.entry.status
    BY <2>1, EntryPlan DEF EntryOf, Call
  <2> HIDE DEF e
  <2>7. x \in Call /\ x.op = c.op /\ x.known = c.known /\ x.entry = e
    BY <2>1, <2>5 DEF Call
  <2> HIDE DEF x
  <2>v. "verify" \in Label /\ 1 \in Nat
    BY DEF Label
  <2>8. d.op = c.op /\ d.known = c.known /\ d.entry = e
    BY <2>7, <2>v, SaveThenFacts
  <2>9. Opens(r, c) \/ Opens(r, d)
    BY <2>2, <2>3
  <2> HIDE DEF d
  <2>10. Truthful(d)
    BY <2>1, <2>6, <2>8 DEF Truthful, Holds, Stale
  <2> QED
    BY <1>1, <2>1, <2>9, <2>10
<1> QED
  BY <1>3, <1>4, <1>5 DEF Calls

\* A step of the verify loop keeps the truth: what was verified and no longer
\* holds has been changed by somebody else.
LEMMA VerifyTruth ==
    ASSUME IInv, Truth, NEW r \in Runner, NEW j \in StepNo, VerifyStep(r, j)
    PROVE  Truth'
<1> DEFINE c == call[r]
<1>1. /\ TypeOK /\ c \in Call /\ Good(c, journal) /\ Truthful(c)
      /\ c.known \in Nat /\ c.known > 0
      /\ c.entry.plan \in PlanId /\ c.entry.status \in EntryStatus
      /\ DOMAIN c.entry.steps = DOMAIN Plan[c.entry.plan]
      /\ \A k \in DOMAIN c.entry.steps : k \in Nat /\ Mine(c, k) \in StepState
  BY LoopFacts, LoopTruthful DEF VerifyStep, At
<1>2. IsFirst(j, ToVerify(c))
  BY DEF VerifyStep
<1>3. \/ ReadFails(r, Unavailable(c))
      \/ /\ Observed(c, j) # Here(c, j).after
         /\ Succeeds(r, StopAt(c, j, "conflict", "conflict"))
      \/ Succeeds(r, Goto(Sees(c, j), "verify", j + 1))
      \/ /\ Mine(c, j).verified
         /\ Succeeds(r, SaveThen(Mark(Sees(c, j), j, "applied", c.entry.status),
                                 "verify", j + 1))
  BY <1>2 DEF VerifyStep, IsFirst, ToVerify
<1> HIDE DEF c
<1>4. j \in DOMAIN c.entry.steps /\ Mine(c, j) \in StepState /\ j \in Nat /\ j + 1 \in Nat
  BY <1>1, <1>2 DEF IsFirst, ToVerify, Ahead
<1>5. Mine(c, j).verified
  BY <1>1, <1>2, <1>4 DEF IsFirst, ToVerify, Good, Evident, Mine
<1>6. CASE ReadFails(r, Unavailable(c))
  BY <1>1, <1>6, FinishTruthful, LoopTruth DEF Unavailable, EntryStatus
<1>7. CASE /\ Observed(c, j) # Here(c, j).after
           /\ Succeeds(r, StopAt(c, j, "conflict", "conflict"))
  <2> DEFINE s == [Mine(c, j) EXCEPT !.status = "conflict"]
  <2>1. s \in StepState /\ s.verified = Mine(c, j).verified
    BY <1>4 DEF StepState, StepStatus
  <2> HIDE DEF s
  <2>2. HasCause(c.op, c.entry.plan)
    BY <1>1, <1>4, <1>5, <1>7 DEF Truthful, Holds, HasCause, Mine, Observed, Here
  <2>3. "conflict" \in EntryStatus /\ "return" \in Label /\ 1 \in Nat
    BY DEF EntryStatus, Label
  <2>4. Truthful(SaveThen(Put(c, j, s, "conflict"), "return", 1))
    BY <1>1, <1>4, <2>1, <2>2, <2>3, PutTruthful
  <2> QED
    BY <1>7, <2>4, LoopTruth DEF StopAt, Mark, s
<1>8. CASE Succeeds(r, Goto(Sees(c, j), "verify", j + 1))
  <2> DEFINE b == Sees(c, j)
  <2>1. b \in Call /\ b.op = c.op /\ b.known = c.known /\ b.entry = c.entry
    BY <1>1, <1>4, SeesFacts
  <2> HIDE DEF b
  <2>v. "verify" \in Label
    BY DEF Label
  <2>2. LET d == Goto(b, "verify", j + 1) IN
        d.op = c.op /\ d.known = c.known /\ d.entry = c.entry
    BY <1>4, <2>1, <2>v, GotoFacts
  <2> QED
    BY <1>1, <1>8, <2>2, SameCopy, LoopTruth DEF b
<1>9. CASE Succeeds(r, SaveThen(Mark(Sees(c, j), j, "applied", c.entry.status),
                                "verify", j + 1))
  <2> DEFINE b == Sees(c, j)
             s == [Mine(b, j) EXCEPT !.status = "applied"]
  <2>1. Mine(b, j) = Mine(c, j)
    BY <1>1, <1>4, SeesFacts DEF Mine
  <2>2. s \in StepState /\ s.verified = Mine(c, j).verified
    BY <1>4, <2>1 DEF StepState, StepStatus
  <2> HIDE DEF s
  <2>3. "verify" \in Label
    BY DEF Label
  <2>4. Truthful(SaveThen(Put(b, j, s, c.entry.status), "verify", j + 1))
    BY <1>1, <1>4, <2>2, <2>3, PutTruthful
  <2> QED
    BY <1>9, <2>4, LoopTruth DEF Mark, s, b
<1> QED
  BY <1>3, <1>6, <1>7, <1>8, <1>9

\* Going from one loop to the next, or completing, keeps the truth.
LEMMA DoneTruth ==
    ASSUME IInv, Truth, NEW r \in Runner, VerifyDone(r) \/ CheckDone(r) \/ ApplyDone(r)
    PROVE  Truth'
<1> DEFINE c == call[r]
<1>1. c \in Call /\ Truthful(c) /\ c.known > 0
  BY LoopFacts, LoopTruthful DEF VerifyDone, CheckDone, ApplyDone, At
<1>2. \/ \E p \in {"check", "apply"} : Succeeds(r, Goto(c, p, 1))
      \/ Succeeds(r, Finish(c, "completed"))
  BY DEF VerifyDone, CheckDone, ApplyDone
<1> HIDE DEF c
<1>3. ASSUME NEW p \in {"check", "apply"}, Succeeds(r, Goto(c, p, 1))
      PROVE  Truth'
  <2>1. p \in Label /\ 1 \in Nat
    BY DEF Label
  <2>2. LET d == Goto(c, p, 1) IN
        d.op = c.op /\ d.known = c.known /\ d.entry = c.entry
    BY <1>1, <2>1, GotoFacts
  <2> QED
    BY <1>1, <1>3, <2>2, SameCopy, LoopTruth
<1>4. CASE Succeeds(r, Finish(c, "completed"))
  BY <1>1, <1>4, FinishTruthful, LoopTruth DEF EntryStatus
<1> QED
  BY <1>2, <1>3, <1>4

\* A call that stops with a conflict, or with another status, stays truthful.
LEMMA StopTruthful ==
    ASSUME NEW c \in Call, Truthful(c), c.known > 0,
           NEW j \in DOMAIN c.entry.steps, NEW st \in StepStatus, NEW es \in EntryStatus,
           es = "conflict" => HasCause(c.op, c.entry.plan) \/ Stale(c)
    PROVE  Truthful(StopAt(c, j, st, es))
<1> DEFINE s == [Mine(c, j) EXCEPT !.status = st]
<1>1. Mine(c, j) \in StepState
  BY StepTypes DEF Call, Mine
<1>2. s \in StepState /\ s.verified = Mine(c, j).verified
  BY <1>1 DEF StepState
<1> HIDE DEF s
<1>3. "return" \in Label /\ 1 \in Nat
  BY DEF Label
<1>4. Truthful(SaveThen(Put(c, j, s, es), "return", 1))
  BY <1>2, <1>3, PutTruthful
<1> QED
  BY <1>4 DEF StopAt, Mark, s

\* A call that has read the after-state and records the step stays truthful.
LEMMA AppliedTruthful ==
    ASSUME NEW c \in Call, Truthful(c), c.known > 0,
           NEW j \in DOMAIN c.entry.steps, j \in Nat,
           NEW b, b = c \/ b = Sees(c, j),
           NEW es \in EntryStatus, NEW p \in {"check", "apply"},
           Observed(c, j) = Here(c, j).after,
           es = "conflict" => c.entry.status = "conflict"
    PROVE  Truthful(SaveThen(Applied(b, j, es), p, j + 1))
<1> DEFINE s == [status |-> "applied", attempts |-> Mine(b, j).attempts,
                 verified |-> TRUE]
<1>1. Mine(c, j) \in StepState /\ Mine(b, j) = Mine(c, j)
  BY StepTypes, SeesFacts DEF Call, Mine
<1>2. s \in StepState
  BY <1>1 DEF StepState, StepStatus
<1> HIDE DEF s
<1>3. p \in Label /\ j + 1 \in Nat
  BY DEF Label
<1>4. Truthful(SaveThen(Put(b, j, s, es), p, j + 1))
  BY <1>2, <1>3, PutTruthful
<1> QED
  BY <1>4 DEF Applied, s

\* What the check and the apply loop know of their call and of their step.
LEMMA AtStepTruth ==
    ASSUME IInv, Truth, NEW r \in Runner, NEW j \in StepNo,
           At(r, "check") \/ At(r, "apply"), IsFirst(j, ToApply(call[r]))
    PROVE  /\ call[r] \in Call /\ Truthful(call[r]) /\ call[r].known > 0
           /\ call[r].pc \notin {"idle", "save"}
           /\ j \in DOMAIN call[r].entry.steps /\ j \in Nat /\ j + 1 \in Nat
           /\ Mine(call[r], j) \in StepState
           /\ call[r].entry.status \in EntryStatus
<1>1. /\ call[r] \in Call /\ Truthful(call[r]) /\ call[r].known > 0
      /\ call[r].entry.status \in EntryStatus
      /\ \A k \in DOMAIN call[r].entry.steps : k \in Nat /\ Mine(call[r], k) \in StepState
  BY LoopFacts, LoopTruthful DEF At
<1>2. j \in DOMAIN call[r].entry.steps /\ call[r].pc \notin {"idle", "save"}
  BY DEF At, IsFirst, ToApply, Ahead
<1> QED
  BY <1>1, <1>2

\* A call that meets a target neither before nor after its step has a cause,
\* or has missed an attempt and will not get its conflict saved.
LEMMA RecogniseTruth ==
    ASSUME IInv, Truth, NEW r \in Runner, NEW j \in StepNo, NEW loop \in {"check", "apply"},
           At(r, loop), IsFirst(j, ToApply(call[r])), Recognise(r, j, loop)
    PROVE  Truth'
<1> DEFINE c == call[r]
<1>1. /\ c \in Call /\ Truthful(c) /\ c.known > 0
      /\ c.pc \notin {"idle", "save"}
      /\ j \in DOMAIN c.entry.steps /\ j \in Nat
  BY AtStepTruth
<1>2. \/ /\ Reached(c, j)
         /\ Succeeds(r, SaveThen(Applied(Sees(c, j), j, "running"), loop, j + 1))
      \/ /\ ~Reached(c, j) /\ ~AtBefore(c, j)
         /\ Succeeds(r, StopAt(c, j, "conflict", "conflict"))
  BY DEF Recognise
<1>3. ASSUME ~Reached(c, j), ~AtBefore(c, j)
      PROVE  HasCause(c.op, c.entry.plan) \/ Stale(c)
  <2>1. Observed(c, j) # Here(c, j).before
    BY <1>3 DEF AtBefore
  <2>2. ~(Observed(c, j) = Here(c, j).after /\ Mine(c, j).attempts > 0)
    BY <1>3 DEF Reached
  <2> QED
    BY <1>1, <2>1, <2>2, WithoutCause
<1> HIDE DEF c
<1>4. CASE /\ Reached(c, j)
           /\ Succeeds(r, SaveThen(Applied(Sees(c, j), j, "running"), loop, j + 1))
  <2>1. "running" \in EntryStatus /\ "running" # "conflict"
    BY DEF EntryStatus
  <2>2. Observed(c, j) = Here(c, j).after
    BY <1>4 DEF Reached
  <2>3. Truthful(SaveThen(Applied(Sees(c, j), j, "running"), loop, j + 1))
    BY <1>1, <2>1, <2>2, AppliedTruthful
  <2> QED
    BY <1>4, <2>3, LoopTruth
<1>5. CASE /\ ~Reached(c, j) /\ ~AtBefore(c, j)
           /\ Succeeds(r, StopAt(c, j, "conflict", "conflict"))
  <2>1. "conflict" \in EntryStatus /\ "conflict" \in StepStatus
    BY DEF EntryStatus, StepStatus
  <2>2. Truthful(StopAt(c, j, "conflict", "conflict"))
    BY <1>1, <1>3, <1>5, <2>1, StopTruthful
  <2> QED
    BY <1>5, <2>2, LoopTruth
<1> QED
  BY <1>2, <1>4, <1>5

\* A step of the check or of the apply loop keeps the truth.
LEMMA CheckTruth ==
    ASSUME IInv, Truth, NEW r \in Runner, NEW j \in StepNo,
           CheckStep(r, j) \/ ApplyStep(r, j)
    PROVE  Truth'
<1> DEFINE c == call[r]
           b == Sees(c, j)
<1>1. (At(r, "check") \/ At(r, "apply")) /\ IsFirst(j, ToApply(c))
  BY DEF CheckStep, ApplyStep
<1>2. /\ c \in Call /\ Truthful(c) /\ c.known > 0
      /\ j \in DOMAIN c.entry.steps /\ j \in Nat /\ j + 1 \in Nat
      /\ Mine(c, j) \in StepState
  BY <1>1, AtStepTruth
<1>3. \/ ReadFails(r, Unavailable(c))
      \/ \E loop \in {"check", "apply"} : At(r, loop) /\ Recognise(r, j, loop)
      \/ Succeeds(r, Goto(b, "check", j + 1))
      \/ Succeeds(r, SaveThen(Intent(b, j), "write", j))
  BY DEF CheckStep, ApplyStep
<1>4. CASE \E loop \in {"check", "apply"} : At(r, loop) /\ Recognise(r, j, loop)
  BY <1>1, <1>4, RecogniseTruth
<1> HIDE DEF c
<1>5. /\ b \in Call /\ b.op = c.op /\ b.known = c.known /\ b.entry = c.entry
      /\ Mine(b, j) = Mine(c, j)
  BY <1>2, SeesFacts DEF Mine
<1>6. "check" \in Label /\ "write" \in Label /\ "running" \in EntryStatus
      /\ "running" # "conflict" /\ "intent" \in StepStatus
  BY DEF Label, EntryStatus, StepStatus
<1>7. CASE ReadFails(r, Unavailable(c))
  BY <1>2, <1>7, FinishTruthful, LoopTruth DEF Unavailable, EntryStatus
<1>8. CASE Succeeds(r, Goto(b, "check", j + 1))
  <2> HIDE DEF b
  <2> DEFINE d == Goto(b, "check", j + 1)
  <2>1. b \in Call /\ "check" \in Label /\ j + 1 \in Nat
    BY <1>2, <1>5, <1>6
  <2>2. d.op = b.op /\ d.known = b.known /\ d.entry = b.entry
    BY <2>1, GotoFacts
  <2>3. d.op = c.op /\ d.known = c.known /\ d.entry = c.entry
    BY <1>5, <2>2
  <2>4. Truthful(c)
    BY <1>2
  <2> HIDE DEF d
  <2>5. Truthful(d)
    BY <2>3, <2>4, SameCopy, Zenon
  <2> QED
    BY <1>8, <2>5, LoopTruth DEF d
<1>9. CASE Succeeds(r, SaveThen(Intent(b, j), "write", j))
  <2> DEFINE s == [status |-> "intent", attempts |-> Mine(b, j).attempts + 1,
                   verified |-> Mine(b, j).verified]
  <2>1. s \in StepState /\ s.verified = Mine(c, j).verified
    BY <1>2, <1>5, <1>6 DEF StepState
  <2> HIDE DEF s
  <2>2. Truthful(SaveThen(Put(b, j, s, "running"), "write", j))
    BY <1>2, <1>6, <2>1, PutTruthful
  <2> QED
    BY <1>9, <2>2, LoopTruth DEF Intent, s
<1> QED
  BY <1>3, <1>4, <1>7, <1>8, <1>9

\* The read after a write keeps the truth.
LEMMA ReadBackTruth ==
    ASSUME IInv, Truth, NEW r \in Runner, ReadBack(r)
    PROVE  Truth'
<1> DEFINE c == call[r]
           j == c.at
<1>1. /\ c \in Call /\ Truthful(c) /\ c.known > 0 /\ Good(c, journal)
      /\ c.entry.status \in EntryStatus /\ c.pc = "readback"
      /\ \A k \in DOMAIN c.entry.steps : k \in Nat
  BY LoopFacts, LoopTruthful DEF ReadBack, At
<1>2. j \in DOMAIN c.entry.steps
  BY <1>1 DEF Good, Position, Placed
<1>3. \/ \E st \in StepStatus, es \in EntryStatus \ {"conflict"} :
            Succeeds(r, StopAt(c, j, st, es)) \/ ReadFails(r, StopAt(c, j, st, es))
      \/ /\ Observed(c, j) = Here(c, j).after
         /\ Succeeds(r, SaveThen(Applied(c, j, c.entry.status), "apply", j + 1))
      \/ /\ Observed(c, j) # Here(c, j).after /\ Observed(c, j) # Here(c, j).before
         /\ Succeeds(r, StopAt(c, j, "conflict", "conflict"))
  BY DEF ReadBack, StepStatus, EntryStatus
<1>4. ASSUME Observed(c, j) # Here(c, j).after, Observed(c, j) # Here(c, j).before
      PROVE  HasCause(c.op, c.entry.plan)
  BY <1>1, <1>2, <1>4, WithoutCause
<1> HIDE DEF c, j
<1>5. ASSUME NEW st \in StepStatus, NEW es \in EntryStatus \ {"conflict"},
             Succeeds(r, StopAt(c, j, st, es)) \/ ReadFails(r, StopAt(c, j, st, es))
      PROVE  Truth'
  BY <1>1, <1>2, <1>5, StopTruthful, LoopTruth
<1>6. CASE /\ Observed(c, j) = Here(c, j).after
           /\ Succeeds(r, SaveThen(Applied(c, j, c.entry.status), "apply", j + 1))
  <2>1. Truthful(SaveThen(Applied(c, j, c.entry.status), "apply", j + 1))
    BY <1>1, <1>2, <1>6, AppliedTruthful
  <2> QED
    BY <1>6, <2>1, LoopTruth
<1>7. CASE /\ Observed(c, j) # Here(c, j).after /\ Observed(c, j) # Here(c, j).before
           /\ Succeeds(r, StopAt(c, j, "conflict", "conflict"))
  <2>1. "conflict" \in EntryStatus /\ "conflict" \in StepStatus
    BY DEF EntryStatus, StepStatus
  <2>2. Truthful(StopAt(c, j, "conflict", "conflict"))
    BY <1>1, <1>2, <1>4, <1>7, <2>1, StopTruthful
  <2> QED
    BY <1>7, <2>2, LoopTruth
<1> QED
  BY <1>3, <1>5, <1>6, <1>7

\* A request that reaches YNAB, or is lost, or waits there, keeps what is known
\* of the targets.
LEMMA RequestGround ==
    ASSUME IInv, Truth, NEW w \in Request, Journaled(w), w.attempt > 0,
           sent' = sent \cup {w},
           \/ UNCHANGED <<ynab, touched>>
           \/ Changed(StepOf(w).target, Written(ynab[StepOf(w).target], StepOf(w)), w.op)
    PROVE  SentCounted' /\ TouchedBySent' /\ Untouched' /\ OwnWork'
<1> DEFINE t == StepOf(w).target
<1>1. TypeOK /\ t \in Target /\ w.op \in OpId /\ w.plan \in PlanId /\ w.at \in DOMAIN Plan[w.plan]
  BY RequestFacts DEF IInv
<1>2. \A v \in sent : v \in Request /\ Journaled(v)
  BY DEF IInv, TypeOK, IntentBeforeWrite
<1>3. SentCounted'
  BY DEF Truth, SentCounted
<1>4. \/ ynab' = ynab /\ touched' = touched
      \/ /\ touched'[t] = touched[t] \cup {w.op} /\ ynab'[t] = Written(ynab[t], StepOf(w))
         /\ \A u \in Target \ {t} : ynab'[u] = ynab[u] /\ touched'[u] = touched[u]
  BY <1>1, ChangedFacts
<1>5. TouchedBySent'
  <2> SUFFICES ASSUME NEW u \in Target, NEW o \in OpId, o \in touched'[u]
               PROVE  \E v \in sent' : v.op = o /\ StepOf(v).target = u
    BY DEF TouchedBySent, StepOf
  <2>1. o \in touched[u] \/ (u = t /\ o = w.op)
    BY <1>4
  <2>2. CASE o \in touched[u]
    BY <2>2 DEF Truth, TouchedBySent
  <2> QED
    BY <2>1, <2>2
<1>6. Untouched'
  <2> SUFFICES ASSUME NEW u \in Target, touched'[u] = {}
               PROVE  ynab'[u] = Start[u]
    BY DEF Untouched
  <2> QED
    BY <1>4 DEF Truth, Untouched
<1>7. ASSUME NEW v \in sent', StepOf(v).target = t, v.op = w.op, touched[t] = {w.op}
      PROVE  ynab[t] = Written(Start[t], StepOf(w))
  <2>1. PICK u \in sent : u.op = w.op /\ StepOf(u).target = t
    BY <1>1, <1>7 DEF Truth, TouchedBySent
  <2>2. StepOf(u) = StepOf(w)
    BY <1>2, <2>1, OneStepPerTarget
  <2> QED
    BY <1>7, <2>1, <2>2 DEF Truth, OwnWork
<1>8. OwnWork'
  <2> SUFFICES ASSUME NEW v \in sent', touched'[StepOf(v).target] = {v.op}
               PROVE  ynab'[StepOf(v).target] = Written(Start[StepOf(v).target], StepOf(v))
    BY DEF OwnWork, StepOf
  <2>1. v \in Request /\ Journaled(v) /\ StepOf(v).target \in Target
    BY <1>2, RequestFacts
  <2>2. CASE StepOf(v).target # t
    BY <1>4, <2>1, <2>2 DEF Truth, OwnWork
  <2>3. CASE StepOf(v).target = t /\ touched' = touched /\ ynab' = ynab
    <3>1. CASE v = w
      BY <1>7, <2>3, <3>1
    <3>2. CASE v \in sent
      BY <2>3, <3>2 DEF Truth, OwnWork
    <3> QED
      BY <3>1, <3>2
  <2>4. CASE /\ StepOf(v).target = t
             /\ touched'[t] = touched[t] \cup {w.op}
             /\ ynab'[t] = Written(ynab[t], StepOf(w))
    <3>1. v.op = w.op /\ (touched[t] = {} \/ touched[t] = {w.op})
      BY <2>4
    <3>2. StepOf(v) = StepOf(w)
      BY <2>1, <2>4, <3>1, OneStepPerTarget
    <3>3. ynab[t] = Start[t] \/ ynab[t] = Written(Start[t], StepOf(w))
      BY <1>1, <1>7, <2>4, <3>1 DEF Truth, Untouched
    <3>4. Start[t] \in Value
      BY <1>1, PlanAssumption
    <3>5. Written(Written(Start[t], StepOf(w)), StepOf(w)) = Written(Start[t], StepOf(w))
      BY <1>1, <3>4, WriteIsAbsolute DEF StepOf
    <3> QED
      BY <2>4, <3>2, <3>3, <3>5
  <2> QED
    BY <1>4, <2>2, <2>3, <2>4
<1> QED
  BY <1>3, <1>5, <1>6, <1>8

\* It keeps what entries and copies say, too.
LEMMA RequestTruth ==
    ASSUME IInv, Truth, NEW w \in Request, Journaled(w), w.attempt > 0,
           sent' = sent \cup {w}, journal' = journal,
           \/ UNCHANGED <<ynab, touched>>
           \/ Changed(StepOf(w).target, Written(ynab[StepOf(w).target], StepOf(w)), w.op),
           \A q \in Runner : call'[q] # NoCall =>
               /\ call[q] # NoCall
               /\ call'[q].op = call[q].op /\ call'[q].known = call[q].known
               /\ call'[q].entry = call[q].entry
    PROVE  Truth'
<1>1. TypeOK /\ StepOf(w).target \in Target
  BY RequestFacts DEF IInv
<1>2. ASSUME NEW o \in OpId, NEW e \in Entry, Holds(o, e),
             \/ o = w.op => e.plan = w.plan
             \/ \A j \in DOMAIN e.steps : ~e.steps[j].verified
      PROVE  Holds(o, e)'
  <2>1. CASE UNCHANGED <<ynab, touched>>
    BY <1>2, <2>1 DEF Holds, Alone
  <2>2. CASE Changed(StepOf(w).target, Written(ynab[StepOf(w).target], StepOf(w)), w.op)
    BY <1>1, <1>2, <2>2, WriteHolds
  <2> QED
    BY <2>1, <2>2
<1>3. ASSUME NEW o \in OpId, NEW p \in PlanId, HasCause(o, p)
      PROVE  HasCause(o, p)'
  <2>1. CASE UNCHANGED <<ynab, touched>>
    BY <1>3, <2>1 DEF HasCause, Alone
  <2>2. CASE Changed(StepOf(w).target, Written(ynab[StepOf(w).target], StepOf(w)), w.op)
    BY <1>1, <1>3, <2>2, CauseStays
  <2> QED
    BY <2>1, <2>2
<1>4. JournalTruthful'
  <2> SUFFICES ASSUME NEW o \in OpId, journal'[o] # NoEntry
               PROVE  /\ Holds(o, journal[o])'
                      /\ (journal[o].status = "conflict" => HasCause(o, journal[o].plan))'
    BY Zenon DEF JournalTruthful, Exists
  <2>0. PICK e : e = journal[o] /\ e = journal'[o] /\ e # NoEntry
    OBVIOUS
  <2>1. e \in Entry /\ e.plan \in PlanId
    <3>1. journal[o] \in Entry \cup {NoEntry}
      BY <1>1 DEF TypeOK
    <3>2. e \in Entry
      BY <2>0, <3>1
    <3> QED
      BY <3>2, EntryPlan
  <2>2. o = w.op => e.plan = w.plan
    BY <2>0 DEF Journaled
  <2>3. Holds(o, e) /\ (e.status = "conflict" => HasCause(o, e.plan))
    BY <2>0 DEF Truth, JournalTruthful, Exists
  <2>4. Holds(o, e)' /\ (e.status = "conflict" => HasCause(o, e.plan)')
    BY <1>2, <1>3, <2>1, <2>2, <2>3
  <2> QED
    BY <2>0, <2>4 DEF Holds, HasCause, Alone
<1>5. CallsTruthful'
  <2> SUFFICES ASSUME NEW q \in Runner, NEW x, x = call'[q], x # NoCall
               PROVE  Truthful(x)'
    BY DEF CallsTruthful, Truthful, Holds, HasCause, Alone, Stale
  <2>1. PICK c : c = call[q]
    OBVIOUS
  <2>2. /\ c # NoCall /\ x.op = c.op /\ x.known = c.known /\ x.entry = c.entry
    BY <2>1
  <2>3. c \in Call /\ Good(c, journal) /\ Truthful(c)
    BY <1>1, <2>1, <2>2 DEF TypeOK, IInv, CallsGood, Truth, CallsTruthful
  <2>4. c.op \in OpId /\ c.entry \in Entry /\ c.entry.plan \in PlanId /\ c.known \in Nat
    BY <2>3, EntryPlan DEF Call
  <2>5. \/ c.op = w.op => c.entry.plan = w.plan
        \/ \A j \in DOMAIN c.entry.steps : ~c.entry.steps[j].verified
    BY <2>3, <2>4 DEF Good, Based, Truthful, Journaled
  <2>6. Holds(c.op, c.entry)'
    BY <1>2, <2>3, <2>4, <2>5 DEF Truthful
  <2>7. HasCause(c.op, c.entry.plan) => HasCause(c.op, c.entry.plan)'
    BY <1>3, <2>4
  <2> QED
    BY <2>2, <2>3, <2>6, <2>7 DEF Truthful, Stale
<1> QED
  BY <1>4, <1>5, RequestGround DEF Truth

\* An edit made outside keeps the truth: nobody is alone with that target.
LEMMA EditTruth ==
    ASSUME IInv, Truth, NEW t \in Target, NEW v \in Value, ExternalEdit(t, v)
    PROVE  Truth'
<1>1. /\ TypeOK /\ Changed(t, v, User)
      /\ journal' = journal /\ call' = call /\ sent' = sent
  BY DEF ExternalEdit, IInv
<1>2. /\ touched'[t] = touched[t] \cup {User}
      /\ \A u \in Target \ {t} : ynab'[u] = ynab[u] /\ touched'[u] = touched[u]
  BY <1>1, ChangedFacts
<1>3. User \notin OpId
  BY PlanAssumption
<1>4. ASSUME NEW o \in OpId, NEW e \in Entry, Holds(o, e)
      PROVE  Holds(o, e)'
  BY <1>1, <1>4, EditHolds
<1>5. ASSUME NEW o \in OpId, NEW p \in PlanId, HasCause(o, p)
      PROVE  HasCause(o, p)'
  BY <1>1, <1>5, CauseStays
<1>6. JournalTruthful'
  <2> SUFFICES ASSUME NEW o \in OpId, NEW e, e = journal[o], e # NoEntry
               PROVE  Holds(o, e)' /\ (e.status = "conflict" => HasCause(o, e.plan)')
    BY <1>1 DEF JournalTruthful, Exists, Holds, HasCause, Alone
  <2>1. e \in Entry /\ e.plan \in PlanId
    BY <1>1, EntryPlan DEF TypeOK
  <2>2. Holds(o, e) /\ (e.status = "conflict" => HasCause(o, e.plan))
    BY DEF Truth, JournalTruthful, Exists
  <2> QED
    BY <1>4, <1>5, <2>1, <2>2
<1>7. CallsTruthful'
  <2> SUFFICES ASSUME NEW q \in Runner, NEW c, c = call[q], c # NoCall
               PROVE  Truthful(c)'
    BY <1>1 DEF CallsTruthful, Truthful, Holds, HasCause, Alone, Stale
  <2>1. c \in Call /\ Truthful(c)
    BY <1>1 DEF TypeOK, Truth, CallsTruthful
  <2>2. c.op \in OpId /\ c.entry \in Entry /\ c.entry.plan \in PlanId
    BY <2>1, EntryPlan DEF Call
  <2> QED
    BY <1>1, <1>4, <1>5, <2>1, <2>2 DEF Truthful, Stale
<1>8. SentCounted'
  BY <1>1 DEF Truth, SentCounted
<1>9. TouchedBySent'
  <2> SUFFICES ASSUME NEW u \in Target, NEW o \in OpId, o \in touched'[u]
               PROVE  \E w \in sent : w.op = o /\ StepOf(w).target = u
    BY <1>1 DEF TouchedBySent, StepOf
  <2>1. o \in touched[u]
    BY <1>2, <1>3
  <2> QED
    BY <2>1 DEF Truth, TouchedBySent
<1>10. Untouched'
  BY <1>2 DEF Truth, Untouched
<1>11. OwnWork'
  <2> SUFFICES ASSUME NEW w \in sent, touched'[StepOf(w).target] = {w.op}
               PROVE  ynab'[StepOf(w).target] = Written(Start[StepOf(w).target], StepOf(w))
    BY <1>1 DEF OwnWork, StepOf
  <2>1. StepOf(w).target \in Target /\ w.op \in OpId
    BY <1>1, RequestFacts DEF TypeOK
  <2>2. StepOf(w).target # t
    BY <1>2, <1>3, <2>1
  <2> QED
    BY <1>2, <2>1, <2>2 DEF Truth, OwnWork
<1> QED
  BY <1>6, <1>7, <1>8, <1>9, <1>10, <1>11 DEF Truth

\* A save makes durable what its call knows, if its revision is the latest;
\* what the other calls say is not affected, except that they become stale.
LEMMA PersistTruth ==
    ASSUME IInv, Truth, NEW r \in Runner, At(r, "save"), RevisionMatches(call[r]),
           Persist(call[r]), UNCHANGED <<ynab, history>>,
           NEW d, Becomes(r, d),
           \/ d = NoCall
           \/ /\ d.op = call[r].op /\ d.entry = NextEntry(call[r])
              /\ d.known = call[r].known + 1
    PROVE  Truth'
<1> DEFINE c == call[r]
           e == NextEntry(c)
<1>1. /\ c \in Call /\ Good(c, journal) /\ Truthful(c) /\ c.pc = "save" /\ TypeOK
      /\ RevisionMatches(c)
  BY Running, NoCallDiffers DEF At, IInv, Truth, CallsTruthful
<1>2. /\ e \in Entry /\ e.revision = c.known + 1 /\ e.plan = c.entry.plan
      /\ e.steps = c.entry.steps
      /\ journal'[c.op] = e
      /\ \A o \in OpId \ {c.op} : journal'[o] = journal[o]
  BY PersistFacts
<1>3. \A q \in Runner : call'[q] = IF q = r THEN d ELSE call[q]
  BY DEF IInv, TypeOK, Becomes
<1>4. d = NoCall \/ (d.op = c.op /\ d.entry = e /\ d.known = c.known + 1)
  OBVIOUS
<1> HIDE DEF c
<1>5. e.status = c.entry.status
  BY <1>1, EntryPlan DEF NextEntry, Call, EntryOf
<1>6. c.op \in OpId /\ c.known \in Nat /\ c.entry.plan \in PlanId
  BY <1>1, EntryPlan DEF Call
<1> HIDE DEF e
<1>7. ynab' = ynab /\ touched' = touched /\ sent' = sent
  BY DEF history
<1>8. \A o, x : Holds(o, x)' <=> Holds(o, x)
  BY <1>7 DEF Holds, Alone
<1>9. \A o, p : HasCause(o, p)' <=> HasCause(o, p)
  BY <1>7 DEF HasCause, Alone
<1>10. Holds(c.op, e)
  <2>1. Holds(c.op, c.entry)
    BY <1>1 DEF Truthful
  <2> QED
    BY <1>2, <2>1 DEF Holds
<1>11. e.status = "conflict" => HasCause(c.op, e.plan)
  BY <1>1, <1>2, <1>5, <1>6 DEF Truthful, Stale, RevisionMatches
<1>12. JournalTruthful'
  <2> SUFFICES ASSUME NEW o \in OpId, journal'[o] # NoEntry
               PROVE  /\ Holds(o, journal[o])'
                      /\ (journal[o].status = "conflict" => HasCause(o, journal[o].plan))'
    BY Zenon DEF JournalTruthful, Exists
  <2>0. PICK x : x = journal'[o] /\ x # NoEntry
    OBVIOUS
  <2>1. CASE o = c.op
    <3>1. x = e
      BY <1>2, <2>0, <2>1
    <3>2. Holds(o, x)' /\ (x.status = "conflict" => HasCause(o, x.plan)')
      BY <1>8, <1>9, <1>10, <1>11, <2>1, <3>1
    <3> QED
      BY <1>7, <2>0, <3>2 DEF Holds, HasCause, Alone
  <2>2. CASE o # c.op
    <3>1. x = journal[o]
      BY <1>2, <2>0, <2>2
    <3>2. Holds(o, x) /\ (x.status = "conflict" => HasCause(o, x.plan))
      BY <2>0, <3>1 DEF Truth, JournalTruthful, Exists
    <3>3. Holds(o, x)' /\ (x.status = "conflict" => HasCause(o, x.plan)')
      BY <1>8, <1>9, <3>2
    <3> QED
      BY <1>7, <2>0, <3>3 DEF Holds, HasCause, Alone
  <2> QED
    BY <2>1, <2>2
<1>13. ASSUME NEW x \in Call, Good(x, journal), Stale(x)
       PROVE  Stale(x)'
  <2>1. x.op \in OpId /\ x.known \in Nat
    BY DEF Call
  <2>2. CASE x.op # c.op
    BY <1>2, <1>13, <2>1, <2>2 DEF Stale
  <2>3. CASE x.op = c.op
    <3>1. journal[c.op] # NoEntry
      BY <1>13, <2>3 DEF Stale, Good, Based
    <3>2. journal[c.op].revision = c.known
      BY <1>1, <3>1 DEF RevisionMatches
    <3> QED
      BY <1>2, <1>6, <1>13, <2>1, <2>3, <3>2 DEF Stale
  <2> QED
    BY <2>2, <2>3
<1>14. CallsTruthful'
  <2> SUFFICES ASSUME NEW q \in Runner, NEW x, x = call'[q], x # NoCall
               PROVE  Truthful(x)'
    BY DEF CallsTruthful, Truthful, Holds, HasCause, Alone, Stale
  <2>1. CASE q = r
    <3>1. x.op = c.op /\ x.entry = e /\ x.known = c.known + 1
      BY <1>3, <1>4, <2>1
    <3> QED
      BY <1>2, <1>6, <1>8, <1>9, <1>10, <1>11, <3>1 DEF Truthful
  <2>2. CASE q # r
    <3>1. x \in Call /\ Good(x, journal) /\ Truthful(x)
      BY <1>1, <1>3, <2>2 DEF TypeOK, IInv, CallsGood, Truth, CallsTruthful
    <3>2. Stale(x) => Stale(x)'
      BY <1>13, <3>1
    <3> QED
      BY <1>8, <1>9, <3>1, <3>2 DEF Truthful
  <2> QED
    BY <2>1, <2>2
<1>15. SentCounted' /\ TouchedBySent' /\ Untouched' /\ OwnWork'
  BY <1>7 DEF Truth, SentCounted, TouchedBySent, Untouched, OwnWork, StepOf
<1> QED
  BY <1>12, <1>14, <1>15 DEF Truth

\* The end of a call, and a save, keep the truth.
LEMMA SaveTruth ==
    ASSUME IInv, Truth, NEW r \in Runner,
           \/ Return(r) \/ SaveConflict(r) \/ SaveFailed(r) \/ Crash(r)
           \/ SaveDurable(r)
    PROVE  Truth'
<1>1. CASE Return(r) \/ SaveConflict(r) \/ Crash(r)
  BY <1>1, LocalTruth DEF Return, SaveConflict, Crash
<1>2. CASE SaveFailed(r)
  <2>1. CASE UNCHANGED journal
    BY <1>2, <2>1, LocalTruth DEF SaveFailed
  <2>2. CASE RevisionMatches(call[r]) /\ Persist(call[r])
    BY <1>2, <2>2, PersistTruth DEF SaveFailed
  <2> QED
    BY <1>2, <2>1, <2>2 DEF SaveFailed
<1>3. CASE SaveDurable(r)
  <2> DEFINE c == call[r]
             d == Goto(Acknowledged(c), c.ret.pc, c.ret.at)
  <2>1. /\ At(r, "save") /\ RevisionMatches(c) /\ Persist(c) /\ Becomes(r, d)
        /\ UNCHANGED <<ynab, history>>
    BY <1>3 DEF SaveDurable
  <2>2. c \in Call /\ NextEntry(c) \in Entry
    BY <2>1, Running, PersistFacts DEF At
  <2>3. d.op = c.op /\ d.entry = NextEntry(c) /\ d.known = c.known + 1
    BY <2>2, GoesOnFacts
  <2> HIDE DEF d
  <2> QED
    BY <2>1, <2>3, PersistTruth
<1> QED
  BY <1>1, <1>2, <1>3

\* Sending a write keeps the truth, whatever becomes of it.
LEMMA WriteTruth ==
    ASSUME IInv, Truth, NEW r \in Runner, WriteStep(r)
    PROVE  Truth'
<1> DEFINE c == call[r]
           w == RequestOf(c, c.at)
           d == Goto(c, "readback", c.at)
<1>1. c \in Call /\ Good(c, journal) /\ c.pc = "write" /\ TypeOK
  BY Running DEF WriteStep, At, IInv
<1>2. w \in Request /\ Journaled(w)
  BY <1>1, RequestTyped DEF IInv, IntentBeforeWrite, WriteStep
<1>3. /\ sent' = sent \cup {w} /\ call' = [call EXCEPT ![r] = d]
      /\ journal' = journal
      /\ \/ UNCHANGED <<ynab, touched>>
         \/ Changed(Here(c, c.at).target,
                    Written(ynab[Here(c, c.at).target], Here(c, c.at)), c.op)
  BY DEF WriteStep, Becomes
<1>4. StepOf(w) = Here(c, c.at) /\ w.op = c.op /\ w.attempt = Mine(c, c.at).attempts
  BY DEF StepOf, RequestOf, Here
<1>5. w.attempt > 0
  BY <1>1, <1>4 DEF Good, Position, Placed, Mine
<1>6. d.op = c.op /\ d.known = c.known /\ d.entry = c.entry /\ c # NoCall
  <2>1. c.at \in Nat /\ "readback" \in Label /\ c # NoCall
    BY <1>1, NoCallDiffers DEF Call, Label
  <2> QED
    BY <1>1, <2>1, GotoFacts
<1>7. \/ UNCHANGED <<ynab, touched>>
      \/ Changed(StepOf(w).target, Written(ynab[StepOf(w).target], StepOf(w)), w.op)
  BY <1>3, <1>4
<1> HIDE DEF d, w
<1>8. \A q \in Runner : call'[q] = IF q = r THEN d ELSE call[q]
  BY <1>1, <1>3 DEF TypeOK
<1>9. \A q \in Runner : call'[q] # NoCall =>
         /\ call[q] # NoCall
         /\ call'[q].op = call[q].op /\ call'[q].known = call[q].known
         /\ call'[q].entry = call[q].entry
  BY <1>6, <1>8
<1> QED
  BY <1>2, <1>3, <1>5, <1>7, <1>9, RequestTruth

\* A request that is applied late has been sent, and keeps the truth.
LEMMA LateTruth ==
    ASSUME IInv, Truth, NEW w \in late, LateWrite(w)
    PROVE  Truth'
<1>1. w \in sent /\ w \in Request /\ Journaled(w) /\ w.attempt > 0
  BY DEF IInv, TypeOK, IntentBeforeWrite, Truth, SentCounted
<1>2. Changed(StepOf(w).target, Written(ynab[StepOf(w).target], StepOf(w)), w.op)
  BY DEF LateWrite, StepOf
<1>3. sent' = sent \cup {w} /\ journal' = journal /\ call' = call
  BY <1>1 DEF LateWrite
<1> QED
  BY <1>1, <1>2, <1>3, RequestTruth

\* Every step keeps the truth.
LEMMA TruthIsInductive == IInv /\ Truth /\ [Next]_vars => Truth'
<1> SUFFICES ASSUME IInv, Truth, [Next]_vars
             PROVE  Truth'
  OBVIOUS
<1>1. CASE UNCHANGED vars
  <2>1. UNCHANGED <<journal, ynab, call, sent, touched>>
    BY <1>1 DEF vars, history
  <2> QED
    <3>1. JournalTruthful'
      BY <2>1 DEF Truth, JournalTruthful, Exists, Holds, HasCause, Alone
    <3>2. CallsTruthful'
      BY <2>1 DEF Truth, CallsTruthful, Truthful, Stale, Holds, HasCause, Alone
    <3>3. SentCounted' /\ TouchedBySent' /\ Untouched' /\ OwnWork'
      BY <2>1 DEF Truth, SentCounted, TouchedBySent, Untouched, OwnWork, StepOf
    <3> QED
      BY <3>1, <3>2, <3>3 DEF Truth
<1>2. ASSUME NEW w \in late, LateWrite(w)
      PROVE  Truth'
  BY <1>2, LateTruth
<1>3. ASSUME NEW t \in Target, NEW v \in Value, ExternalEdit(t, v)
      PROVE  Truth'
  BY <1>3, EditTruth
<1>4. ASSUME NEW r \in Runner, Crash(r)
      PROVE  Truth'
  BY <1>4, SaveTruth
<1>5. ASSUME NEW r \in Runner, Calls(r)
      PROVE  Truth'
  BY <1>5, OpenTruth
<1>6. ASSUME NEW r \in Runner, Progress(r)
      PROVE  Truth'
  BY <1>6, SaveTruth, VerifyTruth, DoneTruth, CheckTruth, WriteTruth, ReadBackTruth
  DEF Progress
<1> QED
  BY <1>1, <1>2, <1>3, <1>4, <1>5, <1>6 DEF Next, Environment

\* What the journal says of an operation is so, whatever crashes, fails, comes
\* late or runs beside it: a verified step holds in YNAB until somebody else
\* changes its target, and a conflict is reported only if somebody else did, or
\* the plan was stale at the outset.
THEOREM OutcomesAreTrue == Spec => []OutcomeIsTrue
<1>1. Init => Truth
  BY DEF Init, Truth, JournalTruthful, CallsTruthful, Exists, SentCounted, TouchedBySent,
         Untouched, OwnWork
<1>2. IInv /\ Truth => OutcomeIsTrue
  <2> SUFFICES ASSUME IInv, Truth
               PROVE  VerifiedHolds /\ ConflictHasCause
    BY DEF OutcomeIsTrue
  <2>1. VerifiedHolds
    BY DEF Truth, JournalTruthful, VerifiedHolds, StepsOf, TargetOf, ByOthers, Holds, Alone
  <2>2. ConflictHasCause
    <3> SUFFICES ASSUME NEW o \in OpId, Exists(o), journal[o].status = "conflict"
                 PROVE  \E j \in StepsOf(o) :
                           \/ ByOthers(o, TargetOf(o, j)) # {}
                           \/ Start[TargetOf(o, j)] # Plan[journal[o].plan][j].before
      BY DEF ConflictHasCause
    <3>1. HasCause(o, journal[o].plan)
      BY DEF Truth, JournalTruthful
    <3>2. StepsOf(o) = DOMAIN Plan[journal[o].plan]
      BY EntryPlan DEF IInv, TypeOK, Exists, StepsOf
    <3> QED
      BY <3>1, <3>2 DEF HasCause, Alone, TargetOf, ByOthers
  <2> QED
    BY <2>1, <2>2
<1>3. Init => IInv
  BY InitInv
<1>4. IInv /\ [Next]_vars => IInv'
  BY NextInv
<1> QED
  BY <1>1, <1>2, <1>3, <1>4, TruthIsInductive, PTL DEF Spec

-----------------------------------------------------------------------------
(* The promise: every save of an entry is one step of DurableOperation, or  *)
(* none.                                                                    *)

(* A call changes its copy by at most one abstract step between two saves,  *)
(* and a save is durable only on the entry the copy was taken from.  What   *)
(* makes the step one that is allowed is where the call stands: behind the  *)
(* verify loop every verified step is applied, so the loops that follow     *)
(* neither attempt nor verify it once more; and a completed operation is    *)
(* not opened again.                                                        *)

SameOwner(a, b) == b.plan = a.plan /\ b.tenant = a.tenant /\ b.session = a.session
Ended(e) == e.status = "completed"
SameAttempts(a, b, K) == \A k \in K : b.steps[k].attempts = a.steps[k].attempts
SameVerified(a, b, K) == \A k \in K : b.steps[k].verified = a.steps[k].verified

\* From entry a to entry b nothing happens, or one of the three steps does.
Same(a, b) ==
    /\ SameOwner(a, b)
    /\ SameAttempts(a, b, DOMAIN a.steps) /\ SameVerified(a, b, DOMAIN a.steps)
    /\ Ended(b) <=> Ended(a)

AttemptsStep(a, b, j) ==
    /\ ~a.steps[j].verified
    /\ b.steps[j].attempts = a.steps[j].attempts + 1
    /\ SameAttempts(a, b, DOMAIN a.steps \ {j}) /\ SameVerified(a, b, DOMAIN a.steps)
    /\ ~Ended(a) /\ ~Ended(b)

VerifiesStep(a, b, j) ==
    /\ ~a.steps[j].verified /\ b.steps[j].verified
    /\ a.steps[j].attempts > 0 \/ Plan[a.plan][j].before = Plan[a.plan][j].after
    /\ SameAttempts(a, b, DOMAIN a.steps) /\ SameVerified(a, b, DOMAIN a.steps \ {j})
    /\ ~Ended(a) /\ ~Ended(b)

Completes(a, b) ==
    /\ \A k \in DOMAIN a.steps : a.steps[k].verified
    /\ SameAttempts(a, b, DOMAIN a.steps) /\ SameVerified(a, b, DOMAIN a.steps)
    /\ ~Ended(a) /\ Ended(b)

Allowed(a, b) ==
    \/ Same(a, b)
    \/ SameOwner(a, b) /\ Completes(a, b)
    \/ /\ SameOwner(a, b)
       /\ \E j \in DOMAIN a.steps : AttemptsStep(a, b, j) \/ VerifiesStep(a, b, j)

SettledAt(c, p, i) ==
    /\ p \in {"verify", "check", "apply", "write", "readback"} => ~Ended(c.entry)
    /\ p = "verify" =>
          \A k \in DOMAIN c.entry.steps :
             k < i /\ c.entry.steps[k].verified => c.entry.steps[k].status = "applied"
    /\ p \in {"check", "apply", "write", "readback"} =>
          \A k \in DOMAIN c.entry.steps :
             c.entry.steps[k].verified => c.entry.steps[k].status = "applied"

Settled(c) ==
    /\ c.pc # "save" => SettledAt(c, c.pc, c.at)
    /\ c.pc = "save" => SettledAt(c, c.ret.pc, c.ret.at)

Linked(c) ==
    /\ c.known = 0 => \E q \in Runner, p \in PlanId : c.entry = NewEntry(q, p)
    /\ c.known > 0 /\ journal[c.op].revision = c.known =>
          /\ c.pc # "save" => Same(journal[c.op], c.entry)
          /\ c.pc = "save" => Allowed(journal[c.op], c.entry)

CallsLinked == \A r \in Runner : call[r] # NoCall => Settled(call[r]) /\ Linked(call[r])

-----------------------------------------------------------------------------
(* Entries and what they stand for.                                        *)

\* Entries that are the same in what counts stand for the same.
LEMMA SameMaps ==
    ASSUME NEW a \in Entry, NEW b \in Entry, Same(a, b)
    PROVE  Abstract(b) = Abstract(a)
<1>1. a # NoEntry /\ b # NoEntry /\ DOMAIN b.steps = DOMAIN a.steps
  BY EntryPlan DEF Same, SameOwner
<1>2. [j \in DOMAIN b.steps |-> b.steps[j].attempts] = [j \in DOMAIN a.steps |-> a.steps[j].attempts]
  BY <1>1 DEF Same, SameAttempts
<1>3. {j \in DOMAIN b.steps : b.steps[j].verified} = {j \in DOMAIN a.steps : a.steps[j].verified}
  BY <1>1 DEF Same, SameVerified
<1>4. /\ b.tenant = a.tenant /\ b.session = a.session /\ b.plan = a.plan
      /\ (b.status = "completed") <=> (a.status = "completed")
  BY DEF Same, SameOwner, Ended
<1> QED
  BY <1>1, <1>2, <1>3, <1>4 DEF Abstract

\* What an entry stands for, field by field.
LEMMA AbstractFacts ==
    ASSUME NEW e \in Entry
    PROVE  /\ Abstract(e).phase = (IF Ended(e) THEN "completed" ELSE "open")
           /\ Abstract(e).plan = e.plan
           /\ Abstract(e).attempts = [j \in DOMAIN Plan[e.plan] |-> e.steps[j].attempts]
           /\ Abstract(e).verified = {j \in DOMAIN Plan[e.plan] : e.steps[j].verified}
           /\ Abstract(e) # Promise!Absent
<1>1. e # NoEntry /\ DOMAIN e.steps = DOMAIN Plan[e.plan]
  BY EntryPlan
<1> QED
  BY <1>1 DEF Abstract, Ended, Promise!Absent

\* One more attempt of a step is an attempt of DurableOperation.
LEMMA AttemptMaps ==
    ASSUME NEW a \in Entry, NEW b \in Entry, SameOwner(a, b),
           NEW j \in DOMAIN a.steps, AttemptsStep(a, b, j)
    PROVE  Abstract(b) = [Abstract(a) EXCEPT !.attempts[j] = @ + 1]
<1>1. /\ a # NoEntry /\ b # NoEntry /\ DOMAIN b.steps = DOMAIN a.steps
      /\ b.tenant = a.tenant /\ b.session = a.session /\ b.plan = a.plan
      /\ b.status # "completed" /\ a.status # "completed"
  BY EntryPlan DEF SameOwner, AttemptsStep, Ended
<1> DEFINE f == [k \in DOMAIN a.steps |-> a.steps[k].attempts]
           g == [k \in DOMAIN b.steps |-> b.steps[k].attempts]
           v == {k \in DOMAIN a.steps : a.steps[k].verified}
           u == {k \in DOMAIN b.steps : b.steps[k].verified}
<1>2. g = [f EXCEPT ![j] = @ + 1]
  BY <1>1 DEF AttemptsStep, SameAttempts
<1>3. u = v
  BY <1>1 DEF AttemptsStep, SameVerified
<1>4. Abstract(a) = [phase |-> "open", owner |-> <<a.tenant, a.session>>, plan |-> a.plan,
                     attempts |-> f, verified |-> v]
  BY <1>1 DEF Abstract
<1>5. Abstract(b) = [phase |-> "open", owner |-> <<a.tenant, a.session>>, plan |-> a.plan,
                     attempts |-> g, verified |-> u]
  BY <1>1 DEF Abstract
<1> HIDE DEF f, g, u, v
<1>6. [Abstract(a) EXCEPT !.attempts[j] = @ + 1] =
         [phase |-> "open", owner |-> <<a.tenant, a.session>>, plan |-> a.plan,
          attempts |-> [f EXCEPT ![j] = @ + 1], verified |-> v]
  BY <1>4
<1> QED
  BY <1>2, <1>3, <1>5, <1>6

\* A step that has become verified is one that DurableOperation verifies.
LEMMA VerifyMaps ==
    ASSUME NEW a \in Entry, NEW b \in Entry, SameOwner(a, b),
           NEW j \in DOMAIN a.steps, VerifiesStep(a, b, j)
    PROVE  Abstract(b) = [Abstract(a) EXCEPT !.verified = @ \cup {j}]
<1>1. /\ a # NoEntry /\ b # NoEntry /\ DOMAIN b.steps = DOMAIN a.steps
      /\ b.tenant = a.tenant /\ b.session = a.session /\ b.plan = a.plan
      /\ b.status # "completed" /\ a.status # "completed"
  BY EntryPlan DEF SameOwner, VerifiesStep, Ended
<1> DEFINE f == [k \in DOMAIN a.steps |-> a.steps[k].attempts]
           g == [k \in DOMAIN b.steps |-> b.steps[k].attempts]
           v == {k \in DOMAIN a.steps : a.steps[k].verified}
           u == {k \in DOMAIN b.steps : b.steps[k].verified}
<1>2. g = f
  BY <1>1 DEF VerifiesStep, SameAttempts
<1>3. u = v \cup {j}
  BY <1>1 DEF VerifiesStep, SameVerified
<1>4. Abstract(a) = [phase |-> "open", owner |-> <<a.tenant, a.session>>, plan |-> a.plan,
                     attempts |-> f, verified |-> v]
  BY <1>1 DEF Abstract
<1>5. Abstract(b) = [phase |-> "open", owner |-> <<a.tenant, a.session>>, plan |-> a.plan,
                     attempts |-> g, verified |-> u]
  BY <1>1 DEF Abstract
<1> HIDE DEF f, g, u, v
<1> QED
  BY <1>2, <1>3, <1>4, <1>5

\* An operation with all steps verified may complete there.
LEMMA CompleteMaps ==
    ASSUME NEW a \in Entry, NEW b \in Entry, SameOwner(a, b), Completes(a, b)
    PROVE  Abstract(b) = [Abstract(a) EXCEPT !.phase = "completed"]
<1>1. /\ a # NoEntry /\ b # NoEntry /\ DOMAIN b.steps = DOMAIN a.steps
      /\ b.tenant = a.tenant /\ b.session = a.session /\ b.plan = a.plan
      /\ b.status = "completed" /\ a.status # "completed"
  BY EntryPlan DEF SameOwner, Completes, Ended
<1> DEFINE f == [k \in DOMAIN a.steps |-> a.steps[k].attempts]
           g == [k \in DOMAIN b.steps |-> b.steps[k].attempts]
           v == {k \in DOMAIN a.steps : a.steps[k].verified}
           u == {k \in DOMAIN b.steps : b.steps[k].verified}
<1>2. g = f
  BY <1>1 DEF Completes, SameAttempts
<1>3. u = v
  BY <1>1 DEF Completes, SameVerified
<1>4. Abstract(a) = [phase |-> "open", owner |-> <<a.tenant, a.session>>, plan |-> a.plan,
                     attempts |-> f, verified |-> v]
  BY <1>1 DEF Abstract
<1>5. Abstract(b) = [phase |-> "completed", owner |-> <<a.tenant, a.session>>,
                     plan |-> a.plan, attempts |-> g, verified |-> u]
  BY <1>1 DEF Abstract
<1> HIDE DEF f, g, u, v
<1> QED
  BY <1>2, <1>3, <1>4, <1>5

\* A new entry stands for a prepared operation.
LEMMA NewMaps ==
    ASSUME NEW q \in Runner, NEW p \in PlanId
    PROVE  /\ NewEntry(q, p) \in Entry
           /\ Abstract(NewEntry(q, p)) =
                [phase |-> "open", owner |-> <<TenantOf[q], q>>, plan |-> p,
                 attempts |-> [j \in DOMAIN Plan[p] |-> 0], verified |-> {}]
<1> DEFINE e == NewEntry(q, p)
<1>1. e \in EntryOf(p)
  BY PlanAssumption DEF NewEntry, EntryOf, EntryStatus, StepState, StepStatus
<1>2. e \in Entry
  BY <1>1 DEF Entry
<1>3. /\ e.plan = p /\ e.tenant = TenantOf[q] /\ e.session = q /\ e.status = "prepared"
      /\ DOMAIN e.steps = DOMAIN Plan[p]
      /\ \A j \in DOMAIN Plan[p] : e.steps[j].attempts = 0 /\ e.steps[j].verified = FALSE
  BY DEF NewEntry
<1>4. e # NoEntry
  BY <1>2, EntryPlan
<1> HIDE DEF e
<1>5. [j \in DOMAIN e.steps |-> e.steps[j].attempts] = [j \in DOMAIN Plan[p] |-> 0]
  BY <1>3
<1>6. {j \in DOMAIN e.steps : e.steps[j].verified} = {}
  BY <1>3
<1> QED
  BY <1>2, <1>3, <1>4, <1>5, <1>6 DEF Abstract, e

\* A save that is allowed is a step of DurableOperation, or none.
LEMMA SaveMaps ==
    ASSUME TypeOK, NEW o \in OpId, NEW b \in Entry,
           journal' = [journal EXCEPT ![o] = b],
           \/ /\ journal[o] = NoEntry
              /\ \E q \in Runner, p \in PlanId : Same(NewEntry(q, p), b)
           \/ journal[o] # NoEntry /\ Allowed(journal[o], b)
    PROVE  [Promise!Next]_([x \in OpId |-> Abstract(journal[x])])
<1> DEFINE op == [x \in OpId |-> Abstract(journal[x])]
           a == journal[o]
<1>1. journal \in [OpId -> Entry \cup {NoEntry}]
  BY DEF TypeOK
<1>2. /\ op[o] = Abstract(a)
      /\ op' = [op EXCEPT ![o] = Abstract(b)]
  BY <1>1
<1>3. CASE a = NoEntry
  <2>1. PICK q \in Runner, p \in PlanId : Same(NewEntry(q, p), b)
    BY <1>3, EntryPlan DEF Allowed
  <2>2. Abstract(b) = [phase |-> "open", owner |-> <<TenantOf[q], q>>, plan |-> p,
                       attempts |-> [j \in DOMAIN Plan[p] |-> 0], verified |-> {}]
    BY <2>1, NewMaps, SameMaps
  <2>3. op[o] = Promise!Absent
    BY <1>2, <1>3 DEF Abstract, Promise!Absent
  <2> HIDE DEF op
  <2>4. Promise!Prepare(o, <<TenantOf[q], q>>, p)
    BY <1>2, <2>2, <2>3 DEF Promise!Prepare, op
  <2> QED
    BY <2>4 DEF Promise!Next
<1>4. CASE a # NoEntry
  <2>1. a \in Entry /\ Allowed(a, b) /\ a.plan \in PlanId
        /\ DOMAIN a.steps = DOMAIN Plan[a.plan]
    BY <1>1, <1>4, EntryPlan
  <2> HIDE DEF a
  <2>2. /\ op[o].phase = (IF Ended(a) THEN "completed" ELSE "open")
        /\ op[o].plan = a.plan
        /\ op[o].attempts = [j \in DOMAIN Plan[a.plan] |-> a.steps[j].attempts]
        /\ op[o].verified = {j \in DOMAIN Plan[a.plan] : a.steps[j].verified}
        /\ op[o] # Promise!Absent
    BY <1>2, <2>1, AbstractFacts
  <2> HIDE DEF op
  <2>3. CASE Same(a, b)
    <3>1. op' = op
      BY <1>2, <2>1, <2>3, SameMaps DEF op
    <3> QED
      BY <3>1 DEF op
  <2>4. CASE SameOwner(a, b) /\ Completes(a, b)
    <3>1. Abstract(b) = [op[o] EXCEPT !.phase = "completed"]
      BY <1>2, <2>1, <2>4, CompleteMaps
    <3>2. op[o].phase = "open" /\ op[o].verified = DOMAIN Plan[a.plan]
      BY <2>1, <2>2, <2>4 DEF Completes
    <3>3. Promise!Complete(o)
      BY <1>2, <2>1, <2>2, <3>1, <3>2 DEF Promise!Complete, Promise!Open, op
    <3> QED
      BY <2>2, <3>3 DEF Promise!Next, op
  <2>5. ASSUME SameOwner(a, b), NEW j \in DOMAIN a.steps, AttemptsStep(a, b, j)
        PROVE  Promise!Next
    <3>1. Abstract(b) = [op[o] EXCEPT !.attempts[j] = @ + 1]
      BY <1>2, <2>1, <2>5, AttemptMaps
    <3>2. op[o].phase = "open" /\ j \in DOMAIN Plan[a.plan] /\ j \notin op[o].verified
      BY <2>1, <2>2, <2>5 DEF AttemptsStep
    <3>3. Promise!Attempt(o, j)
      BY <1>2, <2>1, <2>2, <3>1, <3>2 DEF Promise!Attempt, Promise!Open, op
    <3> QED
      BY <2>1, <2>2, <3>2, <3>3 DEF Promise!Next, op
  <2>6. ASSUME SameOwner(a, b), NEW j \in DOMAIN a.steps, VerifiesStep(a, b, j)
        PROVE  Promise!Next
    <3>1. Abstract(b) = [op[o] EXCEPT !.verified = @ \cup {j}]
      BY <1>2, <2>1, <2>6, VerifyMaps
    <3>2. op[o].phase = "open" /\ j \in DOMAIN Plan[a.plan] /\ j \notin op[o].verified
      BY <2>1, <2>2, <2>6 DEF VerifiesStep
    <3>3. Plan[a.plan][j].before # Plan[a.plan][j].after => op[o].attempts[j] > 0
      BY <2>1, <2>2, <2>6 DEF VerifiesStep
    <3>4. Promise!Verify(o, j)
      BY <1>2, <2>1, <2>2, <3>1, <3>2, <3>3 DEF Promise!Verify, Promise!Open, op
    <3> QED
      BY <2>1, <2>2, <3>2, <3>4 DEF Promise!Next, op
  <2> QED
    BY <2>1, <2>3, <2>4, <2>5, <2>6 DEF Allowed
<1> QED
  BY <1>3, <1>4

-----------------------------------------------------------------------------
(* What a call does to its copy.                                           *)

\* An allowed step from a copy is one from the entry the copy agrees with.
LEMMA SameThenAllowed ==
    ASSUME NEW a \in Entry, NEW b \in Entry, NEW e \in Entry,
           Same(a, b), Same(b, e) \/ Allowed(b, e)
    PROVE  (Same(b, e) => Same(a, e)) /\ Allowed(a, e)
<1>1. SameOwner(a, b) /\ (Ended(b) <=> Ended(a)) /\ DOMAIN b.steps = DOMAIN a.steps
  BY EntryPlan DEF Same, SameOwner
<1>2. \A k \in DOMAIN a.steps : b.steps[k].attempts = a.steps[k].attempts
                             /\ b.steps[k].verified = a.steps[k].verified
  BY DEF Same, SameAttempts, SameVerified
<1>3. b.plan = a.plan /\ (SameOwner(b, e) => SameOwner(a, e))
  BY <1>1 DEF SameOwner
<1>4. Same(b, e) => Same(a, e)
  BY <1>1, <1>2, <1>3 DEF Same, SameAttempts, SameVerified
<1>5. Completes(b, e) => Completes(a, e)
  BY <1>1, <1>2 DEF Completes, SameAttempts, SameVerified
<1>6. ASSUME NEW j \in DOMAIN b.steps, AttemptsStep(b, e, j)
      PROVE  AttemptsStep(a, e, j)
  BY <1>1, <1>2, <1>6 DEF AttemptsStep, SameAttempts, SameVerified
<1>7. ASSUME NEW j \in DOMAIN b.steps, VerifiesStep(b, e, j)
      PROVE  VerifiesStep(a, e, j)
  BY <1>1, <1>2, <1>3, <1>7 DEF VerifiesStep, SameAttempts, SameVerified
<1> QED
  BY <1>1, <1>3, <1>4, <1>5, <1>6, <1>7 DEF Allowed

\* And so is one to the copy, followed by nothing.
LEMMA AllowedThenSame ==
    ASSUME NEW a \in Entry, NEW b \in Entry, NEW e \in Entry, Allowed(a, b), Same(b, e)
    PROVE  Allowed(a, e)
<1>1. SameOwner(b, e) /\ (Ended(e) <=> Ended(b))
  BY DEF Same
<1>2. \A k \in DOMAIN b.steps : e.steps[k].attempts = b.steps[k].attempts
                             /\ e.steps[k].verified = b.steps[k].verified
  BY DEF Same, SameAttempts, SameVerified
<1>3. ASSUME SameOwner(a, b)
      PROVE  SameOwner(a, e) /\ DOMAIN b.steps = DOMAIN a.steps
  BY <1>1, <1>3, EntryPlan DEF SameOwner
<1>4. Same(a, b) => Same(a, e)
  BY <1>1, <1>2, <1>3 DEF Same, SameAttempts, SameVerified
<1>5. SameOwner(a, b) /\ Completes(a, b) => Completes(a, e)
  BY <1>1, <1>2, <1>3 DEF Completes, SameAttempts, SameVerified
<1>6. ASSUME SameOwner(a, b), NEW j \in DOMAIN a.steps, AttemptsStep(a, b, j)
      PROVE  AttemptsStep(a, e, j)
  BY <1>1, <1>2, <1>3, <1>6 DEF AttemptsStep, SameAttempts, SameVerified
<1>7. ASSUME SameOwner(a, b), NEW j \in DOMAIN a.steps, VerifiesStep(a, b, j)
      PROVE  VerifiesStep(a, e, j)
  BY <1>1, <1>2, <1>3, <1>7 DEF VerifiesStep, SameAttempts, SameVerified
<1> QED
  BY <1>3, <1>4, <1>5, <1>6, <1>7 DEF Allowed

\* An entry is the same as itself.
LEMMA SameSelf ==
    ASSUME NEW a \in Entry, NEW b, b.plan = a.plan, b.tenant = a.tenant,
           b.session = a.session, b.steps = a.steps, b.status = a.status
    PROVE  Same(a, b) /\ Allowed(a, b)
BY DEF Same, Allowed, SameOwner, SameAttempts, SameVerified, Ended

\* A call stays linked to the journal if its copy changes by an allowed step.
LEMMA LinkKept ==
    ASSUME NEW c \in Call, NEW d \in Call, c.pc # "save", c.known > 0,
           journal[c.op] \in Entry, Linked(c), d.op = c.op, d.known = c.known,
           \/ d.pc # "save" /\ Same(c.entry, d.entry)
           \/ d.pc = "save" /\ Allowed(c.entry, d.entry)
    PROVE  Linked(d)
<1>1. c.entry \in Entry /\ d.entry \in Entry /\ c.known \in Nat
  BY DEF Call
<1>2. ASSUME journal[c.op].revision = c.known
      PROVE  /\ d.pc # "save" => Same(journal[c.op], d.entry)
             /\ d.pc = "save" => Allowed(journal[c.op], d.entry)
  <2>1. Same(journal[c.op], c.entry)
    BY <1>2 DEF Linked
  <2> QED
    BY <1>1, <2>1, SameThenAllowed
<1> QED
  BY <1>1, <1>2 DEF Linked

\* Replacing a step keeps who owns the entry.
LEMMA PutOwner ==
    ASSUME NEW c \in Call, NEW j \in DOMAIN c.entry.steps,
           NEW step \in StepState, NEW es \in EntryStatus
    PROVE  SameOwner(c.entry, Put(c, j, step, es).entry)
<1>1. c.entry \in EntryOf(c.entry.plan)
  BY EntryPlan DEF Call
<1>2. Put(c, j, step, es).entry = [c.entry EXCEPT !.steps[j] = step, !.status = es]
  BY DEF Put, Call
<1> QED
  BY <1>1, <1>2 DEF SameOwner, EntryOf

\* So does finishing.
LEMMA FinishOwner ==
    ASSUME NEW c \in Call, NEW es \in EntryStatus
    PROVE  SameOwner(c.entry, Finish(c, es).entry)
<1>1. c.entry \in EntryOf(c.entry.plan)
  BY EntryPlan DEF Call
<1>2. Finish(c, es).entry = [c.entry EXCEPT !.status = es]
  BY DEF Finish, SaveThen, Call
<1> QED
  BY <1>1, <1>2 DEF SameOwner, EntryOf

\* What a loop saves of step j is allowed, and leaves the call settled.
LEMMA PutLinked ==
    ASSUME NEW c \in Call, c.pc # "save", c.known > 0, journal[c.op] \in Entry,
           Linked(c), ~Ended(c.entry),
           NEW j \in DOMAIN c.entry.steps, NEW b, b = c \/ b = Sees(c, j),
           NEW step \in StepState, NEW es \in EntryStatus, es # "completed",
           NEW p \in Label, NEW i \in Nat,
           \/ step.attempts = Mine(c, j).attempts /\ step.verified = Mine(c, j).verified
           \/ /\ step.attempts = Mine(c, j).attempts + 1
              /\ step.verified = FALSE /\ Mine(c, j).verified = FALSE
           \/ /\ step.attempts = Mine(c, j).attempts /\ step.verified
              /\ Mine(c, j).attempts > 0 \/ NoChange(c, j),
           p # "return" =>
              /\ step.verified => step.status = "applied"
              /\ \A k \in DOMAIN c.entry.steps \ {j} :
                    (p = "verify" => k < i) /\ Mine(c, k).verified =>
                       Mine(c, k).status = "applied"
    PROVE  LET d == SaveThen(Put(b, j, step, es), p, i) IN
           d # NoCall /\ Settled(d) /\ Linked(d)
<1> DEFINE x == Put(b, j, step, es)
           d == SaveThen(x, p, i)
<1>1. b \in Call /\ b.op = c.op /\ b.known = c.known /\ b.entry = c.entry
  BY SeesFacts
<1>2. /\ x \in Call /\ x.op = c.op /\ x.known = c.known
      /\ x.entry.plan = c.entry.plan /\ x.entry.status = es
      /\ DOMAIN x.entry.steps = DOMAIN c.entry.steps
      /\ x.entry.steps[j] = step
      /\ \A k \in DOMAIN c.entry.steps : k # j => x.entry.steps[k] = c.entry.steps[k]
  BY <1>1, PutFacts
<1>3. SameOwner(c.entry, x.entry)
  BY <1>1, PutOwner
<1> HIDE DEF x
<1>4. /\ d \in Call /\ d.op = c.op /\ d.known = c.known /\ d.entry = x.entry
      /\ d.pc = "save" /\ d.ret.pc = p /\ d.ret.at = i
  BY <1>2, SaveThenFacts
<1> HIDE DEF d
<1>5. ~Ended(x.entry) /\ c.entry.steps[j] \in StepState
  BY <1>2, StepTypes DEF Ended, Call
<1>6. Allowed(c.entry, d.entry)
  <2>1. CASE step.attempts = Mine(c, j).attempts /\ step.verified = Mine(c, j).verified
    BY <1>2, <1>3, <1>4, <1>5, <2>1 DEF Allowed, Same, SameAttempts, SameVerified, Mine
  <2>2. CASE /\ step.attempts = Mine(c, j).attempts + 1
             /\ step.verified = FALSE /\ Mine(c, j).verified = FALSE
    <3>1. AttemptsStep(c.entry, x.entry, j)
      BY <1>2, <1>5, <2>2 DEF AttemptsStep, SameAttempts, SameVerified, Mine
    <3> QED
      BY <1>3, <1>4, <3>1 DEF Allowed
  <2>3. CASE /\ step.attempts = Mine(c, j).attempts /\ step.verified
             /\ Mine(c, j).attempts > 0 \/ NoChange(c, j)
             /\ Mine(c, j).verified = FALSE
    <3>1. VerifiesStep(c.entry, x.entry, j)
      BY <1>2, <1>5, <2>3 DEF VerifiesStep, SameAttempts, SameVerified, Mine, NoChange, Here
    <3> QED
      BY <1>3, <1>4, <3>1 DEF Allowed
  <2>4. step.verified \in BOOLEAN /\ Mine(c, j).verified \in BOOLEAN
    BY <1>5 DEF Mine, StepState
  <2> QED
    BY <2>1, <2>2, <2>3, <2>4
<1>7. Linked(d)
  BY <1>4, <1>6, LinkKept
<1>8. SettledAt(d, p, i)
  BY <1>2, <1>4, <1>5 DEF SettledAt, Mine
<1>9. Settled(d)
  BY <1>4, <1>8 DEF Settled
<1> QED
  BY <1>4, <1>7, <1>9, NoCallDiffers DEF d, x

\* Marking a step, and stopping at it, leave what it stands for.
LEMMA StopLinked ==
    ASSUME NEW c \in Call, c.pc # "save", c.known > 0, journal[c.op] \in Entry,
           Linked(c), ~Ended(c.entry),
           NEW j \in DOMAIN c.entry.steps, NEW st \in StepStatus,
           NEW es \in EntryStatus, es # "completed"
    PROVE  Settled(StopAt(c, j, st, es)) /\ Linked(StopAt(c, j, st, es))
<1> DEFINE s == [Mine(c, j) EXCEPT !.status = st]
<1>1. Mine(c, j) \in StepState
  BY StepTypes DEF Call, Mine
<1>2. s \in StepState /\ s.verified = Mine(c, j).verified /\ s.attempts = Mine(c, j).attempts
  BY <1>1 DEF StepState
<1> HIDE DEF s
<1>3. "return" \in Label /\ 1 \in Nat
  BY DEF Label
<1>4. LET d == SaveThen(Put(c, j, s, es), "return", 1) IN Settled(d) /\ Linked(d)
  BY <1>2, <1>3, PutLinked
<1> QED
  BY <1>4 DEF StopAt, Mark, s

\* Recording a verified step is allowed.
LEMMA AppliedLinked ==
    ASSUME NEW c \in Call, c.pc # "save", c.known > 0, journal[c.op] \in Entry,
           Linked(c), ~Ended(c.entry),
           NEW j \in DOMAIN c.entry.steps, j \in Nat, NEW b, b = c \/ b = Sees(c, j),
           NEW es \in EntryStatus, es # "completed", NEW p \in {"check", "apply"},
           Mine(c, j).attempts > 0 \/ NoChange(c, j),
           \A k \in DOMAIN c.entry.steps : Mine(c, k).verified => Mine(c, k).status = "applied"
    PROVE  LET d == SaveThen(Applied(b, j, es), p, j + 1) IN Settled(d) /\ Linked(d)
<1> DEFINE s == [status |-> "applied", attempts |-> Mine(b, j).attempts,
                 verified |-> TRUE]
<1>1. Mine(c, j) \in StepState /\ Mine(b, j) = Mine(c, j)
  BY StepTypes, SeesFacts DEF Call, Mine
<1>2. /\ s \in StepState /\ s.attempts = Mine(c, j).attempts
      /\ s.verified /\ s.status = "applied"
  BY <1>1 DEF StepState, StepStatus
<1> HIDE DEF s
<1>3. p \in Label /\ j + 1 \in Nat /\ p # "verify"
  BY DEF Label
<1>4. LET d == SaveThen(Put(b, j, s, es), p, j + 1) IN Settled(d) /\ Linked(d)
  BY <1>2, <1>3, PutLinked
<1> QED
  BY <1>4 DEF Applied, s

\* Finishing completes the operation or leaves it as it is.
LEMMA FinishLinked ==
    ASSUME NEW c \in Call, c.pc # "save", c.known > 0, journal[c.op] \in Entry,
           Linked(c), ~Ended(c.entry), NEW es \in EntryStatus,
           es = "completed" => \A k \in DOMAIN c.entry.steps : Mine(c, k).verified
    PROVE  Settled(Finish(c, es)) /\ Linked(Finish(c, es))
<1> DEFINE d == Finish(c, es)
<1>1. /\ d \in Call /\ d.op = c.op /\ d.known = c.known
      /\ d.pc = "save" /\ d.ret.pc = "return"
      /\ d.entry.status = es /\ d.entry.steps = c.entry.steps
  BY FinishFacts
<1>2. SameOwner(c.entry, d.entry)
  BY FinishOwner
<1> HIDE DEF d
<1>3. Allowed(c.entry, d.entry)
  <2>1. CASE es = "completed"
    BY <1>1, <1>2, <2>1 DEF Allowed, Completes, SameAttempts, SameVerified, Ended, Mine
  <2>2. CASE es # "completed"
    BY <1>1, <1>2, <2>2 DEF Allowed, Same, SameAttempts, SameVerified, Ended
  <2> QED
    BY <2>1, <2>2
<1>4. Linked(d) /\ Settled(d)
  BY <1>1, <1>3, LinkKept DEF Settled, SettledAt
<1> QED
  BY <1>4 DEF d

\* A call that goes on keeps its copy.
LEMMA GotoLinked ==
    ASSUME NEW c \in Call, c.pc # "save", c.known > 0, journal[c.op] \in Entry, Linked(c),
           NEW b, b = c \/ \E j \in DOMAIN c.entry.steps : b = Sees(c, j),
           NEW p \in Label, p # "save", NEW i \in Nat, SettledAt(c, p, i)
    PROVE  Settled(Goto(b, p, i)) /\ Linked(Goto(b, p, i))
<1> DEFINE d == Goto(b, p, i)
<1>1. b \in Call /\ b.op = c.op /\ b.known = c.known /\ b.entry = c.entry
  BY SeesFacts
<1>2. /\ d \in Call /\ d.op = c.op /\ d.known = c.known /\ d.entry = c.entry
      /\ d.pc = p /\ d.at = i
  BY <1>1, GotoFacts
<1> HIDE DEF d
<1>3. Same(c.entry, d.entry)
  BY <1>2, SameSelf DEF Call
<1>4. Linked(d)
  BY <1>2, <1>3, LinkKept
<1>5. Settled(d)
  BY <1>2 DEF Settled, SettledAt
<1> QED
  BY <1>4, <1>5 DEF d

-----------------------------------------------------------------------------
(* Every action keeps the calls linked to the journal.                      *)

\* When one call changes and the journal does not, that call is to be looked at.
LEMMA LinkedStep ==
    ASSUME IInv, CallsLinked, NEW r \in Runner, NEW d, Becomes(r, d), journal' = journal,
           d = NoCall \/ (Settled(d) /\ Linked(d))
    PROVE  CallsLinked'
<1>1. \A q \in Runner : call'[q] = IF q = r THEN d ELSE call[q]
  BY DEF IInv, TypeOK, Becomes
<1> SUFFICES ASSUME NEW q \in Runner, NEW x, x = call'[q], x # NoCall
             PROVE  Settled(x) /\ Linked(x)'
  BY DEF CallsLinked, Settled, SettledAt, Linked
<1>2. Settled(x) /\ Linked(x)
  BY <1>1 DEF CallsLinked
<1> QED
  BY <1>2 DEF Linked

\* A step of a loop keeps the calls linked if its own stays so.
LEMMA LoopLinked ==
    ASSUME IInv, CallsLinked, NEW r \in Runner, NEW d, Settled(d), Linked(d),
           Succeeds(r, d) \/ ReadFails(r, d)
    PROVE  CallsLinked'
BY LinkedStep DEF Succeeds, ReadFails, Loop

\* What is known of a call inside its loops, and of where it stands.
LEMMA LoopSettled ==
    ASSUME IInv, CallsLinked, NEW r \in Runner, call[r].pc \notin {"idle", "save", "return"}
    PROVE  LET c == call[r] IN
           /\ c \in Call /\ c.pc # "save" /\ c.known > 0 /\ journal[c.op] \in Entry
           /\ Linked(c) /\ ~Ended(c.entry) /\ SettledAt(c, c.pc, c.at)
           /\ c.at \in Nat /\ Good(c, journal) /\ c.entry.status \in EntryStatus
           /\ \A k \in DOMAIN c.entry.steps : k \in Nat /\ Mine(c, k) \in StepState
<1> DEFINE c == call[r]
<1>1. /\ c \in Call /\ c.known > 0 /\ journal[c.op] \in Entry /\ Good(c, journal)
      /\ c.entry.status \in EntryStatus
      /\ \A k \in DOMAIN c.entry.steps : k \in Nat /\ Mine(c, k) \in StepState
  BY LoopFacts
<1>2. Settled(c) /\ Linked(c) /\ c.pc \notin {"idle", "save", "return"}
  BY <1>1, NoCallDiffers DEF CallsLinked
<1> HIDE DEF c
<1>3. c.at \in Nat /\ c.pc \in {"verify", "check", "apply", "write", "readback"}
  BY <1>1, <1>2 DEF Call, Label
<1>4. SettledAt(c, c.pc, c.at) /\ ~Ended(c.entry)
  BY <1>2, <1>3 DEF Settled, SettledAt
<1> QED
  BY <1>1, <1>2, <1>3, <1>4 DEF c

\* A call that starts has a new entry, or the entry the journal holds.
LEMMA OpenLinked ==
    ASSUME IInv, CallsLinked, NEW r \in Runner, Calls(r)
    PROVE  CallsLinked'
<1>1. ASSUME NEW o \in OpId, NEW d, Opens(r, d), Settled(d), Linked(d)
      PROVE  CallsLinked'
  BY <1>1, LinkedStep DEF Opens
<1>v. "verify" \in Label /\ 1 \in Nat
  BY DEF Label
<1>2. ASSUME NEW o \in OpId, NEW p \in PlanId, RunNew(r, o, p)
      PROVE  CallsLinked'
  <2> DEFINE e == NewEntry(r, p)
             d == SaveThen(Opened(o, e), "verify", 1)
  <2>1. Opens(r, d)
    BY <1>2 DEF RunNew
  <2>2. /\ e \in Entry /\ e.revision = 0 /\ e.status = "prepared"
        /\ \A k \in DOMAIN e.steps : e.steps[k].verified = FALSE
    BY NewMaps DEF NewEntry
  <2>3. Opened(o, e) \in Call /\ Opened(o, e).entry = e /\ Opened(o, e).known = 0
    <3> HIDE DEF e
    <3> QED
      BY <2>2 DEF Opened, Call, Label
  <2>4. /\ d.known = 0 /\ d.entry = e /\ d.pc = "save"
        /\ d.ret.pc = "verify" /\ d.ret.at = 1
    BY <1>v, <2>3, SaveThenFacts
  <2> HIDE DEF d
  <2>5. Linked(d)
    BY <2>4 DEF Linked
  <2> HIDE DEF e
  <2>6. Settled(d)
    BY <2>2, <2>4 DEF Settled, SettledAt, Ended
  <2> QED
    BY <1>1, <2>1, <2>5, <2>6
<1>3. ASSUME NEW o \in OpId, journal[o] # NoEntry, journal[o].status # "completed",
             NEW c, c = Opened(o, journal[o])
      PROVE  /\ c \in Call /\ c.op = o /\ c.known > 0 /\ journal[o] \in Entry
             /\ c.pc = "verify" /\ Settled(c) /\ Linked(c)
             /\ c.entry = journal[o] /\ c.known = journal[o].revision
             /\ \A k \in DOMAIN c.entry.steps : ~(k < 1)
  <2>1. journal[o] \in Entry /\ journal[o].revision > 0
    BY <1>3 DEF IInv, TypeOK, EntriesEvident, Exists
  <2>2. /\ c \in Call /\ c.pc = "verify" /\ c.op = o /\ c.entry = journal[o] /\ c.at = 1
        /\ c.known = journal[o].revision
    BY <1>3, OpenedIsGood DEF Opened
  <2>3. \A k \in DOMAIN c.entry.steps : ~(k < 1)
    <3>1. DOMAIN c.entry.steps = DOMAIN Plan[c.entry.plan] /\ c.entry.plan \in PlanId
      BY <2>1, <2>2, EntryPlan
    <3>2. Plan[c.entry.plan] \in Seq(PlanStep)
      BY <3>1, PlanAssumption
    <3> QED
      BY <3>1, <3>2
  <2>4. Settled(c)
    BY <1>3, <2>2, <2>3 DEF Settled, SettledAt, Ended
  <2>5. Linked(c)
    BY <2>1, <2>2, SameSelf DEF Linked
  <2> QED
    BY <2>1, <2>2, <2>3, <2>4, <2>5
<1>4. ASSUME NEW o \in OpId, NEW p \in PlanId, RunAgain(r, o, p)
      PROVE  CallsLinked'
  BY <1>1, <1>3, <1>4 DEF RunAgain, InScope
<1>5. ASSUME NEW o \in OpId, Resume(r, o)
      PROVE  CallsLinked'
  <2> DEFINE c == Opened(o, journal[o])
             e == [c.entry EXCEPT !.rebound = @ \cup {r}]
             x == [c EXCEPT !.entry = e]
             d == SaveThen(x, "verify", 1)
  <2>1. /\ c \in Call /\ c.op = o /\ c.known > 0 /\ journal[o] \in Entry
        /\ c.pc = "verify" /\ Settled(c) /\ Linked(c)
        /\ c.entry = journal[o] /\ c.known = journal[o].revision
        /\ \A k \in DOMAIN c.entry.steps : ~(k < 1)
        /\ journal[o].status # "completed"
    BY <1>3, <1>5 DEF Resume, InScope
  <2>2. \/ Opens(r, c)
        \/ Opens(r, SaveThen([c EXCEPT !.entry.rebound = @ \cup {r}], "verify", 1))
    BY <1>5 DEF Resume
  <2> HIDE DEF c
  <2>3. [c EXCEPT !.entry.rebound = @ \cup {r}] = x
    BY <2>1 DEF Call
  <2>4. e \in EntryOf(c.entry.plan) /\ c.entry.plan \in PlanId
    BY <2>1, EntryPlan DEF EntryOf, Call
  <2>5. e \in Entry
    BY <2>4 DEF Entry
  <2>6. /\ e.plan = c.entry.plan /\ e.tenant = c.entry.tenant
        /\ e.session = c.entry.session /\ e.steps = c.entry.steps
        /\ e.status = c.entry.status
    BY <2>1, EntryPlan DEF EntryOf, Call
  <2> HIDE DEF e
  <2>7. x \in Call /\ x.op = c.op /\ x.known = c.known /\ x.entry = e
    BY <2>1, <2>5 DEF Call
  <2> HIDE DEF x
  <2>8. /\ d \in Call /\ d.op = c.op /\ d.known = c.known /\ d.entry = e
        /\ d.pc = "save" /\ d.ret.pc = "verify" /\ d.ret.at = 1
    BY <1>v, <2>7, SaveThenFacts
  <2>9. Opens(r, c) \/ Opens(r, d)
    BY <2>2, <2>3
  <2> HIDE DEF d
  <2>10. Linked(d)
    BY <2>1, <2>6, <2>8, SameSelf DEF Linked
  <2>11. Settled(d)
    BY <2>1, <2>6, <2>8 DEF Settled, SettledAt, Ended
  <2> QED
    BY <1>1, <2>1, <2>9, <2>10, <2>11
<1> QED
  BY <1>2, <1>4, <1>5 DEF Calls

\* The verify loop attempts and verifies nothing, and leaves every verified
\* step behind it applied.
LEMMA VerifyLinked ==
    ASSUME IInv, CallsLinked, NEW r \in Runner, NEW j \in StepNo, VerifyStep(r, j)
    PROVE  CallsLinked'
<1> DEFINE c == call[r]
<1>1. /\ c \in Call /\ c.pc = "verify" /\ c.known > 0 /\ journal[c.op] \in Entry
      /\ Linked(c) /\ ~Ended(c.entry) /\ SettledAt(c, "verify", c.at)
      /\ c.at \in Nat /\ c.entry.status \in EntryStatus
      /\ \A k \in DOMAIN c.entry.steps : k \in Nat /\ Mine(c, k) \in StepState
  BY LoopSettled DEF VerifyStep, At
<1>2. IsFirst(j, ToVerify(c))
  BY DEF VerifyStep
<1>3. \/ ReadFails(r, Unavailable(c))
      \/ Succeeds(r, StopAt(c, j, "conflict", "conflict"))
      \/ /\ Mine(c, j).status = "applied"
         /\ Succeeds(r, Goto(Sees(c, j), "verify", j + 1))
      \/ Succeeds(r, SaveThen(Mark(Sees(c, j), j, "applied", c.entry.status),
                              "verify", j + 1))
  BY DEF VerifyStep
<1> HIDE DEF c
<1>4. j \in DOMAIN c.entry.steps /\ Mine(c, j) \in StepState /\ j \in Nat /\ j + 1 \in Nat
  BY <1>1, <1>2 DEF IsFirst, ToVerify, Ahead
<1>5. \A k \in DOMAIN c.entry.steps \ {j} :
         k < j + 1 /\ Mine(c, k).verified => Mine(c, k).status = "applied"
  <2> SUFFICES ASSUME NEW k \in DOMAIN c.entry.steps \ {j}, k < j + 1, Mine(c, k).verified
               PROVE  Mine(c, k).status = "applied"
    OBVIOUS
  <2>1. k \in Nat /\ ~(j <= k)
    BY <1>1, <1>4
  <2>2. k < c.at
    BY <1>1, <1>2, <2>1 DEF IsFirst, ToVerify, Ahead
  <2> QED
    BY <1>1, <2>2 DEF SettledAt, Mine
<1>6. CASE ReadFails(r, Unavailable(c))
  <2>1. "unknown" \in EntryStatus /\ "unknown" # "completed" /\ c.pc # "save"
    BY <1>1 DEF EntryStatus
  <2>2. Settled(Finish(c, "unknown")) /\ Linked(Finish(c, "unknown"))
    BY <1>1, <2>1, FinishLinked
  <2> QED
    BY <1>6, <2>2, LoopLinked DEF Unavailable
<1>7. CASE Succeeds(r, StopAt(c, j, "conflict", "conflict"))
  <2>1. "conflict" \in StepStatus /\ "conflict" \in EntryStatus
        /\ "conflict" # "completed" /\ c.pc # "save"
    BY <1>1 DEF StepStatus, EntryStatus
  <2>2. Settled(StopAt(c, j, "conflict", "conflict"))
        /\ Linked(StopAt(c, j, "conflict", "conflict"))
    BY <1>1, <1>4, <2>1, StopLinked
  <2> QED
    BY <1>7, <2>2, LoopLinked
<1>8. CASE /\ Mine(c, j).status = "applied"
           /\ Succeeds(r, Goto(Sees(c, j), "verify", j + 1))
  <2>1. "verify" \in Label /\ "verify" # "save" /\ c.pc # "save"
    BY <1>1 DEF Label
  <2>2. SettledAt(c, "verify", j + 1)
    BY <1>1, <1>5, <1>8 DEF SettledAt, Mine
  <2>3. Settled(Goto(Sees(c, j), "verify", j + 1)) /\ Linked(Goto(Sees(c, j), "verify", j + 1))
    BY <1>1, <1>4, <2>1, <2>2, GotoLinked
  <2> QED
    BY <1>8, <2>3, LoopLinked
<1>9. CASE Succeeds(r, SaveThen(Mark(Sees(c, j), j, "applied", c.entry.status),
                                "verify", j + 1))
  <2> DEFINE b == Sees(c, j)
             s == [Mine(b, j) EXCEPT !.status = "applied"]
  <2>1. Mine(b, j) = Mine(c, j)
    BY <1>1, <1>4, SeesFacts DEF Mine
  <2>2. s \in StepState /\ s.verified = Mine(c, j).verified
        /\ s.attempts = Mine(c, j).attempts /\ s.status = "applied"
    BY <1>4, <2>1 DEF StepState, StepStatus
  <2> HIDE DEF s
  <2>3. "verify" \in Label /\ c.entry.status # "completed" /\ c.pc # "save"
    BY <1>1 DEF Label, Ended
  <2>4. LET d == SaveThen(Put(b, j, s, c.entry.status), "verify", j + 1) IN
        Settled(d) /\ Linked(d)
    BY <1>1, <1>4, <1>5, <2>2, <2>3, PutLinked
  <2> QED
    BY <1>9, <2>4, LoopLinked DEF Mark, s, b
<1> QED
  BY <1>3, <1>6, <1>7, <1>8, <1>9

\* Behind the verify loop every verified step is applied; behind the apply loop
\* every step is verified, so the operation may complete.
LEMMA DoneLinked ==
    ASSUME IInv, CallsLinked, NEW r \in Runner, VerifyDone(r) \/ CheckDone(r) \/ ApplyDone(r)
    PROVE  CallsLinked'
<1> DEFINE c == call[r]
<1>1. /\ c \in Call /\ c.pc \in {"verify", "check", "apply"} /\ c.pc # "save"
      /\ c.known > 0 /\ journal[c.op] \in Entry
      /\ Linked(c) /\ ~Ended(c.entry) /\ SettledAt(c, c.pc, c.at)
      /\ c.at \in Nat /\ Good(c, journal)
      /\ \A k \in DOMAIN c.entry.steps : k \in Nat /\ Mine(c, k) \in StepState
  BY LoopSettled DEF VerifyDone, CheckDone, ApplyDone, At
<1>2. \/ c.pc = "verify" /\ ToVerify(c) = {} /\ Succeeds(r, Goto(c, "check", 1))
      \/ c.pc = "check" /\ Succeeds(r, Goto(c, "apply", 1))
      \/ c.pc = "apply" /\ ToApply(c) = {} /\ Succeeds(r, Finish(c, "completed"))
  BY DEF VerifyDone, CheckDone, ApplyDone, At
<1> HIDE DEF c
<1>3. \A k \in DOMAIN c.entry.steps : k < c.at \/ c.at <= k
  BY <1>1
<1>4. ASSUME NEW p \in {"check", "apply"}, SettledAt(c, p, 1), Succeeds(r, Goto(c, p, 1))
      PROVE  CallsLinked'
  <2>1. p \in Label /\ p # "save" /\ 1 \in Nat
    BY DEF Label
  <2>2. Settled(Goto(c, p, 1)) /\ Linked(Goto(c, p, 1))
    BY <1>1, <1>4, <2>1, GotoLinked
  <2> QED
    BY <1>4, <2>2, LoopLinked
<1>5. c.pc = "verify" /\ ToVerify(c) = {} => SettledAt(c, "check", 1)
  BY <1>1, <1>3 DEF SettledAt, ToVerify, Ahead, Mine
<1>6. c.pc = "check" => SettledAt(c, "apply", 1)
  BY <1>1 DEF SettledAt
<1>7. CASE c.pc = "apply" /\ ToApply(c) = {} /\ Succeeds(r, Finish(c, "completed"))
  <2>1. \A k \in DOMAIN c.entry.steps : c.entry.steps[k].status = "applied"
    BY <1>1, <1>3, <1>7 DEF ToApply, Ahead, Mine, Good, Position, Placed
  <2>2. \A k \in DOMAIN c.entry.steps : Mine(c, k).verified
    BY <1>1, <2>1 DEF Good, Evident, Mine
  <2>3. "completed" \in EntryStatus
    BY DEF EntryStatus
  <2>4. Settled(Finish(c, "completed")) /\ Linked(Finish(c, "completed"))
    BY <1>1, <2>2, <2>3, FinishLinked
  <2> QED
    BY <1>7, <2>4, LoopLinked
<1> QED
  BY <1>2, <1>4, <1>5, <1>6, <1>7

\* A target that is found after its step is recorded as verified for the first
\* time; another that is not before its step stops the call.
LEMMA RecogniseLinked ==
    ASSUME IInv, CallsLinked, NEW r \in Runner, NEW j \in StepNo, NEW loop \in {"check", "apply"},
           At(r, loop), IsFirst(j, ToApply(call[r])), Recognise(r, j, loop)
    PROVE  CallsLinked'
<1> DEFINE c == call[r]
<1>1. /\ c \in Call /\ c.pc = loop /\ c.pc # "save" /\ c.known > 0 /\ journal[c.op] \in Entry
      /\ Linked(c) /\ ~Ended(c.entry) /\ SettledAt(c, loop, c.at)
      /\ \A k \in DOMAIN c.entry.steps : k \in Nat /\ Mine(c, k) \in StepState
  BY LoopSettled DEF At
<1>2. \/ /\ Reached(c, j)
         /\ Succeeds(r, SaveThen(Applied(Sees(c, j), j, "running"), loop, j + 1))
      \/ Succeeds(r, StopAt(c, j, "conflict", "conflict"))
  BY DEF Recognise
<1>3. IsFirst(j, ToApply(c))
  OBVIOUS
<1> HIDE DEF c
<1>4. j \in DOMAIN c.entry.steps /\ j \in Nat
  BY <1>1, <1>3 DEF IsFirst, ToApply, Ahead
<1>5. \A k \in DOMAIN c.entry.steps : Mine(c, k).verified => Mine(c, k).status = "applied"
  BY <1>1 DEF SettledAt, Mine
<1>6. CASE /\ Reached(c, j)
           /\ Succeeds(r, SaveThen(Applied(Sees(c, j), j, "running"), loop, j + 1))
  <2>1. "running" \in EntryStatus /\ "running" # "completed"
    BY DEF EntryStatus
  <2>2. Mine(c, j).attempts > 0 \/ NoChange(c, j)
    BY <1>6 DEF Reached
  <2>3. LET d == SaveThen(Applied(Sees(c, j), j, "running"), loop, j + 1) IN
        Settled(d) /\ Linked(d)
    BY <1>1, <1>4, <1>5, <2>1, <2>2, AppliedLinked
  <2> QED
    BY <1>6, <2>3, LoopLinked
<1>7. CASE Succeeds(r, StopAt(c, j, "conflict", "conflict"))
  <2>1. "conflict" \in StepStatus /\ "conflict" \in EntryStatus /\ "conflict" # "completed"
    BY DEF StepStatus, EntryStatus
  <2>2. Settled(StopAt(c, j, "conflict", "conflict"))
        /\ Linked(StopAt(c, j, "conflict", "conflict"))
    BY <1>1, <1>4, <2>1, StopLinked
  <2> QED
    BY <1>7, <2>2, LoopLinked
<1> QED
  BY <1>2, <1>6, <1>7

\* The check loop and the apply loop come to steps that are not applied, so not
\* verified either: an intent is one more attempt at such a step.
LEMMA CheckLinked ==
    ASSUME IInv, CallsLinked, NEW r \in Runner, NEW j \in StepNo,
           CheckStep(r, j) \/ ApplyStep(r, j)
    PROVE  CallsLinked'
<1> DEFINE c == call[r]
           b == Sees(c, j)
<1>1. IsFirst(j, ToApply(c)) /\ (At(r, "check") \/ At(r, "apply"))
  BY DEF CheckStep, ApplyStep
<1>2. /\ c \in Call /\ c.pc \in {"check", "apply"} /\ c.pc # "save"
      /\ c.known > 0 /\ journal[c.op] \in Entry
      /\ Linked(c) /\ ~Ended(c.entry) /\ SettledAt(c, c.pc, c.at)
      /\ \A k \in DOMAIN c.entry.steps : k \in Nat /\ Mine(c, k) \in StepState
  BY <1>1, LoopSettled DEF At
<1>3. \/ ReadFails(r, Unavailable(c))
      \/ \E loop \in {"check", "apply"} : At(r, loop) /\ Recognise(r, j, loop)
      \/ c.pc = "check" /\ Succeeds(r, Goto(b, "check", j + 1))
      \/ Succeeds(r, SaveThen(Intent(b, j), "write", j))
  BY DEF CheckStep, ApplyStep, At
<1>4. CASE \E loop \in {"check", "apply"} : At(r, loop) /\ Recognise(r, j, loop)
  BY <1>1, <1>4, RecogniseLinked
<1> HIDE DEF c
<1>5. /\ j \in DOMAIN c.entry.steps /\ j \in Nat /\ j + 1 \in Nat
      /\ Mine(c, j).status # "applied" /\ Mine(c, j) \in StepState
  BY <1>1, <1>2 DEF IsFirst, ToApply, Ahead
<1>6. \A k \in DOMAIN c.entry.steps : Mine(c, k).verified => Mine(c, k).status = "applied"
  BY <1>2 DEF SettledAt, Mine
<1>7. CASE ReadFails(r, Unavailable(c))
  <2>1. "unknown" \in EntryStatus /\ "unknown" # "completed"
    BY DEF EntryStatus
  <2>2. Settled(Finish(c, "unknown")) /\ Linked(Finish(c, "unknown"))
    BY <1>2, <2>1, FinishLinked
  <2> QED
    BY <1>7, <2>2, LoopLinked DEF Unavailable
<1>8. CASE c.pc = "check" /\ Succeeds(r, Goto(b, "check", j + 1))
  <2>1. "check" \in Label /\ "check" # "save" /\ SettledAt(c, "check", j + 1)
    BY <1>2, <1>8 DEF Label, SettledAt
  <2>2. Settled(Goto(b, "check", j + 1)) /\ Linked(Goto(b, "check", j + 1))
    BY <1>2, <1>5, <2>1, GotoLinked
  <2> QED
    BY <1>8, <2>2, LoopLinked
<1>9. CASE Succeeds(r, SaveThen(Intent(b, j), "write", j))
  <2> DEFINE s == [status |-> "intent", attempts |-> Mine(b, j).attempts + 1,
                   verified |-> Mine(b, j).verified]
  <2>1. Mine(b, j) = Mine(c, j)
    BY <1>2, <1>5, SeesFacts DEF Mine
  <2>2. Mine(c, j).verified = FALSE
    BY <1>5, <1>6 DEF StepState
  <2>3. /\ s \in StepState /\ s.attempts = Mine(c, j).attempts + 1
        /\ s.verified = FALSE
    BY <1>5, <2>1, <2>2 DEF StepState, StepStatus
  <2> HIDE DEF s
  <2>4. "write" \in Label /\ "running" \in EntryStatus /\ "running" # "completed"
    BY DEF Label, EntryStatus
  <2>5. LET d == SaveThen(Put(b, j, s, "running"), "write", j) IN
        Settled(d) /\ Linked(d)
    BY <1>2, <1>5, <1>6, <2>2, <2>3, <2>4, PutLinked
  <2> QED
    BY <1>9, <2>5, LoopLinked DEF Intent, s
<1> QED
  BY <1>3, <1>4, <1>7, <1>8, <1>9

\* The read after a write verifies the step it has attempted, or stops.
LEMMA ReadBackLinked ==
    ASSUME IInv, CallsLinked, NEW r \in Runner, ReadBack(r)
    PROVE  CallsLinked'
<1> DEFINE c == call[r]
           j == c.at
<1>1. /\ c \in Call /\ c.pc = "readback" /\ c.pc # "save"
      /\ c.known > 0 /\ journal[c.op] \in Entry
      /\ Linked(c) /\ ~Ended(c.entry) /\ SettledAt(c, c.pc, c.at)
      /\ Good(c, journal) /\ c.entry.status \in EntryStatus
      /\ \A k \in DOMAIN c.entry.steps : k \in Nat /\ Mine(c, k) \in StepState
  BY LoopSettled DEF ReadBack, At
<1>2. j \in DOMAIN c.entry.steps /\ Mine(c, j).attempts > 0
  BY <1>1 DEF Good, Position, Placed, Mine
<1>3. \/ \E st \in StepStatus, es \in EntryStatus \ {"completed"} :
            Succeeds(r, StopAt(c, j, st, es)) \/ ReadFails(r, StopAt(c, j, st, es))
      \/ Succeeds(r, SaveThen(Applied(c, j, c.entry.status), "apply", j + 1))
  BY DEF ReadBack, StepStatus, EntryStatus
<1> HIDE DEF c, j
<1>4. ASSUME NEW st \in StepStatus, NEW es \in EntryStatus \ {"completed"},
             Succeeds(r, StopAt(c, j, st, es)) \/ ReadFails(r, StopAt(c, j, st, es))
      PROVE  CallsLinked'
  <2>1. Settled(StopAt(c, j, st, es)) /\ Linked(StopAt(c, j, st, es))
    BY <1>1, <1>2, StopLinked
  <2> QED
    BY <1>4, <2>1, LoopLinked
<1>5. CASE Succeeds(r, SaveThen(Applied(c, j, c.entry.status), "apply", j + 1))
  <2>1. \A k \in DOMAIN c.entry.steps : Mine(c, k).verified => Mine(c, k).status = "applied"
    BY <1>1 DEF SettledAt, Mine
  <2>2. c.entry.status # "completed"
    BY <1>1 DEF Ended
  <2>3. LET d == SaveThen(Applied(c, j, c.entry.status), "apply", j + 1) IN
        Settled(d) /\ Linked(d)
    BY <1>1, <1>2, <2>1, <2>2, AppliedLinked
  <2> QED
    BY <1>5, <2>3, LoopLinked
<1> QED
  BY <1>3, <1>4, <1>5

\* Sending the request changes neither the copy nor the journal.
LEMMA WriteLinked ==
    ASSUME IInv, CallsLinked, NEW r \in Runner, WriteStep(r)
    PROVE  CallsLinked'
<1> DEFINE c == call[r]
           d == Goto(c, "readback", c.at)
<1>1. /\ c \in Call /\ c.pc = "write" /\ c.pc # "save"
      /\ c.known > 0 /\ journal[c.op] \in Entry
      /\ Linked(c) /\ SettledAt(c, c.pc, c.at) /\ c.at \in Nat
  BY LoopSettled DEF WriteStep, At
<1>2. Becomes(r, d) /\ journal' = journal
  BY DEF WriteStep
<1> HIDE DEF c
<1>3. "readback" \in Label /\ "readback" # "save" /\ SettledAt(c, "readback", c.at)
  BY <1>1 DEF Label, SettledAt
<1>4. Settled(d) /\ Linked(d)
  BY <1>1, <1>3, GotoLinked
<1> QED
  BY <1>2, <1>4, LinkedStep

\* What a durable save leaves of the links: the call that saved holds what the
\* journal now holds, and every other copy of the entry is behind it.
LEMMA PersistLinked ==
    ASSUME IInv, CallsLinked, NEW r \in Runner, At(r, "save"), RevisionMatches(call[r]),
           Persist(call[r]), NEW d, Becomes(r, d),
           \/ d = NoCall
           \/ /\ d.op = call[r].op /\ d.entry = NextEntry(call[r])
              /\ d.known = call[r].known + 1
              /\ d.pc = call[r].ret.pc /\ d.at = call[r].ret.at /\ d.pc # "save"
    PROVE  CallsLinked'
<1> DEFINE c == call[r]
           e == NextEntry(c)
<1>1. /\ c \in Call /\ Good(c, journal) /\ Settled(c) /\ c.pc = "save" /\ TypeOK
      /\ RevisionMatches(c)
  BY Running, NoCallDiffers DEF At, IInv, CallsLinked
<1>2. /\ e \in Entry /\ e.revision = c.known + 1 /\ e.steps = c.entry.steps
      /\ journal'[c.op] = e
      /\ \A o \in OpId \ {c.op} : journal'[o] = journal[o]
  BY PersistFacts
<1>3. \A q \in Runner : call'[q] = IF q = r THEN d ELSE call[q]
  BY DEF IInv, TypeOK, Becomes
<1>4. \/ d = NoCall
      \/ /\ d.op = c.op /\ d.entry = e /\ d.known = c.known + 1
         /\ d.pc = c.ret.pc /\ d.at = c.ret.at /\ d.pc # "save"
  OBVIOUS
<1> HIDE DEF c
<1>5. e.status = c.entry.status
  BY <1>1, EntryPlan DEF NextEntry, Call, EntryOf
<1>6. c.op \in OpId /\ c.known \in Nat
  BY <1>1 DEF Call
<1> HIDE DEF e
<1> SUFFICES ASSUME NEW q \in Runner, NEW x, x = call'[q], x # NoCall
             PROVE  Settled(x) /\ Linked(x)'
  BY DEF CallsLinked, Settled, SettledAt, Linked
<1>7. CASE q = r
  <2>1. /\ x.op = c.op /\ x.entry = e /\ x.known = c.known + 1
        /\ x.pc = c.ret.pc /\ x.at = c.ret.at /\ x.pc # "save"
    BY <1>3, <1>4, <1>7
  <2>2. Settled(x)
    BY <1>1, <1>2, <1>5, <2>1 DEF Settled, SettledAt, Ended
  <2>3. x.known # 0 /\ Same(e, x.entry)
    BY <1>2, <1>6, <2>1, SameSelf
  <2>4. Linked(x)'
    BY <1>2, <2>1, <2>3 DEF Linked
  <2> QED
    BY <2>2, <2>4
<1>8. CASE q # r
  <2>1. x = call[q] /\ x \in Call /\ Good(x, journal) /\ Settled(x) /\ Linked(x)
    BY <1>1, <1>3, <1>8 DEF TypeOK, IInv, CallsGood, CallsLinked
  <2>2. x.op \in OpId /\ x.known \in Nat
    BY <2>1 DEF Call
  <2>3. CASE x.op # c.op
    BY <1>2, <2>1, <2>2, <2>3 DEF Linked
  <2>4. CASE x.op = c.op
    <3>1. x.known > 0 => x.known < e.revision
      <4> SUFFICES ASSUME x.known > 0
                   PROVE  x.known < e.revision
        OBVIOUS
      <4>1. journal[c.op] # NoEntry /\ journal[c.op].revision >= x.known
        BY <2>1, <2>4 DEF Good, Based
      <4>2. journal[c.op].revision = c.known
        BY <1>1, <4>1 DEF RevisionMatches
      <4> QED
        BY <1>2, <1>6, <2>2, <4>1, <4>2
    <3>2. e.revision \in Nat /\ journal'[x.op] = e
      BY <1>2, <1>6, <2>4
    <3>3. x.known > 0 => journal'[x.op].revision # x.known
      BY <2>2, <3>1, <3>2
    <3> QED
      BY <2>1, <3>3 DEF Linked
  <2> QED
    BY <2>3, <2>4
<1> QED
  BY <1>7, <1>8

\* The end of a call, and a save, keep the links.
LEMMA SaveLinked ==
    ASSUME IInv, CallsLinked, NEW r \in Runner,
           \/ Return(r) \/ SaveConflict(r) \/ SaveFailed(r) \/ Crash(r)
           \/ SaveDurable(r)
    PROVE  CallsLinked'
<1>1. CASE Return(r) \/ SaveConflict(r) \/ Crash(r)
  BY <1>1, LinkedStep DEF Return, SaveConflict, Crash
<1>2. CASE SaveFailed(r)
  <2>1. CASE UNCHANGED journal
    BY <1>2, <2>1, LinkedStep DEF SaveFailed
  <2>2. CASE RevisionMatches(call[r]) /\ Persist(call[r])
    BY <1>2, <2>2, PersistLinked DEF SaveFailed
  <2> QED
    BY <1>2, <2>1, <2>2 DEF SaveFailed
<1>3. CASE SaveDurable(r)
  <2> DEFINE c == call[r]
             d == Goto(Acknowledged(c), c.ret.pc, c.ret.at)
  <2>1. /\ At(r, "save") /\ RevisionMatches(c) /\ Persist(c) /\ Becomes(r, d)
    BY <1>3 DEF SaveDurable
  <2>2. c \in Call /\ NextEntry(c) \in Entry /\ Good(c, journal) /\ c.pc = "save"
    BY <2>1, Running, PersistFacts DEF At
  <2>3. /\ d.op = c.op /\ d.entry = NextEntry(c) /\ d.known = c.known + 1
        /\ d.pc = c.ret.pc /\ d.at = c.ret.at
    BY <2>2, GoesOnFacts
  <2>4. c.ret.pc # "save"
    BY <2>2 DEF Good, Position, SavedLabel
  <2> HIDE DEF d
  <2> QED
    BY <2>1, <2>3, <2>4, PersistLinked
<1> QED
  BY <1>1, <1>2, <1>3

\* Every step keeps the calls linked to the journal.
LEMMA LinkedIsInductive == IInv /\ CallsLinked /\ [Next]_vars => CallsLinked'
<1> SUFFICES ASSUME IInv, CallsLinked, [Next]_vars
             PROVE  CallsLinked'
  OBVIOUS
<1>1. ASSUME journal' = journal, call' = call
      PROVE  CallsLinked'
  BY <1>1 DEF CallsLinked, Settled, SettledAt, Linked
<1>2. CASE UNCHANGED vars
  BY <1>1, <1>2 DEF vars
<1>3. ASSUME NEW w \in late, LateWrite(w)
      PROVE  CallsLinked'
  BY <1>1, <1>3 DEF LateWrite
<1>4. ASSUME NEW t \in Target, NEW v \in Value, ExternalEdit(t, v)
      PROVE  CallsLinked'
  BY <1>1, <1>4 DEF ExternalEdit
<1>5. ASSUME NEW r \in Runner, Crash(r)
      PROVE  CallsLinked'
  BY <1>5, SaveLinked
<1>6. ASSUME NEW r \in Runner, Calls(r)
      PROVE  CallsLinked'
  BY <1>6, OpenLinked
<1>7. ASSUME NEW r \in Runner, Progress(r)
      PROVE  CallsLinked'
  BY <1>7, SaveLinked, VerifyLinked, DoneLinked, CheckLinked, WriteLinked, ReadBackLinked
  DEF Progress
<1> QED
  BY <1>2, <1>3, <1>4, <1>5, <1>6, <1>7 DEF Next, Environment

-----------------------------------------------------------------------------
(* The refinement.                                                          *)

\* A durable save is a step of DurableOperation, or none.
LEMMA PersistRefines ==
    ASSUME IInv, CallsLinked, NEW r \in Runner, At(r, "save"), RevisionMatches(call[r]),
           Persist(call[r])
    PROVE  [Promise!Next]_([o \in OpId |-> Abstract(journal[o])])
<1> DEFINE c == call[r]
           e == NextEntry(c)
<1>1. /\ c \in Call /\ Good(c, journal) /\ Linked(c) /\ c.pc = "save" /\ TypeOK
      /\ RevisionMatches(c) /\ journal' = [journal EXCEPT ![c.op] = e]
  BY Running, NoCallDiffers DEF At, IInv, CallsLinked, Persist
<1>2. e \in Entry
  BY PersistFacts
<1> HIDE DEF c
<1>3. /\ c.op \in OpId /\ c.entry \in Entry /\ c.known \in Nat
      /\ c.entry \in EntryOf(c.entry.plan)
  BY <1>1, EntryPlan DEF Call
<1>4. /\ e.plan = c.entry.plan /\ e.tenant = c.entry.tenant
      /\ e.session = c.entry.session /\ e.steps = c.entry.steps
      /\ e.status = c.entry.status
  BY <1>3 DEF NextEntry, EntryOf
<1> HIDE DEF e
<1>5. Same(c.entry, e)
  BY <1>3, <1>4, SameSelf
<1>6. CASE c.known = 0
  <2>1. journal[c.op] = NoEntry
    BY <1>1, <1>6 DEF RevisionMatches
  <2>2. \E q \in Runner, p \in PlanId : Same(NewEntry(q, p), e)
    BY <1>1, <1>5, <1>6 DEF Linked
  <2> QED
    BY <1>1, <1>2, <1>3, <2>1, <2>2, SaveMaps
<1>7. CASE c.known > 0
  <2>1. journal[c.op] # NoEntry /\ journal[c.op].revision = c.known
    BY <1>1, <1>7 DEF RevisionMatches
  <2>2. journal[c.op] \in Entry
    BY <1>1, <1>3, <2>1 DEF TypeOK
  <2>3. Allowed(journal[c.op], c.entry)
    BY <1>1, <1>7, <2>1 DEF Linked
  <2>4. Allowed(journal[c.op], e)
    BY <1>2, <1>3, <1>5, <2>2, <2>3, AllowedThenSame
  <2> QED
    BY <1>1, <1>2, <1>3, <2>1, <2>4, SaveMaps
<1> QED
  BY <1>3, <1>6, <1>7

\* Every step of the runner maps to a step of DurableOperation or to none.
LEMMA StepRefines ==
    IInv /\ CallsLinked /\ [Next]_vars =>
        [Promise!Next]_([o \in OpId |-> Abstract(journal[o])])
<1> SUFFICES ASSUME IInv, CallsLinked, [Next]_vars
             PROVE  [Promise!Next]_([o \in OpId |-> Abstract(journal[o])])
  OBVIOUS
<1>1. CASE journal' = journal
  BY <1>1
<1>2. CASE \E r \in Runner : At(r, "save") /\ RevisionMatches(call[r]) /\ Persist(call[r])
  BY <1>2, PersistRefines
<1>3. CASE UNCHANGED vars \/ Environment
  BY <1>1, <1>3 DEF vars, Environment, Crash, LateWrite, ExternalEdit
<1>4. ASSUME NEW r \in Runner, Calls(r)
      PROVE  journal' = journal
  BY <1>4 DEF Calls, RunNew, RunAgain, Resume, Opens
<1>5. ASSUME NEW r \in Runner, NEW d, Succeeds(r, d) \/ ReadFails(r, d)
      PROVE  journal' = journal
  BY <1>5 DEF Succeeds, ReadFails, Loop
<1>6. ASSUME NEW r \in Runner, NEW j \in StepNo,
             VerifyStep(r, j) \/ CheckStep(r, j) \/ ApplyStep(r, j)
      PROVE  journal' = journal
  BY <1>5, <1>6 DEF VerifyStep, CheckStep, ApplyStep, Recognise
<1>7. ASSUME NEW r \in Runner,
             VerifyDone(r) \/ CheckDone(r) \/ ApplyDone(r) \/ ReadBack(r)
      PROVE  journal' = journal
  BY <1>5, <1>7 DEF VerifyDone, CheckDone, ApplyDone, ReadBack
<1>8. ASSUME NEW r \in Runner,
             SaveDurable(r) \/ SaveConflict(r) \/ SaveFailed(r) \/ Return(r) \/ WriteStep(r)
      PROVE  \/ journal' = journal
             \/ At(r, "save") /\ RevisionMatches(call[r]) /\ Persist(call[r])
  BY <1>8 DEF SaveDurable, SaveConflict, SaveFailed, Return, WriteStep
<1> QED
  BY <1>1, <1>2, <1>3, <1>4, <1>6, <1>7, <1>8 DEF Next, Progress

\* The durable journal keeps what DurableOperation promises, whatever crashes,
\* fails or races: an approved plan is recorded once, with its owner, and never
\* changes; a step is attempted until a fresh read has verified it and never
\* after; an operation completes when every step is verified, and for good.
THEOREM PromiseIsKept == Spec => KeepsPromise
<1>1. Init => Promise!Init
  BY DEF Init, Promise!Init, Promise!Absent, Abstract
<1>2. Init => CallsLinked
  BY DEF Init, CallsLinked
<1>3. Init => IInv
  BY InitInv
<1>4. IInv /\ [Next]_vars => IInv'
  BY NextInv
<1> QED
  BY <1>1, <1>2, <1>3, <1>4, LinkedIsInductive, StepRefines, PTL
  DEF Spec, KeepsPromise, Promise!Spec

=============================================================================
