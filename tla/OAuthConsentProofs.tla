------------------------- MODULE OAuthConsentProofs -------------------------
(***************************************************************************)
(* Proofs about OAuthConsent for any set of flows, any parties and any     *)
(* bound on failures.  The invariant says what the generations of prepared *)
(* forms tell, in which order grants may revoke each other, and that a     *)
(* revoked grant of an untouched party was superseded by one that still    *)
(* works and was completed later.                                          *)
(***************************************************************************)
EXTENDS OAuthConsent, TLAPS

\* Where a flow may be once its grant exists.
Late == {"exists", "revoke", "remove", "cleanup", "done", "failed"}

Verified(f) == Purpose(f) = "authorize" /\ loc[f] \in {"revoke", "done"}
Completed(f) == Purpose(f) = "authorize" /\ loc[f] \in {"exists", "revoke", "done"}

\* A grant with its credential that no rollback will take away.
Solid(w) == w \in grants /\ w \in creds /\ loc[w] \in {"revoke", "done", "failed"}

\* A form prepared before a wipe has an older generation.
Stamps ==
    \A f \in Flow :
        /\ gen[f] <= generation
        /\ f \in outdated => gen[f] < generation /\ Prepared(f)

Purposes ==
    \A f \in Flow :
        /\ loc[f] \in {"callback", "create", "capture", "complete", "exists", "revoke"} =>
              Purpose(f) = "authorize"
        /\ loc[f] \in {"list", "purge", "wipe"} => Purpose(f) = "delete"

GrantsAreLate == \A g \in grants : loc[g] \in Late

\* Captured grants are of the same party and were completed before.
Captures ==
    \A f \in Flow : loc[f] \in {"complete", "exists", "revoke"} =>
        \A g \in captured[f] :
            /\ Party(g) = Party(f) /\ g # f /\ loc[g] \in Late
            /\ loc[f] # "complete" => rank[g] < rank[f]

Ranks == \A f \in Flow : rank[f] <= completed

Credentialed ==
    \A f \in Flow : Verified(f) =>
        f \in creds \cup wiped /\ (Party(f) \notin touched => f \in creds)

Superseded ==
    \A f \in Flow : Completed(f) /\ Party(f) \notin touched /\ f \notin grants =>
        \E w \in Flow : Solid(w) /\ Party(w) = Party(f) /\ rank[w] > rank[f]

DeletionInv == TypeOK /\ Stamps /\ NoResurrection
GrantInv == Purposes /\ GrantsAreLate /\ Captures /\ Ranks /\ Credentialed /\ Superseded

Steps(f) ==
    \/ Ask(f) \/ Agree(f) \/ Callback(f) \/ ReadGeneration(f) \/ Show(f) \/ Confirm(f)
    \/ Create(f) \/ CreateLost(f) \/ Capture(f) \/ Complete(f) \/ AuthorizeFails(f)
    \/ Exists(f) \/ ExistsFails(f) \/ Revoke(f) \/ Remove(f) \/ RemoveFails(f) \/ Cleanup(f)
    \/ List(f) \/ Purge(f) \/ Wipe(f) \/ WipeLost(f) \/ Stop(f)

LEMMA StepsAreNext == ASSUME Next PROVE \E f \in Flow : Steps(f)
BY DEF Next, Step, Trouble, Steps

-----------------------------------------------------------------------------
(* Deletion.                                                               *)

LEMMA DeletionInit == ASSUME Init PROVE DeletionInv
BY ConsentAssumption DEF Init, DeletionInv, TypeOK, Location, Stamps, NoResurrection

LEMMA DeletionStep == ASSUME DeletionInv, [Next]_vars PROVE DeletionInv'
<1> USE ConsentAssumption DEF DeletionInv, TypeOK, Stamps, NoResurrection, Goto, Prepared
<1>1. CASE UNCHANGED vars
  BY <1>1 DEF vars, store, history, marks
<1>2. CASE Next
  <2>1. PICK f \in Flow : Steps(f)
    BY <1>2, StepsAreNext
  <2> USE DEF Location, Fault, store, history, marks
  <2>2. CASE Ask(f) BY <2>2 DEF Ask
  <2>3. CASE Agree(f) BY <2>3 DEF Agree
  <2>4. CASE Callback(f) BY <2>4 DEF Callback
  <2>5. CASE ReadGeneration(f) BY <2>5 DEF ReadGeneration
  <2>6. CASE Show(f) BY <2>6 DEF Show
  <2>7. CASE Confirm(f) BY <2>7 DEF Confirm
  <2>8. CASE Create(f) \/ CreateLost(f) BY <2>8 DEF Create, CreateLost, Current
  <2>9. CASE Capture(f) BY <2>9 DEF Capture, Peers
  <2>10. CASE Complete(f) BY <2>10 DEF Complete
  <2>11. CASE AuthorizeFails(f) BY <2>11 DEF AuthorizeFails
  <2>12. CASE Exists(f) \/ ExistsFails(f) BY <2>12 DEF Exists, ExistsFails
  <2>13. CASE Revoke(f) BY <2>13 DEF Revoke
  <2>14. CASE Remove(f) \/ RemoveFails(f) BY <2>14 DEF Remove, RemoveFails
  <2>15. CASE Cleanup(f) BY <2>15 DEF Cleanup
  <2>16. CASE List(f) BY <2>16 DEF List
  <2>17. CASE Purge(f) BY <2>17 DEF Purge
  <2>18. CASE Wipe(f) \/ WipeLost(f) BY <2>18 DEF Wipe, WipeLost, WipeAll, NextGeneration
  <2>19. CASE Stop(f) BY <2>19 DEF Stop, Ended
  <2>20. QED
    BY <2>1, <2>2, <2>3, <2>4, <2>5, <2>6, <2>7, <2>8, <2>9, <2>10, <2>11, <2>12, <2>13,
       <2>14, <2>15, <2>16, <2>17, <2>18, <2>19 DEF Steps
<1>3. QED
  BY <1>1, <1>2

\* The flows, the credential store and the provider's grants stay within their
\* types.
THEOREM ConsentTypeCorrect == Spec => []TypeOK
<1>1. Init => DeletionInv BY DeletionInit
<1>2. DeletionInv /\ [Next]_vars => DeletionInv' BY DeletionStep
<1>3. DeletionInv => TypeOK BY DEF DeletionInv
<1>4. QED BY <1>1, <1>2, <1>3, PTL DEF Spec

\* No credential comes from a final form prepared before a deletion, whatever
\* flows and deletions interleave, fail or stop.
THEOREM DeletionIsFinal == Spec => []NoResurrection
<1>1. Init => DeletionInv BY DeletionInit
<1>2. DeletionInv /\ [Next]_vars => DeletionInv' BY DeletionStep
<1>3. DeletionInv => NoResurrection BY DEF DeletionInv
<1>4. QED BY <1>1, <1>2, <1>3, PTL DEF Spec

-----------------------------------------------------------------------------
(* Grants.                                                                 *)

LEMMA GrantInit == ASSUME Init PROVE GrantInv
BY DEF Init, GrantInv, Purposes, GrantsAreLate, Captures, Ranks, Credentialed, Superseded, Verified, Completed

\* Every step keeps the order of the grants and the purposes of the flows that
\* hold them.
LEMMA GrantBasics ==
    ASSUME TypeOK, Purposes, GrantsAreLate, Captures, Ranks, NEW f \in Flow, Steps(f)
    PROVE Purposes' /\ GrantsAreLate' /\ Captures' /\ Ranks'
<1> USE ConsentAssumption DEF TypeOK, Purposes, GrantsAreLate, Captures, Ranks, Late, Goto, Location, Fault, store, history, marks
<1>1. CASE Ask(f) BY <1>1 DEF Ask
<1>2. CASE Agree(f) BY <1>2 DEF Agree
<1>3. CASE Callback(f) BY <1>3 DEF Callback
<1>4. CASE ReadGeneration(f) BY <1>4 DEF ReadGeneration
<1>5. CASE Show(f) BY <1>5 DEF Show
<1>6. CASE Confirm(f) BY <1>6 DEF Confirm
<1>7. CASE Create(f) \/ CreateLost(f) BY <1>7 DEF Create, CreateLost
<1>8. CASE Capture(f) BY <1>8 DEF Capture, Peers
<1>9. CASE Complete(f) BY <1>9 DEF Complete
<1>10. CASE AuthorizeFails(f) BY <1>10 DEF AuthorizeFails
<1>11. CASE Exists(f) \/ ExistsFails(f) BY <1>11 DEF Exists, ExistsFails
<1>12. CASE Revoke(f) BY <1>12 DEF Revoke
<1>13. CASE Remove(f) \/ RemoveFails(f) BY <1>13 DEF Remove, RemoveFails
<1>14. CASE Cleanup(f) BY <1>14 DEF Cleanup
<1>15. CASE List(f) BY <1>15 DEF List
<1>16. CASE Purge(f) BY <1>16 DEF Purge
<1>17. CASE Wipe(f) \/ WipeLost(f) BY <1>17 DEF Wipe, WipeLost, WipeAll
<1>18. CASE Stop(f) BY <1>18 DEF Stop, Ended
<1>19. QED
  BY <1>1, <1>2, <1>3, <1>4, <1>5, <1>6, <1>7, <1>8, <1>9, <1>10, <1>11, <1>12, <1>13,
     <1>14, <1>15, <1>16, <1>17, <1>18 DEF Steps

\* A flow past its check keeps its credential until its party is touched.
LEMMA CredentialsStay ==
    ASSUME TypeOK, Purposes, Credentialed, NEW f \in Flow, Steps(f)
    PROVE Credentialed'
<1> USE ConsentAssumption DEF TypeOK, Purposes, Credentialed, Verified, Goto, Location, Fault, store, history, marks
<1>1. CASE Wipe(f) \/ WipeLost(f)
  <2>1. /\ wiped' = wiped \cup {g \in Flow : Verified(g)}
        /\ touched' = touched \cup {Party(g) : g \in creds}
        /\ \A g \in Flow : Verified(g)' => Verified(g)
    BY <1>1 DEF Wipe, WipeLost, WipeAll
  <2> HIDE DEF Verified
  <2>2. QED BY <2>1
<1>2. CASE Purge(f) BY <1>2 DEF Purge
<1>3. CASE Create(f) \/ CreateLost(f) \/ Exists(f) \/ ExistsFails(f)
  BY <1>3 DEF Create, CreateLost, Exists, ExistsFails
<1>4. CASE Remove(f) \/ RemoveFails(f) BY <1>4 DEF Remove, RemoveFails
<1>5. CASE Revoke(f) \/ Complete(f) \/ AuthorizeFails(f) \/ Cleanup(f)
  BY <1>5 DEF Revoke, Complete, AuthorizeFails, Cleanup
<1>6. CASE Ask(f) \/ Agree(f) \/ Callback(f) \/ ReadGeneration(f) \/ Show(f) \/ Confirm(f)
  BY <1>6 DEF Ask, Agree, Callback, ReadGeneration, Show, Confirm
<1>7. CASE Capture(f) \/ List(f) \/ Stop(f)
  BY <1>7 DEF Capture, List, Stop, Ended
<1>8. QED BY <1>1, <1>2, <1>3, <1>4, <1>5, <1>6, <1>7 DEF Steps

\* Revoking h leaves its party with a later grant that works: the revoking
\* flow's own, or the one that superseded that.
LEMMA RevocationIsSafe ==
    ASSUME TypeOK, Purposes, Captures, Credentialed, Superseded,
           NEW k \in Flow, NEW h \in captured[k], loc[k] = "revoke", Party(h) \notin touched
    PROVE \E w \in Flow : Solid(w) /\ Party(w) = Party(h) /\ rank[w] > rank[h]
<1>1. /\ h \in Flow /\ Party(h) = Party(k) /\ rank[h] < rank[k]
      /\ Purpose(k) = "authorize"
  BY DEF TypeOK, Purposes, Captures
<1>2. rank[h] \in Nat /\ rank[k] \in Nat
  BY <1>1 DEF TypeOK
<1>3. CASE k \in grants
  <2>1. Solid(k) BY <1>1, <1>3 DEF Credentialed, Verified, Solid
  <2>2. QED BY <1>1, <1>2, <2>1
<1>4. CASE k \notin grants
  <2>1. PICK w \in Flow : Solid(w) /\ Party(w) = Party(k) /\ rank[w] > rank[k]
    BY <1>1, <1>4 DEF Superseded, Completed
  <2>2. rank[w] \in Nat BY DEF TypeOK
  <2>3. QED BY <1>1, <1>2, <2>1, <2>2
<1>5. QED BY <1>3, <1>4

LEMMA SupersededStays ==
    ASSUME TypeOK, Purposes, GrantsAreLate, Captures, Credentialed, Superseded,
           NEW f \in Flow, Steps(f)
    PROVE Superseded'
<1> USE ConsentAssumption DEF TypeOK, Superseded, Completed, Solid, Goto, Fault, store, history, marks
<1>1. CASE Wipe(f) \/ WipeLost(f)
  <2>1. /\ touched' = touched \cup {Party(g) : g \in creds} /\ UNCHANGED grants
        /\ \A g \in Flow : Completed(g)' => Completed(g)
    BY <1>1 DEF Wipe, WipeLost, WipeAll, Purposes
  <2>2. \A g \in Flow : Completed(g) /\ g \notin grants => Party(g) \in touched'
    BY <2>1
  <2> HIDE DEF Completed
  <2>3. QED BY <2>1, <2>2
<1>2. CASE Purge(f) BY <1>2 DEF Purge
<1>3. CASE Complete(f) BY <1>3 DEF Complete, GrantsAreLate, Late
<1>4. CASE Revoke(f)
  <2>1. CASE grants' = grants BY <1>4, <2>1 DEF Revoke
  <2>2. CASE grants' # grants
    <3>1. PICK h \in captured[f] : grants' = grants \ {h}
      BY <1>4, <2>2 DEF Revoke
    <3>2. UNCHANGED <<loc, creds, rank, touched>> /\ loc[f] = "revoke"
      BY <1>4, <2>2 DEF Revoke
    <3>3. SUFFICES ASSUME NEW g \in Flow, Completed(g), Party(g) \notin touched, g \notin grants'
                   PROVE \E w \in Flow : Solid(w)' /\ Party(w) = Party(g) /\ rank[w] > rank[g]
      BY <3>2
    <3>4. ASSUME NEW w \in Flow, Solid(w), w # h PROVE Solid(w)'
      BY <3>1, <3>2, <3>4
    <3>5. h \in Flow /\ rank[h] \in Nat /\ rank[g] \in Nat /\ \A w \in Flow : rank[w] \in Nat
      OBVIOUS
    <3>6. CASE Party(h) = Party(g)
      <4>1. PICK w \in Flow : Solid(w) /\ Party(w) = Party(h) /\ rank[w] > rank[h]
        BY <3>2, <3>3, <3>6, RevocationIsSafe
      <4>2. Solid(w)' BY <3>4, <3>5, <4>1
      <4>3. CASE g = h BY <4>1, <4>2, <4>3
      <4>4. CASE g # h
        <5>1. PICK v \in Flow : Solid(v) /\ Party(v) = Party(g) /\ rank[v] > rank[g]
          BY <3>1, <3>3, <4>4
        <5>2. CASE v = h BY <3>5, <3>6, <4>1, <4>2, <5>1, <5>2
        <5>3. CASE v # h BY <3>4, <5>1, <5>3
        <5>4. QED BY <5>2, <5>3
      <4>5. QED BY <4>3, <4>4
    <3>7. CASE Party(h) # Party(g)
      <4>1. PICK v \in Flow : Solid(v) /\ Party(v) = Party(g) /\ rank[v] > rank[g]
        BY <3>1, <3>3, <3>7
      <4>2. QED BY <3>4, <3>7, <4>1
    <3>8. QED BY <3>6, <3>7
  <2>3. QED BY <2>1, <2>2
<1>5. CASE AuthorizeFails(f) \/ Remove(f) \/ RemoveFails(f) \/ Cleanup(f)
  BY <1>5 DEF AuthorizeFails, Remove, RemoveFails, Cleanup
<1>6. CASE Create(f) \/ CreateLost(f) \/ Capture(f) \/ Exists(f) \/ ExistsFails(f)
  BY <1>6 DEF Create, CreateLost, Capture, Exists, ExistsFails
<1>7. CASE Ask(f) \/ Agree(f) \/ Callback(f) \/ ReadGeneration(f) \/ Show(f) \/ Confirm(f)
  BY <1>7 DEF Ask, Agree, Callback, ReadGeneration, Show, Confirm
<1>8. CASE List(f) \/ Stop(f) BY <1>8 DEF List, Stop, Ended
<1>9. QED BY <1>1, <1>2, <1>3, <1>4, <1>5, <1>6, <1>7, <1>8 DEF Steps

LEMMA GrantStep == ASSUME TypeOK, GrantInv, [Next]_vars PROVE GrantInv'
<1>1. CASE UNCHANGED vars
  BY <1>1 DEF vars, store, history, marks, GrantInv, Purposes, GrantsAreLate, Captures, Ranks,
     Credentialed, Superseded, Solid, Verified, Completed
<1>2. CASE Next
  <2>1. PICK f \in Flow : Steps(f) BY <1>2, StepsAreNext
  <2>2. QED BY <2>1, GrantBasics, CredentialsStay, SupersededStays DEF GrantInv
<1>3. QED BY <1>1, <1>2

LEMMA GrantsAreInvariant == Spec => [](TypeOK /\ GrantInv)
<1>1. Init => GrantInv BY GrantInit
<1>2. GrantInv /\ TypeOK /\ [Next]_vars => GrantInv' BY GrantStep
<1>3. QED BY <1>1, <1>2, ConsentTypeCorrect, PTL DEF Spec

\* A client is redirected only to a grant whose credential is there, unless a
\* deletion wiped it after the last look.
THEOREM RedirectsHaveCredentials == Spec => []RedirectHasCredential
<1>1. GrantInv => RedirectHasCredential
  BY DEF GrantInv, Credentialed, Verified, RedirectHasCredential
<1>2. QED BY <1>1, GrantsAreInvariant, PTL

\* A client that was redirected and whom no deletion has reached has a grant
\* with its credential, however many of its authorizations replace each other.
THEOREM ClientsStayConnected == Spec => []StaysConnected
<1>1. TypeOK /\ GrantInv => StaysConnected
  <2> SUFFICES ASSUME GrantInv, NEW f \in Flow, Purpose(f) = "authorize", loc[f] = "done", Party(f) \notin touched
               PROVE \E g \in grants \cap creds : Party(g) = Party(f)
    BY DEF StaysConnected
  <2>1. CASE f \in grants BY <2>1 DEF GrantInv, Credentialed, Verified
  <2>2. CASE f \notin grants BY <2>2 DEF GrantInv, Superseded, Completed, Solid
  <2>3. QED BY <2>1, <2>2
<1>2. QED BY <1>1, GrantsAreInvariant, PTL

=============================================================================
