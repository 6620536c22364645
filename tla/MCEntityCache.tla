--------------------------- MODULE MCEntityCache ---------------------------
(* Instances of EntityCache for TLC.  "all" is a list with deltas, "one"   *)
(* a filtered list, of the rows of value 1, without.                       *)
EXTENDS EntityCache

CONSTANTS r1, r2

MCMember(k, v) == IF k = "all" THEN v # 0 ELSE v = 1
MCDelta(k) == k = "all"

\* Readers are interchangeable.
Readers == Permutations(Reader)
=============================================================================
