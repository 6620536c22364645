--------------------------- MODULE MCOAuthConsent ---------------------------
(* Instances of OAuthConsent for TLC: a1, a2 and a3 authorize one client,  *)
(* d1 deletes.                                                             *)
EXTENDS OAuthConsent, TLC

CONSTANTS a1, a2, a3, d1

MCPurpose(f) == IF f = d1 THEN "delete" ELSE "authorize"
OneParty(f) == IF f = d1 THEN "nobody" ELSE "client"

\* Authorizations of one party are interchangeable.
Authorizations == Permutations({a1, a2, a3})
=============================================================================
