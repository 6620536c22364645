------------------------------ MODULE MCAccess ------------------------------
(* An instance of Access for TLC: two consents, of which one is renewed by two *)
(* sessions while it is removed and the other is created, and what processes   *)
(* may find in their settings.                                                 *)
EXTENDS Access, TLC

MCPath(c) == IF c \in {"t1", "t2"} THEN "token" ELSE c
MCOf(c) == IF c = "create" THEN "b2" ELSE "b1"

None == [k \in {} |-> "none"]
MCSettings ==
    {"env" :> ("YNAB_OP_PATH" :> "op://a") @@ [s \in {"codex shell", "codex mcp", "claude"} |-> None],
     "env" :> None @@ "codex shell" :> None
        @@ "codex mcp" :> ("YNAB_OP_PATH" :> "op://b" @@ "YNAB_API_TOKEN_FILE" :> "path")
        @@ "claude" :> ("YNAB_OP_PATH" :> "op://a")}

MCBackoff(n) == 2 ^ n
=============================================================================
