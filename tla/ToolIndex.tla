----------------------------- MODULE ToolIndex ------------------------------
(***************************************************************************)
(* What a session is told of its tools and what it can call (index.js):    *)
(* the registration of tools and of guarded writes, ynab_tool_index, the   *)
(* two executors and preview_write_tool.  A tool is one of WRITE_TOOL_-    *)
(* METADATA or not (write), and a helper if its name begins with "ynab_".  *)
(* A session allows writes or not, and has credentials or not.             *)
(*                                                                         *)
(* A request comes with arguments that fit the tool's schema or not (fits),*)
(* and for a guarded write with a token of a preview or not (token).  The  *)
(* answer tells how far it gets: "runs" is the tool's own handler.         *)
(***************************************************************************)

\* server.registerTool: writes are registered where they are allowed; the
\* catalogue has all tools.
Registered(tool, session) == tool.write => session.writes

Executor == [name |-> "ynab_tool_execute", write |-> FALSE, helper |-> TRUE]
WriteExecutor == [name |-> "ynab_write_tool_execute", write |-> TRUE, helper |-> TRUE]

\* isGuardedWrite of registerTool.
Guarded(tool) == tool.write /\ tool # WriteExecutor

\* run: nothing without credentials.
Run(session, answer) == IF session.credentials THEN answer ELSE "missing_credentials"

\* The handler that is registered: a guarded write wants a token; helpers
\* answer by themselves.
Handle(tool, session, request) ==
    IF tool.helper THEN "runs"
    ELSE Run(session, IF Guarded(tool) /\ ~request.token THEN "preview_first" ELSE "runs")

\* A call of the tool itself, which the client's library checks.
Direct(tool, session, request) ==
    IF ~Registered(tool, session) THEN "unknown"
    ELSE IF ~request.fits THEN "invalid"
    ELSE Handle(tool, session, request)

\* ynab_tool_execute.
Execute(tool, session, request) ==
    IF tool.helper THEN "recursive"
    ELSE IF tool.write THEN "is_write"
    ELSE IF ~request.fits THEN "invalid"
    ELSE Handle(tool, session, request)

\* ynab_write_tool_execute, where it is registered.
WriteExecute(tool, session, request) ==
    IF ~Registered(WriteExecutor, session) THEN "unknown"
    ELSE IF tool.helper THEN "recursive"
    ELSE IF ~tool.write THEN "is_read"
    ELSE IF ~request.fits THEN "invalid"
    ELSE Handle(tool, session, request)

\* preview_write_tool.
Preview(tool, session, request) ==
    Run(session, IF ~session.writes THEN "disabled"
                 ELSE IF ~Guarded(tool) THEN "not_a_write"
                 ELSE IF ~request.fits THEN "invalid" ELSE "runs")

\* listRegisteredYnabTools and what else ynab_tool_index tells.
Status(tool, session) ==
    IF tool.write /\ ~session.writes THEN "hidden"
    ELSE IF ~session.credentials THEN "discoverable"
    ELSE "available"

Index(tools, session) ==
    [rows |-> {[tool |-> t, registered |-> Registered(t, session), status |-> Status(t, session)] :
               t \in {t \in tools : ~t.helper}},
     writeExecutor |-> session.writes /\ session.credentials]
=============================================================================
