---------------------------- MODULE MCScriptRuns ----------------------------
(* Two versions, the first with two statements, and their undo scripts; the  *)
(* second version is written in Python and has no statements.                *)
EXTENDS ScriptRuns

MCScript == {"V1", "V2", "U1", "U2"}
MCStatements == [s \in MCScript |-> CASE s = "V1" -> 2 [] s = "V2" -> 0 [] OTHER -> 1]
MCPending == {<<>>, <<"V1">>, <<"V1", "V2">>}
MCToUndo == {<<"U1">>, <<"U2", "U1">>}
=============================================================================
