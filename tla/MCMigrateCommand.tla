-------------------------- MODULE MCMigrateCommand --------------------------
(* Two processes over the same directories: versions v1 (rolled back          *)
(* as a whole) and v2 (two statements that commit one by one), and one        *)
(* repeatable script.                                                         *)
EXTENDS MigrateCommand

CONSTANTS a, b, v1, v2, r1

MCTwo == {a, b}
MCScripts == {v1, v2, r1}
MCOrder == [s \in Script |-> IF s = v1 THEN 1 ELSE IF s = v2 THEN 2 ELSE 3]
MCStmts == [s \in Script |-> IF s = v2 THEN 2 ELSE 1]
MCSame == [p \in Proc |-> Script]

\* One fault of each kind.
MCAllFaults == [k \in FaultKinds |-> 1]
=============================================================================
