--------------------------- MODULE MCCleanCommand ---------------------------
(* Three objects of the kinds between which the databases have rules.        *)
EXTENDS CleanCommand

MCKindsOf ==
  [sqlite |-> {"view", "trigger", "table"}, mysql |-> {"trigger", "view", "table"},
   postgresql |-> {"view", "table", "routine"},
   sqlserver |-> {"foreign_key", "view", "table", "routine"},
   oracle |-> {"view", "table", "program"}, db2 |-> {"trigger", "foreign_key", "table", "function"}]
MCDialects == DOMAIN MCKindsOf
=============================================================================
