------------------------ MODULE MCStatementSplitter ------------------------
EXTENDS StatementSplitter

AllDialects == {"postgresql", "mysql", "sqlserver", "oracle", "sqlite"}

\* What the parsers get right: the scripts do without the constructs that
\* they misread.  Keywords that no rule is about are written in the heads of
\* loops only ("other-keywords"), which keeps the run small: elsewhere only a
\* LOOP in the body of a loop, which looks back to that loop's head, tells them
\* from other tokens.
MCUnused ==
  [postgresql |-> {}, mysql |-> {"definer", "repeat"},
   sqlserver |-> {"case-in-block", "distributed"},
   oracle |-> {"for-in-block", "if-exists", "grant-create", "slash-after-SQL",
               "case-in-loop-head", "long-loop-head", "other-keywords"},
   sqlite |-> {"transaction"}]
=============================================================================
