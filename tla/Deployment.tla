----------------------------- MODULE Deployment -----------------------------
(***************************************************************************)
(* What migrate promises of the versioned scripts of a schema, whatever    *)
(* processes run it, die or lose their connections: a version is applied   *)
(* once, and never touched again.  There are no processes here, no lock    *)
(* and no transactions, only what a client of the database can see.        *)
(***************************************************************************)
EXTENDS Naturals

CONSTANTS
  Version,     \* the versioned scripts
  Order,       \* their versions
  Stmts,       \* number of statements of each
  Whole,       \* the ones that are applied as a whole or not at all
  Strict       \* no version after a higher one

VARIABLES
  deployed,    \* versions that the history reports as successful
  executed     \* statement executions of each version in the database

Init ==
  /\ deployed = {}
  /\ executed = [v \in Version |-> 0]

\* A statement of a version that is applied piece by piece, at the first
\* attempt or at one after a failure.
Execute(v) ==
  /\ v \notin Whole
  /\ v \notin deployed
  /\ executed' = [executed EXCEPT ![v] = @ + 1]
  /\ UNCHANGED deployed

\* The version is done: reported with its statements if it is a whole, and
\* after them if it is not.
Deploy(v) ==
  /\ v \notin deployed
  /\ Strict => \A w \in deployed : Order[w] < Order[v]
  /\ deployed' = deployed \cup {v}
  /\ IF v \in Whole
       THEN executed[v] = 0 /\ executed' = [executed EXCEPT ![v] = Stmts[v]]
       ELSE executed[v] >= Stmts[v] /\ UNCHANGED executed

Next == \E v \in Version : Execute(v) \/ Deploy(v)

Spec == Init /\ [][Next]_<<deployed, executed>>
=============================================================================
