---------------------------- MODULE Subsequences ----------------------------
(***************************************************************************)
(* Lists from which entries have been filtered out.  SelectSeq is          *)
(* recursive; this definition can be reasoned about.                       *)
(***************************************************************************)
EXTENDS Integers, Sequences, FiniteSets

\* The numbers in K, the smallest first.
Ascending(K) ==
  LET rank(i) == Cardinality({j \in K : j <= i})
  IN [n \in 1 .. Cardinality(K) |-> CHOOSE i \in K : rank(i) = n]

\* The entries of `s` at the positions in K, in their order.
Subsequence(s, K) ==
  LET position == Ascending(K)
  IN [n \in 1 .. Cardinality(K) |-> s[position[n]]]
=============================================================================
