-------------------------- MODULE MCHistoryCommands --------------------------
(* Two SQL versions with undo scripts and a repeatable script. *)
EXTENDS HistoryCommands, TLC

MCScript == {"V1", "V2", "U1", "U2", "R"}
MCType == [s \in MCScript |->
  CASE s \in {"V1", "V2"} -> "SQL" [] s \in {"U1", "U2"} -> "UNDO_SQL" [] OTHER -> "REPEATABLE"]
MCVersionOf == [s \in MCScript |->
  CASE s \in {"V1", "U1"} -> 1 [] s \in {"V2", "U2"} -> 2 [] OTHER -> 0]
MCOrder == [v \in {1, 2} |-> v]

\* Every pair but the two that need each other's absence.
MCSafePairs == {{c, d} : c \in AllCommands, d \in AllCommands} \
  {{"migrate", "repair"}, {"migrate", "mark"}}

MCSymmetry == Permutations(Proc)
=============================================================================
