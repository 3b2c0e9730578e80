--------------------------- MODULE MCEpisodePair ----------------------------
(* The candidates of MCRepairLoop, drawn by both arms.                     *)
EXTENDS EpisodePair

Candidates == {"fix", "a", "b", "c"}

Edits == [p \in Candidates |-> IF p \in {"a", "b"} THEN "L1" ELSE "L2"]

Failing == [p \in Candidates |->
  CASE p = "fix" -> {} [] p = "a" -> {1} [] p = "b" -> {1, 2} [] p = "c" -> {2}]

Properties == [g \in {"coarse", "fine"} |-> [p \in Candidates |-> [c \in Case |->
  IF g = "fine" /\ p = "b" THEN "crash" ELSE "wrong"]]]
=============================================================================
