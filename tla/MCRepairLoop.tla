---------------------------- MODULE MCRepairLoop ----------------------------
(* Candidates for small episodes: a repair, one patch that fails only case *)
(* 1, one that fails cases 1 and 2 at the same place, and two that fail    *)
(* case 2 or 3 elsewhere.                                                  *)
EXTENDS LoopProperties

Candidates == {"fix", "a", "b", "c", "d"}

Edits == [p \in Candidates |-> IF p \in {"a", "b"} THEN "L1" ELSE "L2"]

Failing == [p \in Candidates |->
  CASE p = "fix" -> {} [] p = "a" -> {1} [] p = "b" -> {1, 2}
    [] p = "c" -> {2} [] p = "d" -> {3}]
=============================================================================
