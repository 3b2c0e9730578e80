----------------------------- MODULE MCPolicies ------------------------------
(* The cell's candidates: a repair and patches that overlap in what they   *)
(* fail and in where they edit; one candidate of a second task and one of  *)
(* a task no reference answers.                                            *)
EXTENDS Policies

Candidates == {"fix", "a", "b", "c"}

Edits == [p \in Candidates |-> IF p \in {"a", "c"} THEN "L1" ELSE "L2"]

Failing == [p \in Candidates |->
  CASE p = "fix" -> {} [] p = "a" -> {1, 3} [] p = "b" -> {2, 3} [] p = "c" -> {1, 2}]

Listed == <<"u1", "w1", "a", "b", "c", "fix">>
Owner == [c \in Candidates \cup {"u1", "w1"} |->
            IF c = "u1" THEN "u" ELSE IF c = "w1" THEN "w" ELSE "t"]
=============================================================================
