------------------------------- MODULE MCSweep -------------------------------
(* A repair, and a candidate that mends the case the faulty program fails  *)
(* and breaks the other one: a sampled oracle takes it in some rounds and  *)
(* refutes it in others.                                                   *)
EXTENDS Sweep

Candidates == {"fix", "a"}

Edits == [p \in Candidates |-> "L1"]

Failing == [p \in Candidates |-> IF p = "fix" THEN {} ELSE {2}]

Properties == [g \in {"coarse", "fine"} |-> [p \in Candidates |-> [c \in Case |-> "value"]]]

Sampled == [c \in Cell |-> [k \in 1..MaxDraws |-> IF (c + k) % 3 = 0 THEN {1} ELSE {2}]]
=============================================================================
