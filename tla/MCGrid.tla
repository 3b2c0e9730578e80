-------------------------------- MODULE MCGrid --------------------------------
(* Two presets over three tasks, the first of them with the full budget    *)
(* forced, on three machines: m2 records another runtime than m1 and m3,   *)
(* and m3 is so slow that a repair the others accept times out.            *)
EXTENDS Grid

Timely(c) == CASE c.task = 1 -> 1 [] c.task = 2 -> 0 [] OTHER -> 1

Verdicts ==
  [m \in Machine |-> [c \in Cell |->
     IF m = "m3" /\ c = [preset |-> 1, task |-> 1] THEN 2 ELSE Timely(c)]]

Runtimes == [m \in Machine |-> IF m = "m3" THEN "m1" ELSE m]

(* Cut short, a file that lists the cells as they are walked has all rounds *)
(* of the cells before one, some of that one and none of those after it; a *)
(* file that lists the second preset first has those of that one alone,    *)
(* and one that lists the first rounds first may have no others.           *)
Earlier(c, d) == c.preset < d.preset \/ (c.preset = d.preset /\ c.task < d.task)

WalkCuts ==
  {[c \in Cell |-> IF Earlier(c, d) THEN Budget ELSE IF c = d THEN n ELSE 0] : d \in Cell, n \in 0..Budget}
    \cup {[c \in Cell |-> IF c.preset = 2 THEN Budget ELSE 0], [c \in Cell |-> 1]}

OneGap == {[preset |-> 2, task |-> 3]}
===============================================================================
