----------------------------- MODULE MCReproduce ------------------------------
(* One cell of the main experiment and one of another preset, which the    *)
(* paper may have declared missing.                                        *)
EXTENDS Reproduce

Setting(stage, force, heavy, fill, update) ==
  [stage |-> stage, force |-> force, heavy |-> heavy, fill |-> fill, update |-> update]

Used ==
  {Setting("all", FALSE, FALSE, FALSE, FALSE), Setting("all", TRUE, FALSE, FALSE, TRUE),
   Setting("grid", FALSE, FALSE, TRUE, FALSE), Setting("policies", FALSE, TRUE, FALSE, FALSE)}
===============================================================================
