-------------------------------- MODULE MCGate --------------------------------
(* Five candidates of four coding tasks, one of them unrated; every        *)
(* candidate may fail stage 1, lack siblings, fail stage 2 or pass.        *)
EXTENDS Gate

Tasks == <<"t", "u", "t", "v", "x">>
Ratings == [t \in {"t", "u", "v", "x"} |->
              CASE t = "t" -> 30 [] t = "u" -> 10 [] t = "v" -> 20 [] OTHER -> Absent]

Mutant(s, f) == [sampled |-> s, full |-> f]
Found(reference, siblings) == [reference |-> reference, exposed |-> TRUE, siblings |-> siblings]

Findings ==
  {Found(<<"nothing_shipped", "slow">>, <<Mutant("refuted", "refuted")>>),
   Found(<<"agrees">>, <<>>),
   Found(<<"agrees">>, <<Mutant("accepts", "refuted"), Mutant("refuted", "refuted"), Mutant("error", "error")>>),
   Found(<<"nothing_shipped", "agrees">>, <<Mutant("accepts", "accepts"), Mutant("refuted", "refuted"), Mutant("accepts", "error")>>)}
===============================================================================
