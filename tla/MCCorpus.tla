-------------------------------- MODULE MCCorpus --------------------------------
(* Two tasks and one the gate has since dropped, two machines; the bands *)
(* of a task differ between a screen of four draws and one of twelve.      *)
EXTENDS Corpus

Orders == <<<<"d", "a", "b">>, <<"a", "b">>>>
ShardRanges == {<<1, 2>>, <<2, 2>>}

Once(S) == [i \in 1..12 |-> IF i \in S THEN {TRUE} ELSE {FALSE}]

(* Easy, then medium; dead, then medium; and one that is never right.      *)
Verdicts ==
  [n \in {"a", "b", "d"} |->
     CASE n = "a" -> Once({1})
       [] n = "b" -> Once({5, 6})
       [] OTHER -> Once({})]

Ones == [b \in Band |-> 1]
=================================================================================
