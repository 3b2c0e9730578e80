----------------------------- MODULE MCLlmCache -----------------------------
(* Two shards, two keys both may ask for, an entry of the old format, and  *)
(* a prompt that is too long; one reply that costs and two free ones.      *)
EXTENDS LlmCache, TLC

CONSTANTS r1, r2, r3

Keys == {"new", "other", "old", "long"}
Prices == [r \in Reply |-> IF r = r1 THEN 1 ELSE 0]
Before == [k \in Keys |-> IF k = "old" THEN r1 ELSE None]
Alike == Permutations(Proc) \cup Permutations({r2, r3})
=============================================================================
