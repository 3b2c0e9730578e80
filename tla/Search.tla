------------------------------- MODULE Search -------------------------------
(***************************************************************************)
(* What an episode promises its caller, without the memory, the oracle or  *)
(* the guard: a search that draws proposals one at a time, pays for each   *)
(* from a budget of attempts (a draw the guard blocked may be free), and   *)
(* ends with a patch, with the budget spent, with its draws used up, or    *)
(* with an error.  This is the docstring of src/loop.py run_episode.       *)
(***************************************************************************)
EXTENDS Naturals

CONSTANTS
  Budget,      \* attempts that may be spent
  Draws,       \* proposals that may be drawn
  FreeDraws    \* may a draw cost nothing

VARIABLES drawn, spent, result

searchVars == <<drawn, spent, result>>

SearchInit == drawn = 0 /\ spent = 0 /\ result = "open"

Costs == IF FreeDraws THEN {0, 1} ELSE {1}

DrawOne ==
  /\ result = "open" /\ spent < Budget /\ drawn < Draws
  /\ drawn' = drawn + 1
  /\ \E cost \in Costs : spent' = spent + cost
  /\ result' \in {"open", "accepted", "failed"}

FailDraw ==
  /\ result = "open" /\ spent < Budget /\ drawn < Draws
  /\ drawn' = drawn + 1
  /\ result' = "failed"
  /\ UNCHANGED spent

Close ==
  /\ result = "open"
  /\ spent = Budget \/ drawn = Draws
  /\ result' \in {"accepted", "exhausted"}
  /\ UNCHANGED <<drawn, spent>>

SearchSpec == SearchInit /\ [][DrawOne \/ FailDraw \/ Close]_searchVars
=============================================================================
