------------------------------- MODULE Oracle -------------------------------
(***************************************************************************)
(* src/oracle.py: the differential-testing oracle of one repair task.      *)
(*                                                                         *)
(* A candidate patch matters to the oracle only through the test cases it  *)
(* gets wrong, and to the typer (src/typer.py) only through the place it   *)
(* edits, so a patch is a name with those two attributes.  A case is       *)
(* identified by its position in the shipped pool.                         *)
(***************************************************************************)
EXTENDS Naturals, FiniteSets

CONSTANTS
  Case,        \* the shipped test pool: positions 1, 2, ...
  Usable,      \* the cases the reference program can answer
  Patch,       \* candidate programs the proposer may draw
  Fails,       \* Fails[p]: the usable cases on which p crashes, times out or is wrong
  MaxExamples, \* the oracle's sample size (--max-examples)
  None         \* stands for Python's None

ASSUME OracleAssumption ==
  /\ IsFiniteSet(Case) /\ Case \subseteq Nat \ {0}
  /\ Usable \subseteq Case
  /\ Fails \in [Patch -> SUBSET Usable]
  /\ MaxExamples \in Nat \ {0}
  /\ None \notin Case /\ None \notin Patch

-----------------------------------------------------------------------------
(* _sample: the whole pool when it fits, otherwise a seeded draw of        *)
(* MaxExamples cases.  The seed is seed + round_index, so successive       *)
(* rounds draw unrelated samples: any subset of that size.                 *)
Complete == MaxExamples >= Cardinality(Case)

Samples ==
  IF Complete THEN {Case}
              ELSE {S \in SUBSET Case : Cardinality(S) = MaxExamples}

(* differential_test.  No pool, or a sample the reference answers nowhere, *)
(* is an error of the search and not a verdict on the patch.               *)
Inconclusive(S) == S \cap Usable = {}

Accepts(p, S) == ~Inconclusive(S) /\ Fails[p] \cap S = {}

(* The case reported is the first failing one in sample order: pool order  *)
(* for the whole pool, arbitrary for a drawn sample.                       *)
Refutations_Passing(p, S) == S \ Fails[p] \* mutant: the comparison is inverted

Refutations(p, S) ==
  LET failed == Fails[p] \cap S
  IN  IF Complete THEN {c \in failed : \A d \in failed : c <= d} ELSE failed

(* is_truly_correct: the overfitting audit runs the entire pool, and an    *)
(* inconclusive run does not count as clean.                               *)
TrulyCorrect(p) == Accepts(p, Case)
=============================================================================
