----------------------------- MODULE Regression -----------------------------
(***************************************************************************)
(* src/oracle.py split_pool and regression_report: an accepted patch is    *)
(* graded on both halves of the pool, the cases the faulty program fails   *)
(* (F2P, which the repair loop looks at) and those it passes (P2P, which   *)
(* nothing in the loop reads).                                             *)
(*                                                                         *)
(* The split belongs to the faulty program and the cap, and is memoised,   *)
(* so every patch of a task is graded against one partition.               *)
(***************************************************************************)
EXTENDS Oracle

CONSTANTS
  FaultyFails, \* the usable cases the faulty program fails
  AuditCap,    \* regression_cap, None for the whole pool
  AuditSample  \* the AuditCap cases REGRESSION_SEED draws

ASSUME RegressionAssumption ==
  /\ FaultyFails \subseteq Usable
  /\ AuditCap \in (Nat \ {0}) \cup {None}
  /\ AuditSample \subseteq Case
  /\ AuditCap # None => Cardinality(AuditSample) = AuditCap

-----------------------------------------------------------------------------
(* A case the reference cannot answer proves nothing either way.           *)
Scoreable == Usable \cap (IF AuditCap = None THEN Case ELSE AuditSample)

F2P == Scoreable \cap FaultyFails
P2P == Scoreable \ FaultyFails

(* Every scoreable case runs.  A report of nothing is inconclusive, and    *)
(* does not count as clean.                                                *)
Report(p) ==
  [broken       |-> P2P \cap Fails[p],
   stillFailing |-> F2P \cap Fails[p],
   correct      |-> Scoreable # {} /\ Scoreable \cap Fails[p] = {}]
=============================================================================
