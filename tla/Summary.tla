------------------------------- MODULE Summary -------------------------------
(***************************************************************************)
(* src/metrics.py summarize_episode: what the study reads out of the rows  *)
(* of one episode.                                                         *)
(*                                                                         *)
(* A log is the rows of an episode in round order; an index the set of     *)
(* [round, patch, type] entries of build_crn_type_index for its task and   *)
(* seed.                                                                   *)
(***************************************************************************)
EXTENDS Proposer

StoppedShort(row) == row.kind \in {"guarded", "selftest", "skipped"}

(* _hits_oracle: everything else, a round without a patch included.        *)
HitsOracle(row) == ~StoppedShort(row)

AcceptedRows(log) == {k \in DOMAIN log : HitsOracle(log[k]) /\ log[k].accept}

FirstAccept(log) ==
  IF AcceptedRows(log) = {} THEN None
  ELSE CHOOSE k \in AcceptedRows(log) : \A j \in AcceptedRows(log) : k <= j

(* Rounds after the first accept are excluded from every count.            *)
Effective(log) == IF FirstAccept(log) = None THEN DOMAIN log ELSE 1..FirstAccept(log)

SuccessAtB(log) == FirstAccept(log) # None

CountOf(log, kind) == Cardinality({k \in Effective(log) : log[k].kind = kind})

OracleCalls(log) == Cardinality({k \in Effective(log) : HitsOracle(log[k])})

(* len(effective) when no round was charged.                               *)
Attempts(log) ==
  LET charged == {k \in Effective(log) : log[k].attempt # None}
  IN  Cardinality(IF charged = {} THEN Effective(log) ELSE charged)

-----------------------------------------------------------------------------
(* The type a row carries: of the case that refuted it, or, under          *)
(* audit_guarded, of the case the audit found.                             *)
OwnType(row) ==
  IF row.case # None THEN FineType(row.patch, row.case)
  ELSE IF row.audit # None THEN FineType(row.patch, row.audit) ELSE None

(* build_crn_type_index: types come from the unguarded rounds of the       *)
(* no_memory arm, and from audited rounds of any arm.                      *)
IndexOf(log, isBaseline, isAudited) ==
  {[round |-> log[k].round, patch |-> log[k].patch, type |-> OwnType(log[k])] :
     k \in {j \in DOMAIN log : /\ OwnType(log[j]) # None
                               /\ (isBaseline /\ log[j].kind # "guarded") \/ isAudited}}

(* A censored round takes the type of the same draw in another arm.        *)
TypeOf(row, index) ==
  LET twins == {e \in index : e.round = row.round /\ e.patch = row.patch}
  IN  IF OwnType(row) = None /\ StoppedShort(row) /\ twins # {}
      THEN (CHOOSE e \in twins : TRUE).type
      ELSE OwnType(row)

Typed(log, index) ==
  {k \in Effective(log) : ~log[k].accept /\ TypeOf(log[k], index) # None}

Unknown(log, index) ==
  {k \in Effective(log) : ~log[k].accept /\ TypeOf(log[k], index) = None}

(* seen_any, the one reference set: the types of all draws so far.         *)
Redundant_ArmReference(log, index) == \* mutant: seeded by the rounds that reached the oracle
  {k \in Typed(log, index) :
     \E j \in Typed(log, index) : /\ j < k /\ HitsOracle(log[j])
                                  /\ TypeOf(log[j], index) = TypeOf(log[k], index)}

Redundant(log, index) ==
  {k \in Typed(log, index) :
     \E j \in Typed(log, index) : j < k /\ TypeOf(log[j], index) = TypeOf(log[k], index)}

(* Where memory makes the redundancy be paid.                              *)
Caught(log, index) == {k \in Redundant(log, index) : StoppedShort(log[k])}
Paid(log, index) == Redundant(log, index) \ Caught(log, index)

(* type_repeats and guard_miss: the older counts, on the row's own type,   *)
(* with the unguarded rounds as reference.                                 *)
TypeRepeats(log) ==
  {k \in Typed(log, {}) :
     \E j \in Typed(log, {}) : /\ j < k /\ log[j].kind # "guarded"
                               /\ OwnType(log[j]) = OwnType(log[k])}

GuardMisses(log) == {k \in TypeRepeats(log) : log[k].kind # "guarded"}
==============================================================================
