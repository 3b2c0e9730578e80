--------------------------- MODULE LoopProperties ---------------------------
(***************************************************************************)
(* What the repair loop of RepairLoop.tla guarantees.                      *)
(***************************************************************************)
EXTENDS RepairLoop

(* Types of the loop's own state.                                          *)
LoopTypeOK ==
  /\ status \in {"running", "returned", "raised"}
  /\ round \in Nat /\ attempts \in Nat /\ unreachable \in Nat
  /\ chat \in [start : Nat, restarts : Nat]
  /\ rows \in Seq(Row)
  /\ found \in [round : Nat \cup {None}, patch : Patch \cup {None}]

TypeOK == MemTypeOK /\ LoopTypeOK

(* _charge spends "one unit of the attempt budget on the current round":   *)
(* the rows are the rounds in order, and attempt_index counts the charged  *)
(* ones 1, 2, ... with no gap; only a guarded round under                  *)
(* free_guarded_rounds goes uncharged.                                     *)
ChargedRows(k) == {j \in 1..k : rows[j].attempt # None}

OneUnitPerRound ==
  \A k \in DOMAIN rows :
    /\ rows[k].round = k
    /\ IF rows[k].kind = "guarded" /\ FreeGuarded
       THEN rows[k].attempt = None
       ELSE rows[k].attempt = Cardinality(ChargedRows(k))

(* A round that could not be judged never becomes evidence: memory holds   *)
(* exactly the patches the oracle returned a verdict on, in round order,   *)
(* each with the verdict its row logged.  A guarded, audited, self-test    *)
(* blocked, skipped, inconclusive or failed round leaves no trace in it.   *)
VerdictRows == {k \in DOMAIN rows : rows[k].kind = "verdict"}
VerdictsUpTo(k) == {j \in VerdictRows : j <= k}

MemoryIsVerdicts ==
  /\ Len(history) = Cardinality(VerdictRows)
  /\ \A k \in VerdictRows :
       LET a == history[Cardinality(VerdictsUpTo(k))]
       IN  /\ a.patch = rows[k].patch
           /\ a.accept = rows[k].accept
           /\ a.case = rows[k].case

(* "A guard blocking a candidate the oracle accepts is impossible by       *)
(* construction": the audit of a guarded round never finds one.            *)
GuardSoundness == \A k \in DOMAIN rows : ~rows[k].violation

(* A guarding arm never pays the oracle for what memory already knows: no  *)
(* two refutations of an episode rest on the same test case, whatever the  *)
(* typing did to the buckets.  So it pays for at most one refutation per   *)
(* case of the pool.                                                       *)
Guarding == GuardOn /\ Mode # "no_memory" /\ (Mode = "typed" => GuardFallback)

RefutationsDistinct ==
  Guarding =>
    \A i, j \in Refuted : history[i].case = history[j].case => i = j

(* The episode reports the first accepted patch and its round, also when   *)
(* it runs on to the full budget, and without force_full_budget it stops   *)
(* there.                                                                  *)
AcceptRows == {k \in DOMAIN rows : rows[k].accept}

FirstAcceptReported ==
  /\ AcceptRows = {} => found.round = None /\ found.patch = None
  /\ AcceptRows # {} =>
       /\ found.round \in AcceptRows /\ \A k \in AcceptRows : found.round <= k
       /\ found.patch = rows[found.round].patch
       /\ ~ForceFull => status = "returned" /\ found.round = Len(rows)

(* The chat arm never ships RestartAfter failed attempts to the model.     *)
TranscriptBounded ==
  [][ChatHistory /\ round' = round + 1 => FailsSince(chat'.start) < RestartAfter]_vars

(* Every episode ends.                                                     *)
EpisodeEnds == <>(status # "running")

(* The loop is a budgeted search, and drives the memory only through store.*)
SearchResult ==
  CASE status = "running"  -> "open"
    [] status = "raised"   -> "failed"
    [] status = "returned" -> IF found.round = None THEN "exhausted" ELSE "accepted"

Abstract == INSTANCE Search
  WITH Draws <- MaxDraws, FreeDraws <- FreeGuarded,
       drawn <- round, spent <- attempts, result <- SearchResult

ImplementsSearch == Abstract!SearchSpec

ImplementsMemory == MemSpec

-----------------------------------------------------------------------------
(* What the repository's text claims and the code does not keep.           *)

(* "Consecutive rounds the backend may be unreachable for before the       *)
(* episode gives up": a raise follows that many failed rounds in a row.    *)
RaisedOnConsecutive ==
  unreachable >= MaxBackendFailures =>
    \A k \in Len(rows) - MaxBackendFailures + 1 .. Len(rows) :
      rows[k].error = "unreachable"
=============================================================================
