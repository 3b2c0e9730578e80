---------------------------- MODULE EpisodePair -----------------------------
(***************************************************************************)
(* Two episodes of the same task and seed, paired on common random numbers:*)
(* an arm whose memory guards but does not steer, and the no_memory        *)
(* baseline.  Their prompts are byte-identical in every round and the draw *)
(* nonce (src/loop.py proposal_nonce) names the task, the seed and the     *)
(* round only, so in round r both receive the same reply, and their        *)
(* oracles, seeded with seed + r, draw the same sample.                    *)
(*                                                                         *)
(* Draws depend on the round alone, so letting the two episodes go through *)
(* a round together loses no behaviour.  Reaching the server is not        *)
(* shared: a BackendUnreachable or a cap stop hits one arm by itself.      *)
(*                                                                         *)
(* The guarding arm keeps the names of RepairLoop; the baseline is Base.   *)
(***************************************************************************)
EXTENDS LoopProperties, Summary

VARIABLES
  bHistory, bByLocation, bSeen,
  bStatus, bRound, bAttempts, bUnreachable, bChat, bRows, bFound

baseVars == <<bHistory, bByLocation, bSeen, bStatus, bRound, bAttempts,
              bUnreachable, bChat, bRows, bFound>>

Base == INSTANCE RepairLoop
  WITH Mode <- "no_memory", Typing <- "ideal", AuditGuarded <- FALSE, FreeGuarded <- FALSE,
       history <- bHistory, byLocation <- bByLocation, seen <- bSeen,
       status <- bStatus, round <- bRound, attempts <- bAttempts,
       unreachable <- bUnreachable, chat <- bChat, rows <- bRows, found <- bFound

(* Unconditioned arms only: a steered prompt, a chat transcript and the two *)
(* screening arms change the prompt or discard a draw for another reason.  *)
ASSUME PairAssumption ==
  /\ ChatHistory = FALSE
  /\ Mode = "typed" => ~SteerOn
  /\ SelfTestBlocks = {} /\ SkipsOracle = FALSE

-----------------------------------------------------------------------------
PairInit == Init /\ Base!Init

(* A round in which the shared reply is d, None when it is unusable.       *)
ArmRound(d, S) ==
  \/ d = None /\ ProposalUnusable
  \/ d # None /\ PatchRound(d, S)
  \/ BackendUnreachable
  \/ CapReached

BaseRound(d, S) ==
  \/ d = None /\ Base!ProposalUnusable
  \/ d # None /\ Base!PatchRound(d, S)
  \/ Base!BackendUnreachable
  \/ Base!CapReached

Together == \E d \in Patch \cup {None}, S \in Samples : ArmRound(d, S) /\ BaseRound(d, S)

ArmAlone ==
  /\ ~Base!MayDraw
  /\ \E d \in Patch \cup {None}, S \in Samples : ArmRound(d, S)
  /\ UNCHANGED baseVars

BaseAlone ==
  /\ ~MayDraw
  /\ \E d \in Patch \cup {None}, S \in Samples : BaseRound(d, S)
  /\ UNCHANGED vars

ArmReturns == Exhausted /\ UNCHANGED baseVars

BaseReturns == Base!Exhausted /\ UNCHANGED vars

PairNext == Together \/ ArmAlone \/ BaseAlone \/ ArmReturns \/ BaseReturns

pairVars == <<vars, baseVars>>

PairSpec == PairInit /\ [][PairNext]_pairVars

-----------------------------------------------------------------------------
(* The types of this task and seed's draws, over both arms' logs.          *)
DrawTypes == IndexOf(bRows, TRUE, FALSE) \cup IndexOf(rows, FALSE, AuditGuarded)

(* check_consistency.py _check_guard_soundness: the arms' success at the   *)
(* budget differs.                                                         *)
Gap == SuccessAtB(rows) # SuccessAtB(bRows)

(* Both arms received every draw they asked for.                           *)
Undisturbed ==
  /\ unreachable = 0 /\ status # "raised"
  /\ bUnreachable = 0 /\ bStatus # "raised"

(* scripts/check_consistency.py _check_guard_soundness: "per task and seed *)
(* the ... arms must accept on exactly the same round".  Under the         *)
(* standard accounting the guard changes no outcome: both episodes spend   *)
(* the same, accept the same patch, in the same round.                     *)
SameOutcome ==
  Undisturbed /\ ~FreeGuarded => round = bRound /\ attempts = bAttempts /\ found = bFound

(* free_guarded_rounds may only help: what the baseline accepts, the arm   *)
(* accepts in the same round, it spends no more on the way, and of the     *)
(* redundant draws it pays the oracle only for ones the baseline paid for. *)
NeverWorse ==
  Undisturbed =>
    /\ bFound.round # None => found = bFound
    /\ round = bRound => attempts <= bAttempts
    /\ round = bRound => Paid(rows, DrawTypes) \subseteq Paid(bRows, DrawTypes)

(* "Redundancy PRESENT is then a property of the proposer and is invariant *)
(* across arms": two finished episodes on the same draws are summarised    *)
(* alike: the same effective rounds and attempts, no gap, the oracle calls *)
(* the guard did not save, and the same redundant rounds, wherever they    *)
(* were paid; a type stays unknown only where there was no patch to type,  *)
(* and the older count, which sees fewer types, never counts more.         *)
SummariesAgree ==
  Undisturbed /\ ~FreeGuarded /\ status = "returned" /\ bStatus = "returned" =>
    /\ ~Gap /\ Effective(rows) = Effective(bRows)
    /\ Redundant(rows, DrawTypes) = Redundant(bRows, DrawTypes)
    /\ \A k \in Unknown(rows, DrawTypes) : rows[k].patch = None
    /\ Attempts(rows) = Attempts(bRows)
    /\ OracleCalls(rows) + CountOf(rows, "guarded") = OracleCalls(bRows)
    /\ GuardMisses(rows) \subseteq TypeRepeats(bRows)

(* "The guard skips calls it can PROVE would fail": a round the arm        *)
(* skipped is one the baseline paid the oracle for and saw refuted, unless *)
(* the baseline never received that draw.                                  *)
SkipsOnlyFailures ==
  \A k \in DOMAIN rows \cap DOMAIN bRows :
    rows[k].kind = "guarded" =>
      \/ bRows[k].kind = "verdict" /\ ~bRows[k].accept /\ bRows[k].patch = rows[k].patch
      \/ bRows[k].error = "unreachable"

-----------------------------------------------------------------------------
(* What the repository's text claims and the code does not keep.           *)

(* "A gap is a guard-soundness bug ..., NOT a finding": so it is with the  *)
(* standard accounting; but guard-only episodes are compared whatever      *)
(* their accounting.                                                       *)
GapIsGuardBug ==
  Undisturbed /\ status = "returned" /\ bStatus = "returned" => ~Gap

(* "every guarded round is, by construction, a redundant attempt: its type *)
(* matched a bucket memory had already eliminated".                        *)
GuardedIsRepeat ==
  Undisturbed =>
    \A k \in Effective(rows) : rows[k].kind = "guarded" => k \in Redundant(rows, DrawTypes)
=============================================================================
