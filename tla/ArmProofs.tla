------------------------------ MODULE ArmProofs ------------------------------
(***************************************************************************)
(* Theorems about the arms of the study and the sweep that runs them.      *)
(*                                                                         *)
(* Two arms on common random numbers: the guard changes no outcome, for    *)
(* every task, budget and guarding arm, against an oracle that runs the    *)
(* whole pool.  The sweep driver, for every number of cells, episodes,     *)
(* kills and reruns: what the round log of a complete cell is worth.       *)
(***************************************************************************)
EXTENDS EpisodePair, Sweep, LoopProofs

(* Two arms that are not done are at the same point of the same budget.    *)
Sync ==
  Undisturbed /\ ~FreeGuarded =>
    status = bStatus \/ attempts >= Budget \/ round >= MaxDraws

BaseTypes == bRound \in Nat /\ bAttempts \in Nat /\ bUnreachable \in Nat

PairIInv == LoopIInv /\ BaseTypes /\ SameOutcome /\ Sync

(* What a round does to the outcome depends on the shared draw only.       *)
LEMMA ArmEffect ==
  ASSUME Complete, LoopIInv,
         NEW p \in Patch, NEW S \in Samples, PatchRound(p, S)
  PROVE  /\ MayDraw /\ round' = round + 1
         /\ attempts' <= attempts + 1 /\ (~FreeGuarded => attempts' = attempts + 1)
         /\ unreachable' = unreachable
         /\ found' = IF Accepts(p, S) THEN Found(p) ELSE found
         /\ status' = IF Accepts(p, S) /\ ~ForceFull THEN "returned" ELSE status
<1>0. attempts \in Nat
  BY DEF LoopIInv, TypeOK, LoopTypeOK
<1>1. CASE GuardedRound(p, S)
  BY <1>0, <1>1, BlockedIsRefuted DEF GuardedRound, Guarded, Draw, Charge, LoopIInv
<1>2. CASE OracleError(p, S)
  BY <1>0, <1>2 DEF OracleError, Draw, Charge, Accepts
<1>3. CASE Refute(p, S)
  <2>1. ~Accepts(p, S)
    BY <1>3 DEF Refute, Refutations, Accepts
  <2> QED  BY <1>0, <1>3, <2>1 DEF Refute, Draw, Charge
<1>4. CASE Accept(p, S)
  BY <1>0, <1>4, LoopAssumption DEF Accept, Draw, Charge
<1>5. ~SelfTestBlocked(p) /\ ~OracleSkipped(p)
  BY PairAssumption DEF SelfTestBlocked, OracleSkipped
<1> QED  BY <1>1, <1>2, <1>3, <1>4, <1>5 DEF PatchRound

LEMMA BaselineNeverGuards == \A p \in Patch : ~Base!Guarded(p)
  BY DEF Base!Guarded, Base!Blocked, Base!Blockers, Base!Consulted, Base!Searched

LEMMA BaseEffect ==
  ASSUME NEW p \in Patch, NEW S \in Samples, Base!PatchRound(p, S)
  PROVE  /\ Base!MayDraw /\ bRound' = bRound + 1 /\ bAttempts' = bAttempts + 1
         /\ bUnreachable' = bUnreachable
         /\ bFound' = IF Accepts(p, S) THEN Base!Found(p) ELSE bFound
         /\ bStatus' = IF Accepts(p, S) /\ ~ForceFull THEN "returned" ELSE bStatus
<1>1. ~Base!GuardedRound(p, S)
  BY BaselineNeverGuards DEF Base!GuardedRound
<1>2. CASE Base!OracleError(p, S)
  BY <1>2 DEF Base!OracleError, Base!Draw, Base!Charge,
     Accepts, Inconclusive, Base!Inconclusive
<1>3. CASE Base!Refute(p, S)
  <2>1. ~Accepts(p, S)
    BY <1>3 DEF Base!Refute, Base!Refutations, Accepts
  <2> QED  BY <1>3, <2>1 DEF Base!Refute, Base!Draw, Base!Charge
<1>4. CASE Base!Accept(p, S)
  BY <1>4, LoopAssumption DEF Base!Accept, Base!Draw, Base!Charge, Base!Accepts,
     Base!Inconclusive, Accepts, Inconclusive
<1>5. ~Base!SelfTestBlocked(p) /\ ~Base!OracleSkipped(p)
  BY PairAssumption DEF Base!SelfTestBlocked, Base!OracleSkipped
<1> QED  BY <1>1, <1>2, <1>3, <1>4, <1>5 DEF Base!PatchRound

-----------------------------------------------------------------------------
(* An arm that lost a draw stays disturbed.                                *)
LEMMA ArmMissed ==
  ASSUME TypeOK, BackendUnreachable \/ CapReached
  PROVE  unreachable' # 0 \/ status' = "raised"
  BY DEF TypeOK, LoopTypeOK, BackendUnreachable, CapReached

LEMMA BaseMissed ==
  ASSUME BaseTypes, Base!BackendUnreachable \/ Base!CapReached
  PROVE  bUnreachable' # 0 \/ bStatus' = "raised"
  BY DEF BaseTypes, Base!BackendUnreachable, Base!CapReached

LEMMA BaseTypesStep ==
  ASSUME BaseTypes, NEW d \in Patch \cup {None}, NEW S \in Samples, BaseRound(d, S)
  PROVE  BaseTypes'
<1>1. CASE Base!ProposalUnusable \/ Base!BackendUnreachable \/ Base!CapReached
  BY <1>1 DEF BaseTypes, Base!ProposalUnusable, Base!BackendUnreachable, Base!CapReached,
     Base!Draw, Base!Charge
<1>2. CASE d # None /\ Base!PatchRound(d, S)
  BY <1>2, BaseEffect DEF BaseTypes
<1> QED  BY <1>1, <1>2 DEF BaseRound

LEMMA ArmStep ==
  ASSUME LoopIInv, NEW d \in Patch \cup {None}, NEW S \in Samples, ArmRound(d, S)
  PROVE  LoopIInv' /\ MayDraw
<1>1. Next /\ MayDraw
  <2>1. CASE ProposalUnusable \/ BackendUnreachable \/ CapReached
    BY <2>1 DEF Next, ProposalUnusable, BackendUnreachable, CapReached, Draw
  <2>2. CASE d # None /\ PatchRound(d, S)
    <3>1. Next
      BY <2>2 DEF Next
    <3>2. Draw
      BY <2>2 DEF PatchRound, GuardedRound, SelfTestBlocked, OracleSkipped, OracleError,
         Refute, Accept
    <3> QED  BY <3>1, <3>2 DEF Draw
  <2> QED  BY <2>1, <2>2 DEF ArmRound
<1> QED  BY <1>1, LoopStep

LEMMA BaseDraws ==
  ASSUME NEW d \in Patch \cup {None}, NEW S \in Samples, BaseRound(d, S)
  PROVE  Base!MayDraw
  BY BaseEffect DEF BaseRound, Base!ProposalUnusable, Base!BackendUnreachable,
     Base!CapReached, Base!Draw

(* A shared round keeps the two episodes equal, or disturbs one of them.   *)
LEMMA TogetherStep ==
  ASSUME Complete, PairIInv, NEW d \in Patch \cup {None}, NEW S \in Samples,
         ArmRound(d, S), BaseRound(d, S)
  PROVE  SameOutcome' /\ Sync'
<1> SUFFICES ASSUME Undisturbed', ~FreeGuarded
             PROVE  /\ round' = bRound' /\ attempts' = bAttempts' /\ found' = bFound'
                    /\ status' = bStatus'
  BY DEF SameOutcome, Sync
<1>1. ~(BackendUnreachable \/ CapReached) /\ ~(Base!BackendUnreachable \/ Base!CapReached)
  BY ArmMissed, BaseMissed DEF PairIInv, LoopIInv, Undisturbed
<1>2. status = "running" /\ bStatus = "running"
  BY ArmStep, BaseDraws DEF PairIInv, MayDraw, Base!MayDraw
<1>3. CASE d = None
  <2>1. ProposalUnusable /\ Base!ProposalUnusable
    BY <1>1, <1>3 DEF ArmRound, BaseRound
  <2>2. /\ round' = round + 1 /\ bRound' = bRound + 1
        /\ attempts' = attempts + 1 /\ bAttempts' = bAttempts + 1
        /\ UNCHANGED <<status, unreachable, found, bStatus, bUnreachable, bFound>>
    BY <2>1 DEF ProposalUnusable, Base!ProposalUnusable, Draw, Base!Draw, Charge, Base!Charge
  <2> QED  BY <1>2, <2>2 DEF PairIInv, SameOutcome, Undisturbed
<1>4. CASE d # None
  <2>1. PatchRound(d, S) /\ Base!PatchRound(d, S) /\ d \in Patch
    BY <1>1, <1>4 DEF ArmRound, BaseRound
  <2>2. /\ round' = round + 1 /\ attempts' = attempts + 1
        /\ unreachable' = unreachable
        /\ found' = IF Accepts(d, S) THEN Found(d) ELSE found
        /\ status' = IF Accepts(d, S) /\ ~ForceFull THEN "returned" ELSE status
    BY <2>1, ArmEffect DEF PairIInv
  <2>3. /\ bRound' = bRound + 1 /\ bAttempts' = bAttempts + 1
        /\ bUnreachable' = bUnreachable
        /\ bFound' = IF Accepts(d, S) THEN Base!Found(d) ELSE bFound
        /\ bStatus' = IF Accepts(d, S) /\ ~ForceFull THEN "returned" ELSE bStatus
    BY <2>1, BaseEffect
  <2>4. Undisturbed
    BY <1>2, <2>2, <2>3 DEF Undisturbed
  <2>5. round = bRound /\ attempts = bAttempts /\ found = bFound
    BY <2>4 DEF PairIInv, SameOutcome
  <2>6. Base!Found(d) = Found(d)
    BY <2>5 DEF Found, Base!Found
  <2> QED  BY <1>2, <2>2, <2>3, <2>5, <2>6
<1> QED  BY <1>3, <1>4

(* Undisturbed arms still running are in lockstep: neither draws alone.    *)
LEMMA AloneIsDisturbed ==
  ASSUME PairIInv, ~FreeGuarded, Undisturbed
  PROVE  MayDraw <=> Base!MayDraw
<1> USE DEF PairIInv
<1>1. round = bRound /\ attempts = bAttempts
  BY DEF SameOutcome
<1>2. MaxDraws = Budget /\ Base!MaxDraws = Budget
  BY DEF MaxDraws, Base!MaxDraws
<1>3. status = bStatus \/ ~(attempts < Budget /\ round < MaxDraws)
  BY <1>2, LoopAssumption DEF Sync, LoopIInv, TypeOK, LoopTypeOK
<1> QED  BY <1>1, <1>2, <1>3 DEF MayDraw, Base!MayDraw

LEMMA ArmAloneStep ==
  ASSUME PairIInv, ArmAlone
  PROVE  LoopIInv' /\ SameOutcome' /\ Sync'
<1>1. PICK d \in Patch \cup {None}, S \in Samples : ArmRound(d, S)
  BY DEF ArmAlone
<1>2. LoopIInv' /\ MayDraw
  BY <1>1, ArmStep DEF PairIInv
<1>3. ASSUME ~FreeGuarded, Undisturbed' PROVE FALSE
  <2>1. ~(BackendUnreachable \/ CapReached)
    BY <1>3, ArmMissed DEF PairIInv, LoopIInv, Undisturbed
  <2>2. unreachable' = unreachable /\ status = "running"
    BY <1>1, <1>2, <2>1 DEF ArmRound, MayDraw, ProposalUnusable, PatchRound, GuardedRound,
       SelfTestBlocked, OracleSkipped, OracleError, Refute, Accept
  <2>3. Undisturbed
    BY <1>3, <2>2 DEF Undisturbed, ArmAlone, baseVars
  <2> QED  BY <1>2, <1>3, <2>3, AloneIsDisturbed DEF ArmAlone
<1> QED  BY <1>2, <1>3 DEF SameOutcome, Sync

LEMMA BaseAloneStep ==
  ASSUME PairIInv, BaseAlone
  PROVE  BaseTypes' /\ SameOutcome' /\ Sync'
<1>1. PICK d \in Patch \cup {None}, S \in Samples : BaseRound(d, S)
  BY DEF BaseAlone
<1>2. BaseTypes' /\ Base!MayDraw
  BY <1>1, BaseDraws, BaseTypesStep DEF PairIInv
<1>3. ASSUME ~FreeGuarded, Undisturbed' PROVE FALSE
  <2>1. ~(Base!BackendUnreachable \/ Base!CapReached)
    BY <1>3, BaseMissed DEF PairIInv, Undisturbed
  <2>2. bUnreachable' = bUnreachable /\ bStatus = "running"
    BY <1>1, <1>2, <2>1, BaseEffect DEF BaseRound, Base!MayDraw, Base!ProposalUnusable
  <2>3. Undisturbed
    BY <1>3, <2>2 DEF Undisturbed, BaseAlone, vars, loopVars
  <2> QED  BY <1>2, <1>3, <2>3, AloneIsDisturbed DEF BaseAlone
<1> QED  BY <1>2, <1>3 DEF SameOutcome, Sync

LEMMA ReturnSteps ==
  ASSUME PairIInv, ArmReturns \/ BaseReturns
  PROVE  SameOutcome' /\ Sync'
<1> SUFFICES ASSUME Undisturbed', ~FreeGuarded
             PROVE  /\ round' = bRound' /\ attempts' = bAttempts' /\ found' = bFound'
                    /\ attempts' >= Budget \/ round' >= MaxDraws
  BY DEF SameOutcome, Sync, MaxDraws
<1>1. UNCHANGED <<round, attempts, found, unreachable, bRound, bAttempts, bFound, bUnreachable>>
  BY DEF ArmReturns, BaseReturns, Exhausted, Base!Exhausted, vars, loopVars, baseVars
<1>2. \/ status = "running" /\ bStatus' = bStatus /\ ~MayDraw
      \/ bStatus = "running" /\ status' = status /\ ~Base!MayDraw
  BY DEF ArmReturns, BaseReturns, Exhausted, Base!Exhausted, vars, loopVars, baseVars
<1>3. Undisturbed
  BY <1>1, <1>2 DEF Undisturbed
<1>4. round = bRound /\ attempts = bAttempts /\ found = bFound
  BY <1>3 DEF PairIInv, SameOutcome
<1>5. MaxDraws = Budget /\ Base!MaxDraws = Budget
  BY DEF MaxDraws, Base!MaxDraws
<1>6. attempts >= Budget \/ round >= MaxDraws
  BY <1>2, <1>4, <1>5, LoopAssumption
  DEF MayDraw, Base!MayDraw, PairIInv, LoopIInv, TypeOK, LoopTypeOK
<1> QED  BY <1>1, <1>4, <1>5, <1>6 DEF MaxDraws

LEMMA PairInitIInv == PairInit => PairIInv
<1> SUFFICES ASSUME PairInit PROVE PairIInv
  OBVIOUS
<1>1. LoopIInv
  BY LoopInit DEF PairInit
<1>2. /\ round = bRound /\ attempts = bAttempts /\ found = bFound /\ status = bStatus
      /\ BaseTypes
  BY DEF PairInit, Init, Base!Init, BaseTypes
<1> QED  BY <1>1, <1>2 DEF PairIInv, SameOutcome, Sync

LEMMA PairNextIInv ==
  ASSUME Complete, PairIInv, [PairNext]_pairVars
  PROVE  PairIInv'
<1>1. CASE Together
  <2>1. PICK d \in Patch \cup {None}, S \in Samples : ArmRound(d, S) /\ BaseRound(d, S)
    BY <1>1 DEF Together
  <2> QED  BY <2>1, ArmStep, BaseTypesStep, TogetherStep DEF PairIInv
<1>2. CASE ArmAlone
  <2>1. BaseTypes'
    BY <1>2 DEF ArmAlone, baseVars, PairIInv, BaseTypes
  <2> QED  BY <1>2, <2>1, ArmAloneStep DEF PairIInv
<1>3. CASE BaseAlone
  <2>1. LoopIInv'
    BY <1>3, LoopStep DEF BaseAlone, PairIInv
  <2> QED  BY <1>3, <2>1, BaseAloneStep DEF PairIInv
<1>4. CASE ArmReturns
  <2>1. LoopIInv'
    BY <1>4, LoopStep DEF ArmReturns, PairIInv, Next
  <2>2. BaseTypes'
    BY <1>4 DEF ArmReturns, baseVars, PairIInv, BaseTypes
  <2> QED  BY <1>4, <2>1, <2>2, ReturnSteps DEF PairIInv
<1>5. CASE BaseReturns
  <2>1. LoopIInv'
    BY <1>5, LoopStep DEF BaseReturns, PairIInv
  <2>2. BaseTypes'
    BY <1>5 DEF BaseReturns, Base!Exhausted, PairIInv, BaseTypes
  <2> QED  BY <1>5, <2>1, <2>2, ReturnSteps DEF PairIInv
<1>6. CASE UNCHANGED pairVars
  <2>1. LoopIInv'
    BY <1>6, LoopStep DEF pairVars, PairIInv
  <2> QED  BY <1>6, <2>1 DEF pairVars, vars, loopVars, baseVars, PairIInv, BaseTypes,
              SameOutcome, Sync, Undisturbed, MaxDraws
<1> QED  BY <1>1, <1>2, <1>3, <1>4, <1>5, <1>6 DEF PairNext

(* Under the standard accounting and the whole pool, the guarding arm and  *)
(* the baseline spend the same and accept the same patch in the same round *)
(* unless one of them lost a draw.                                         *)
THEOREM GuardChangesNoOutcome ==
  ASSUME Complete
  PROVE  PairSpec => []SameOutcome
<1>1. PairIInv /\ [PairNext]_pairVars => PairIInv'
  BY PairNextIInv
<1>2. PairIInv => SameOutcome
  BY DEF PairIInv
<1> QED  BY <1>1, <1>2, PairInitIInv, PTL DEF PairSpec

-----------------------------------------------------------------------------
(* The two logs, row by row.  The k-th rows of the arms come from the same *)
(* draw, unless one of the arms could not reach the server for it: they    *)
(* say the same, or the arm skipped what the baseline saw refuted.         *)
Lost(row) == row.kind = "proposal_error" /\ row.error = "unreachable"

Counterparts(a, b) ==
  /\ a.patch = b.patch /\ a.accept = b.accept
  /\ b.kind \in {"proposal_error", "oracle_error", "verdict"} /\ b.audit = None
  /\ b.attempt # None /\ (~FreeGuarded => a.attempt # None)
  /\ \/ a.kind = b.kind /\ a.case = b.case /\ a.audit = None
     \/ /\ a.kind = "guarded" /\ b.kind = "verdict" /\ ~a.accept
        /\ a.case = None /\ b.case # None
        /\ a.audit = IF AuditGuarded THEN b.case ELSE None
  /\ b.patch = None \/ b.kind = "verdict" \/ Usable = {}
  /\ b.kind = "verdict" => b.patch # None /\ (~b.accept => b.case # None)

Aligned ==
  \A k \in DOMAIN rows \cap DOMAIN bRows :
    Counterparts(rows[k], bRows[k]) \/ Lost(rows[k]) \/ Lost(bRows[k])

(* Each arm's log on its own: one row per round, and an arm that reached   *)
(* the server every time lost none.                                        *)
ArmLog ==
  /\ \A k \in DOMAIN rows : rows[k].round = k
  /\ unreachable = 0 => \A k \in DOMAIN rows : ~Lost(rows[k])
  /\ status # "raised" => Len(rows) = round

BaseLog ==
  /\ \A k \in DOMAIN bRows : bRows[k].round = k
  /\ bUnreachable = 0 => \A k \in DOMAIN bRows : ~Lost(bRows[k])
  /\ bStatus # "raised" => Len(bRows) = bRound

(* An arm that still draws is not behind the other.                        *)
Turns ==
  /\ MayDraw => Len(rows) >= Len(bRows)
  /\ Base!MayDraw => Len(bRows) >= Len(rows)

LogsIInv ==
  /\ LoopIInv /\ BaseTypes /\ bRows \in Seq(Row)
  /\ ArmLog /\ BaseLog /\ Aligned /\ Turns

-----------------------------------------------------------------------------
(* What a reply d tells on a sample S, when the oracle is asked.           *)
Answer(row, d, S) ==
  /\ row.patch = d /\ row.audit = None
  /\ \/ d = None /\ row.kind = "proposal_error" /\ row.error = "unusable"
        /\ row.accept = FALSE /\ row.case = None
     \/ d # None /\ Inconclusive(S) /\ row.kind = "oracle_error"
        /\ row.accept = FALSE /\ row.case = None
     \/ d # None /\ ~Inconclusive(S) /\ row.kind = "verdict"
        /\ row.accept = FALSE /\ row.case \in Refutations(d, S)
     \/ d # None /\ Accepts(d, S) /\ row.kind = "verdict"
        /\ row.accept = TRUE /\ row.case = None

(* What the guard tells instead.                                           *)
Skipped(row, d, S) ==
  /\ d # None /\ Blocked(d)
  /\ row.patch = d /\ row.audit \in Audits(d, S)
  /\ row.kind = "guarded" /\ row.accept = FALSE /\ row.case = None

ArmWrites(row, d, S) ==
  /\ row.round = round + 1
  /\ \/ Lost(row) /\ unreachable' = unreachable + 1
     \/ /\ Answer(row, d, S) \/ Skipped(row, d, S)
        /\ ~FreeGuarded => row.attempt # None
        /\ unreachable' = unreachable /\ status' \in {status, "returned"}

BaseWrites(row, d, S) ==
  /\ row.round = bRound + 1
  /\ \/ Lost(row) /\ bUnreachable' = bUnreachable + 1
     \/ /\ Answer(row, d, S) /\ row.attempt # None
        /\ bUnreachable' = bUnreachable /\ bStatus' \in {bStatus, "returned"}

(* The full pool refutes a patch on one case.                              *)
LEMMA OneRefutation ==
  ASSUME Complete, NEW p \in Patch, NEW S \in Samples,
         NEW c \in Refutations(p, S), NEW e \in Refutations(p, S)
  PROVE  c = e
<1>1. /\ c \in Nat /\ e \in Nat
      /\ c <= e /\ e <= c
  BY OracleAssumption DEF Refutations, Samples
<1> QED  BY <1>1

(* Two rows written on the same reply are counterparts.                    *)
LEMMA SameReplySameRow ==
  ASSUME Complete, MemIInv, NEW d \in Patch \cup {None}, NEW S \in Samples,
         NEW a, NEW b, Answer(a, d, S) \/ Skipped(a, d, S), Answer(b, d, S),
         b.attempt # None, ~FreeGuarded => a.attempt # None
  PROVE  Counterparts(a, b)
<1>1. d # None => d \in Patch
  OBVIOUS
<1>2. d # None /\ Refutations(d, S) # {} => ~Accepts(d, S) /\ ~Inconclusive(S)
  BY <1>1, OracleAssumption DEF Refutations, Accepts, Inconclusive, Samples
<1>3. \A c, e \in Refutations(d, S) : d # None => c = e /\ c # None
  <2> SUFFICES ASSUME d \in Patch, NEW c \in Refutations(d, S), NEW e \in Refutations(d, S)
               PROVE  c = e /\ c # None
    BY <1>1
  <2>1. c \in Case
    BY RefutationsAreFailures
  <2> QED  BY <2>1, OneRefutation, OracleAssumption
<1>4. Inconclusive(S) => Usable = {}
  BY OracleAssumption DEF Inconclusive, Samples
<1>5. Accepts(d, S) => ~Inconclusive(S)
  BY DEF Accepts
<1>6. CASE Answer(a, d, S)
  BY <1>2, <1>3, <1>4, <1>5, <1>6 DEF Counterparts, Answer
<1>7. CASE Skipped(a, d, S)
  <2>1. d \in Patch /\ ~Accepts(d, S)
    BY <1>1, <1>7, BlockedIsRefuted DEF Skipped
  <2>2. ~Inconclusive(S)
    <3>1. PICK i \in Refuted : history[i].case \in Fails[d]
      BY <1>7, <2>1, SearchedIsRefuted DEF Skipped, Blocked, Blockers, Consulted, StillRefutes
    <3> QED  BY <2>1, <3>1, OracleAssumption DEF Inconclusive, Samples
  <2>3. b.kind = "verdict" /\ b.accept = FALSE /\ b.case \in Refutations(d, S) /\ b.patch = d
        /\ b.audit = None
    BY <2>1, <2>2, OracleAssumption DEF Answer
  <2>4. a.audit = IF AuditGuarded THEN b.case ELSE None
    BY <1>3, <1>7, <2>1, <2>3 DEF Skipped, Audits
  <2> QED  BY <1>3, <1>7, <2>1, <2>3, <2>4 DEF Counterparts, Skipped
<1> QED  BY <1>6, <1>7

-----------------------------------------------------------------------------
(* Every round but a cap stop writes one row.                              *)
LEMMA ArmWritesItsRow ==
  ASSUME LoopIInv, NEW d \in Patch \cup {None}, NEW S \in Samples,
         ArmRound(d, S), ~CapReached
  PROVE  \E row \in Row : Record(row) /\ ArmWrites(row, d, S)
<1>0. attempts' \in Nat
  BY ArmStep DEF LoopIInv, TypeOK, LoopTypeOK
<1>1. Blank \in Row /\ attempts' # None
  BY <1>0, BlankType, LoopAssumption DEF LoopIInv
<1>2. CASE d = None /\ ProposalUnusable
  <2> DEFINE row == [Blank EXCEPT !.kind = "proposal_error", !.error = "unusable"]
  <2>1. /\ row \in Row /\ row.round = round + 1 /\ row.patch = None /\ row.audit = None
        /\ row.kind = "proposal_error" /\ row.error = "unusable"
        /\ row.accept = FALSE /\ row.case = None /\ row.attempt = attempts'
    BY <1>1 DEF Row, Blank
  <2>2. Record(row) /\ UNCHANGED <<unreachable, status>>
    BY <1>2 DEF ProposalUnusable
  <2> HIDE DEF row
  <2> QED  BY <1>1, <1>2, <2>1, <2>2 DEF ArmWrites, Answer
<1>3. CASE BackendUnreachable
  <2> DEFINE row == [Blank EXCEPT !.kind = "proposal_error", !.error = "unreachable"]
  <2>1. /\ row \in Row /\ row.round = round + 1
        /\ row.kind = "proposal_error" /\ row.error = "unreachable"
    BY <1>1 DEF Row, Blank
  <2>2. Record(row) /\ unreachable' = unreachable + 1
    BY <1>3 DEF BackendUnreachable
  <2> HIDE DEF row
  <2> QED  BY <2>1, <2>2 DEF ArmWrites, Lost
<1>4. CASE d # None /\ GuardedRound(d, S)
  <2> DEFINE unit == IF FreeGuarded THEN None ELSE attempts'
             flag == AuditGuarded /\ Accepts(d, S)
             row(c) == [Blank EXCEPT !.kind = "guarded", !.patch = d, !.attempt = unit,
                                     !.violation = flag, !.audit = c,
                                     !.hit = Hit(d), !.hitRefuted = HitRefuted(d)]
  <2>1. PICK c \in Audits(d, S) : Record(row(c))
    BY <1>4 DEF GuardedRound
  <2>2. /\ row(c).round = round + 1 /\ row(c).patch = d /\ row(c).audit = c
        /\ row(c).kind = "guarded" /\ row(c).accept = FALSE /\ row(c).case = None
        /\ row(c).attempt = unit
    BY DEF Blank
  <2>3. row(c) \in Row
    <3>1. c \in Case \cup {None} /\ flag \in BOOLEAN /\ unit \in Nat \cup {None} /\ d \in Patch
      BY <1>0, <1>4, <2>1, RefutationsAreFailures DEF Audits, Accepts
    <3> HIDE DEF unit, flag
    <3> QED  BY <1>1, <3>1, IndexType DEF Row
  <2>4. ~FreeGuarded => unit # None
    BY <1>1
  <2> HIDE DEF row, unit, flag
  <2>5. Blocked(d) /\ UNCHANGED <<unreachable, status>>
    BY <1>4 DEF GuardedRound, Guarded
  <2> QED  BY <1>4, <2>1, <2>2, <2>3, <2>4, <2>5 DEF ArmWrites, Skipped
<1>5. CASE d # None /\ OracleError(d, S)
  <2> DEFINE row == [Blank EXCEPT !.kind = "oracle_error", !.patch = d,
                                  !.hit = Hit(d), !.hitRefuted = HitRefuted(d)]
  <2>1. /\ row.round = round + 1 /\ row.patch = d /\ row.audit = None
        /\ row.kind = "oracle_error" /\ row.accept = FALSE /\ row.case = None
        /\ row.attempt = attempts'
    BY DEF Blank
  <2>2. row \in Row
    BY <1>1, <1>5, IndexType DEF Row
  <2>3. Record(row) /\ Inconclusive(S) /\ UNCHANGED <<unreachable, status>>
    BY <1>5 DEF OracleError
  <2> HIDE DEF row
  <2> QED  BY <1>1, <1>5, <2>1, <2>2, <2>3 DEF ArmWrites, Answer
<1>6. CASE d # None /\ Refute(d, S)
  <2> DEFINE row(c) == [Blank EXCEPT !.patch = d, !.case = c]
  <2>1. PICK c \in Refutations(d, S) : Record(row(c))
    BY <1>6 DEF Refute
  <2>2. c \in Case /\ d \in Patch
    BY <1>6, RefutationsAreFailures
  <2>3. /\ row(c) \in Row /\ row(c).round = round + 1 /\ row(c).patch = d
        /\ row(c).audit = None /\ row(c).kind = "verdict" /\ row(c).accept = FALSE
        /\ row(c).case = c /\ row(c).attempt = attempts'
    BY <1>1, <2>2 DEF Row, Blank
  <2> HIDE DEF row
  <2>4. ~Inconclusive(S) /\ UNCHANGED <<unreachable, status>>
    BY <1>6 DEF Refute
  <2> QED  BY <1>1, <1>6, <2>1, <2>3, <2>4 DEF ArmWrites, Answer
<1>7. CASE d # None /\ Accept(d, S)
  <2> DEFINE row == [Blank EXCEPT !.patch = d, !.accept = TRUE]
  <2>1. d \in Patch
    BY <1>7
  <2>2. /\ row \in Row /\ row.round = round + 1 /\ row.patch = d /\ row.audit = None
        /\ row.kind = "verdict" /\ row.accept = TRUE /\ row.case = None
        /\ row.attempt = attempts'
    BY <1>1, <2>1 DEF Row, Blank
  <2>3. /\ Record(row) /\ Accepts(d, S)
        /\ status' \in {status, "returned"} /\ unreachable' = unreachable
    BY <1>7 DEF Accept
  <2> HIDE DEF row
  <2> QED  BY <1>1, <1>7, <2>2, <2>3 DEF ArmWrites, Answer
<1>8. d # None => ~SelfTestBlocked(d) /\ ~OracleSkipped(d)
  BY PairAssumption DEF SelfTestBlocked, OracleSkipped
<1> QED  BY <1>2, <1>3, <1>4, <1>5, <1>6, <1>7, <1>8 DEF ArmRound, PatchRound

(* The baseline runs the same oracle.                                      *)
LEMMA SameRefutations ==
  ASSUME NEW p, NEW S
  PROVE  Base!Refutations(p, S) = Refutations(p, S)
<1>1. Base!Cardinality(Case) = Cardinality(Case)
  BY DEF Base!Cardinality, Cardinality
<1> QED  BY <1>1 DEF Base!Refutations, Refutations, Base!Complete, Complete

LEMMA BaseWritesItsRow ==
  ASSUME BaseTypes, NEW d \in Patch \cup {None}, NEW S \in Samples,
         BaseRound(d, S), ~Base!CapReached
  PROVE  \E row \in Row : bRows' = Append(bRows, row) /\ BaseWrites(row, d, S)
<1> USE DEF Base!Record
<1>0. bAttempts' \in Nat
  BY BaseTypesStep DEF BaseTypes
<1>1. Base!Blank \in Row /\ bAttempts' # None
  BY <1>0, LoopAssumption DEF Base!Blank, Row, BaseTypes
<1>2. CASE d = None /\ Base!ProposalUnusable
  <2> DEFINE row == [Base!Blank EXCEPT !.kind = "proposal_error", !.error = "unusable"]
  <2>1. /\ row \in Row /\ row.round = bRound + 1 /\ row.patch = None /\ row.audit = None
        /\ row.kind = "proposal_error" /\ row.error = "unusable"
        /\ row.accept = FALSE /\ row.case = None /\ row.attempt = bAttempts'
    BY <1>1 DEF Row, Base!Blank
  <2>2. bRows' = Append(bRows, row) /\ UNCHANGED <<bUnreachable, bStatus>>
    BY <1>2 DEF Base!ProposalUnusable
  <2> HIDE DEF row
  <2> QED  BY <1>1, <1>2, <2>1, <2>2 DEF BaseWrites, Answer
<1>3. CASE Base!BackendUnreachable
  <2> DEFINE row == [Base!Blank EXCEPT !.kind = "proposal_error", !.error = "unreachable"]
  <2>1. /\ row \in Row /\ row.round = bRound + 1
        /\ row.kind = "proposal_error" /\ row.error = "unreachable"
    BY <1>1 DEF Row, Base!Blank
  <2>2. bRows' = Append(bRows, row) /\ bUnreachable' = bUnreachable + 1
    BY <1>3 DEF Base!BackendUnreachable
  <2> HIDE DEF row
  <2> QED  BY <2>1, <2>2 DEF BaseWrites, Lost
<1>4. d # None => ~Base!GuardedRound(d, S) /\ ~Base!SelfTestBlocked(d) /\ ~Base!OracleSkipped(d)
  BY BaselineNeverGuards, PairAssumption
  DEF Base!GuardedRound, Base!SelfTestBlocked, Base!OracleSkipped
<1>5. CASE d # None /\ Base!OracleError(d, S)
  <2> DEFINE row == [Base!Blank EXCEPT !.kind = "oracle_error", !.patch = d,
                                       !.hit = Base!Hit(d), !.hitRefuted = Base!HitRefuted(d)]
  <2>1. /\ row.round = bRound + 1 /\ row.patch = d /\ row.audit = None
        /\ row.kind = "oracle_error" /\ row.accept = FALSE /\ row.case = None
        /\ row.attempt = bAttempts'
    BY DEF Base!Blank
  <2>2. row \in Row
    <3>1. Base!Hit(d) = None /\ Base!HitRefuted(d) = None
      BY DEF Base!Hit, Base!HitRefuted, Base!IndexSpeaks
    <3> QED  BY <1>1, <1>5, <3>1 DEF Row
  <2>3. bRows' = Append(bRows, row) /\ Inconclusive(S) /\ UNCHANGED <<bUnreachable, bStatus>>
    BY <1>5 DEF Base!OracleError, Base!Inconclusive, Inconclusive
  <2> HIDE DEF row
  <2> QED  BY <1>1, <1>5, <2>1, <2>2, <2>3 DEF BaseWrites, Answer
<1>6. CASE d # None /\ Base!Refute(d, S)
  <2> DEFINE row(c) == [Base!Blank EXCEPT !.patch = d, !.case = c]
  <2>1. PICK c \in Refutations(d, S) : bRows' = Append(bRows, row(c))
    BY <1>6, SameRefutations DEF Base!Refute
  <2>2. c \in Case /\ d \in Patch
    BY <1>6, RefutationsAreFailures
  <2>3. /\ row(c) \in Row /\ row(c).round = bRound + 1 /\ row(c).patch = d
        /\ row(c).audit = None /\ row(c).kind = "verdict" /\ row(c).accept = FALSE
        /\ row(c).case = c /\ row(c).attempt = bAttempts'
    BY <1>1, <2>2 DEF Row, Base!Blank
  <2> HIDE DEF row
  <2>4. ~Inconclusive(S) /\ UNCHANGED <<bUnreachable, bStatus>>
    BY <1>6 DEF Base!Refute, Base!Inconclusive, Inconclusive
  <2> QED  BY <1>1, <1>6, <2>1, <2>3, <2>4 DEF BaseWrites, Answer
<1>7. CASE d # None /\ Base!Accept(d, S)
  <2> DEFINE row == [Base!Blank EXCEPT !.patch = d, !.accept = TRUE]
  <2>1. d \in Patch
    BY <1>7
  <2>2. /\ row \in Row /\ row.round = bRound + 1 /\ row.patch = d /\ row.audit = None
        /\ row.kind = "verdict" /\ row.accept = TRUE /\ row.case = None
        /\ row.attempt = bAttempts'
    BY <1>1, <2>1 DEF Row, Base!Blank
  <2>3. /\ bRows' = Append(bRows, row) /\ Accepts(d, S)
        /\ bStatus' \in {bStatus, "returned"} /\ bUnreachable' = bUnreachable
    BY <1>7 DEF Base!Accept, Base!Accepts, Base!Inconclusive, Accepts, Inconclusive
  <2> HIDE DEF row
  <2> QED  BY <1>1, <1>7, <2>2, <2>3 DEF BaseWrites, Answer
<1> QED  BY <1>2, <1>3, <1>4, <1>5, <1>6, <1>7 DEF BaseRound, Base!PatchRound

-----------------------------------------------------------------------------
LEMMA AppendTo ==
  ASSUME NEW past \in Seq(Row), NEW row \in Row
  PROVE  /\ Append(past, row) \in Seq(Row)
         /\ Len(past) \in Nat /\ Len(Append(past, row)) = Len(past) + 1
         /\ DOMAIN past = 1..Len(past)
         /\ DOMAIN Append(past, row) = DOMAIN past \cup {Len(past) + 1}
         /\ \A k \in DOMAIN past : Append(past, row)[k] = past[k]
         /\ Append(past, row)[Len(past) + 1] = row
  OBVIOUS

LEMMA ArmLogStep ==
  ASSUME LogsIInv, NEW d \in Patch \cup {None}, NEW S \in Samples, ArmRound(d, S)
  PROVE  ArmLog'
<1>1. /\ LoopIInv /\ rows \in Seq(Row) /\ unreachable \in Nat /\ round \in Nat
      /\ status = "running" /\ round' = round + 1 /\ Len(rows) = round
  BY ArmStep DEF LogsIInv, LoopIInv, TypeOK, LoopTypeOK, MayDraw, ArmLog, ArmRound,
     ProposalUnusable, BackendUnreachable, CapReached, PatchRound, GuardedRound,
     SelfTestBlocked, OracleSkipped, OracleError, Refute, Accept, Draw
<1>2. CASE CapReached
  BY <1>2 DEF CapReached, LogsIInv, ArmLog
<1>3. CASE ~CapReached
  <2>1. PICK row \in Row : rows' = Append(rows, row) /\ ArmWrites(row, d, S)
    BY <1>1, <1>3, ArmWritesItsRow DEF Record
  <2>2. /\ Len(rows) \in Nat /\ Len(rows') = Len(rows) + 1
        /\ DOMAIN rows' = DOMAIN rows \cup {Len(rows) + 1}
        /\ \A k \in DOMAIN rows : rows'[k] = rows[k]
        /\ rows'[Len(rows) + 1] = row
    BY <1>1, <2>1, AppendTo
  <2>3. \A k \in DOMAIN rows' : rows'[k].round = k
    BY <1>1, <2>1, <2>2 DEF ArmWrites, LogsIInv, ArmLog
  <2>4. unreachable' = 0 => unreachable = 0 /\ ~Lost(row)
    BY <1>1, <2>1 DEF ArmWrites, Answer, Skipped, Lost
  <2>5. unreachable' = 0 => \A k \in DOMAIN rows' : ~Lost(rows'[k])
    BY <2>2, <2>4 DEF LogsIInv, ArmLog
  <2> QED  BY <1>1, <2>2, <2>3, <2>5 DEF ArmLog, Lost
<1> QED  BY <1>2, <1>3

LEMMA BaseLogStep ==
  ASSUME LogsIInv, NEW d \in Patch \cup {None}, NEW S \in Samples, BaseRound(d, S)
  PROVE  BaseLog' /\ bRows' \in Seq(Row)
<1>1. /\ BaseTypes /\ bRows \in Seq(Row) /\ bUnreachable \in Nat /\ bRound \in Nat
      /\ bStatus = "running" /\ bRound' = bRound + 1 /\ Len(bRows) = bRound
  BY BaseDraws, BaseEffect DEF LogsIInv, BaseTypes, BaseLog, Base!MayDraw, BaseRound,
     Base!ProposalUnusable, Base!BackendUnreachable, Base!CapReached, Base!Draw
<1>2. CASE Base!CapReached
  BY <1>2 DEF Base!CapReached, LogsIInv, BaseLog
<1>3. CASE ~Base!CapReached
  <2>1. PICK row \in Row : bRows' = Append(bRows, row) /\ BaseWrites(row, d, S)
    BY <1>1, <1>3, BaseWritesItsRow
  <2>2. /\ Len(bRows) \in Nat /\ Len(bRows') = Len(bRows) + 1
        /\ DOMAIN bRows' = DOMAIN bRows \cup {Len(bRows) + 1}
        /\ \A k \in DOMAIN bRows : bRows'[k] = bRows[k]
        /\ bRows'[Len(bRows) + 1] = row
        /\ bRows' \in Seq(Row)
    BY <1>1, <2>1, AppendTo
  <2>3. \A k \in DOMAIN bRows' : bRows'[k].round = k
    BY <1>1, <2>1, <2>2 DEF BaseWrites, LogsIInv, BaseLog
  <2>4. bUnreachable' = 0 => bUnreachable = 0 /\ ~Lost(row)
    BY <1>1, <2>1 DEF BaseWrites, Answer, Lost
  <2>5. bUnreachable' = 0 => \A k \in DOMAIN bRows' : ~Lost(bRows'[k])
    BY <2>2, <2>4 DEF LogsIInv, BaseLog
  <2> QED  BY <1>1, <2>2, <2>3, <2>5 DEF BaseLog, Lost
<1> QED  BY <1>2, <1>3

(* What a round does to the length of a log.                               *)
LEMMA ArmGrows ==
  ASSUME LogsIInv, NEW d \in Patch \cup {None}, NEW S \in Samples, ArmRound(d, S)
  PROVE  \/ rows' = rows /\ status' = "raised"
         \/ \E row \in Row : rows' = Append(rows, row) /\ ArmWrites(row, d, S)
  BY ArmWritesItsRow DEF CapReached, Record, LogsIInv

LEMMA BaseGrows ==
  ASSUME LogsIInv, NEW d \in Patch \cup {None}, NEW S \in Samples, BaseRound(d, S)
  PROVE  \/ bRows' = bRows /\ bStatus' = "raised"
         \/ \E row \in Row : bRows' = Append(bRows, row) /\ BaseWrites(row, d, S)
  BY BaseWritesItsRow DEF Base!CapReached, LogsIInv

LEMMA TogetherAligned ==
  ASSUME Complete, LogsIInv, NEW d \in Patch \cup {None}, NEW S \in Samples,
         ArmRound(d, S), BaseRound(d, S)
  PROVE  Aligned' /\ Turns'
<1>1. /\ rows \in Seq(Row) /\ bRows \in Seq(Row) /\ MemIInv
      /\ Len(rows) = Len(bRows) /\ Len(rows) \in Nat
      /\ DOMAIN rows = 1..Len(rows) /\ DOMAIN bRows = 1..Len(rows)
  <2>1. rows \in Seq(Row) /\ bRows \in Seq(Row) /\ MemIInv
    BY DEF LogsIInv, LoopIInv, TypeOK, LoopTypeOK
  <2>2. MayDraw /\ Base!MayDraw
    BY ArmStep, BaseDraws DEF LogsIInv
  <2>3. Len(rows) >= Len(bRows) /\ Len(bRows) >= Len(rows)
    BY <2>2 DEF LogsIInv, Turns
  <2> QED  BY <2>1, <2>3
<1> PICK n \in Nat : n = Len(rows) + 1
  BY <1>1
<1>2. \A k \in DOMAIN rows : k # n
  BY <1>1
<1>3. CASE rows' = rows /\ status' = "raised"
  <2>1. bRows' = bRows \/ \E row \in Row : bRows' = Append(bRows, row)
    BY BaseGrows
  <2>2. /\ \A k \in DOMAIN rows : k \in DOMAIN bRows' /\ bRows'[k] = bRows[k]
        /\ Len(bRows') >= Len(rows)
    BY <1>1, <2>1
  <2> QED  BY <1>1, <1>3, <2>2 DEF LogsIInv, Aligned, Turns, MayDraw
<1>4. ASSUME NEW a \in Row, rows' = Append(rows, a), ArmWrites(a, d, S)
      PROVE  Aligned' /\ Turns'
  <2>1. /\ Len(rows') = n /\ DOMAIN rows' = DOMAIN rows \cup {n} /\ rows'[n] = a
        /\ \A k \in DOMAIN rows : rows'[k] = rows[k]
    BY <1>1, <1>4, AppendTo
  <2>2. CASE bRows' = bRows /\ bStatus' = "raised"
    BY <1>1, <1>2, <2>1, <2>2 DEF LogsIInv, Aligned, Turns, Base!MayDraw
  <2>3. ASSUME NEW b \in Row, bRows' = Append(bRows, b), BaseWrites(b, d, S)
        PROVE  Aligned' /\ Turns'
    <3>1. /\ Len(bRows') = n /\ DOMAIN bRows' = DOMAIN bRows \cup {n} /\ bRows'[n] = b
          /\ \A k \in DOMAIN bRows : bRows'[k] = bRows[k]
      BY <1>1, <2>3, AppendTo
    <3>2. Counterparts(a, b) \/ Lost(a) \/ Lost(b)
      BY <1>1, <1>4, <2>3, SameReplySameRow DEF ArmWrites, BaseWrites
    <3>3. \A k \in DOMAIN rows' \cap DOMAIN bRows' :
            Counterparts(rows'[k], bRows'[k]) \/ Lost(rows'[k]) \/ Lost(bRows'[k])
      BY <1>1, <2>1, <3>1, <3>2 DEF LogsIInv, Aligned
    <3> QED  BY <2>1, <3>1, <3>3 DEF Aligned, Counterparts, Lost, Turns
  <2> QED  BY <2>2, <2>3, BaseGrows
<1> QED  BY <1>3, <1>4, ArmGrows

LEMMA ArmAloneAligned ==
  ASSUME LogsIInv, ArmAlone
  PROVE  Aligned' /\ Turns'
<1>1. PICK d \in Patch \cup {None}, S \in Samples : ArmRound(d, S)
  BY DEF ArmAlone
<1>2. MayDraw /\ rows \in Seq(Row) /\ bRows \in Seq(Row) /\ Len(rows) >= Len(bRows)
  BY <1>1, ArmStep DEF LogsIInv, LoopIInv, TypeOK, LoopTypeOK, Turns
<1>3. ~Base!MayDraw' /\ bRows' = bRows
  BY DEF ArmAlone, baseVars, Base!MayDraw, Base!MaxDraws
<1>4. rows' = rows \/ \E row \in Row : rows' = Append(rows, row)
  BY <1>1, ArmGrows
<1>5. /\ \A k \in DOMAIN bRows : k \in DOMAIN rows /\ k \in DOMAIN rows' /\ rows'[k] = rows[k]
      /\ Len(rows') >= Len(bRows)
  BY <1>2, <1>4
<1> QED  BY <1>3, <1>5 DEF LogsIInv, Aligned, Turns

LEMMA BaseAloneAligned ==
  ASSUME LogsIInv, BaseAlone
  PROVE  Aligned' /\ Turns'
<1>1. PICK d \in Patch \cup {None}, S \in Samples : BaseRound(d, S)
  BY DEF BaseAlone
<1>2. Base!MayDraw /\ rows \in Seq(Row) /\ bRows \in Seq(Row) /\ Len(bRows) >= Len(rows)
  BY <1>1, BaseDraws DEF LogsIInv, LoopIInv, TypeOK, LoopTypeOK, Turns
<1>3. ~MayDraw' /\ rows' = rows
  BY DEF BaseAlone, vars, loopVars, MayDraw, MaxDraws
<1>4. bRows' = bRows \/ \E row \in Row : bRows' = Append(bRows, row)
  BY <1>1, BaseGrows
<1>5. /\ \A k \in DOMAIN rows : k \in DOMAIN bRows /\ k \in DOMAIN bRows' /\ bRows'[k] = bRows[k]
      /\ Len(bRows') >= Len(rows)
  BY <1>2, <1>4
<1> QED  BY <1>3, <1>5 DEF LogsIInv, Aligned, Turns

LEMMA LogsInit == PairInit => LogsIInv
<1> SUFFICES ASSUME PairInit PROVE LogsIInv
  OBVIOUS
<1>1. LoopIInv /\ BaseTypes
  BY PairInitIInv DEF PairIInv
<1>2. rows = <<>> /\ bRows = <<>> /\ round = 0 /\ bRound = 0
  BY DEF PairInit, Init, Base!Init
<1> QED  BY <1>1, <1>2 DEF LogsIInv, ArmLog, BaseLog, Aligned, Turns

LEMMA LogsStep ==
  ASSUME Complete, LogsIInv, [PairNext]_pairVars
  PROVE  LogsIInv'
<1>1. CASE Together
  <2>1. PICK d \in Patch \cup {None}, S \in Samples : ArmRound(d, S) /\ BaseRound(d, S)
    BY <1>1 DEF Together
  <2>2. LoopIInv' /\ BaseTypes'
    BY <2>1, ArmStep, BaseTypesStep DEF LogsIInv
  <2> QED  BY <2>1, <2>2, ArmLogStep, BaseLogStep, TogetherAligned DEF LogsIInv
<1>2. CASE ArmAlone
  <2>1. PICK d \in Patch \cup {None}, S \in Samples : ArmRound(d, S)
    BY <1>2 DEF ArmAlone
  <2>2. LoopIInv' /\ ArmLog' /\ Aligned' /\ Turns'
    BY <1>2, <2>1, ArmStep, ArmLogStep, ArmAloneAligned DEF LogsIInv
  <2>3. BaseTypes' /\ BaseLog' /\ bRows' \in Seq(Row)
    BY <1>2 DEF ArmAlone, baseVars, LogsIInv, BaseTypes, BaseLog
  <2> QED  BY <2>2, <2>3 DEF LogsIInv
<1>3. CASE BaseAlone
  <2>1. PICK d \in Patch \cup {None}, S \in Samples : BaseRound(d, S)
    BY <1>3 DEF BaseAlone
  <2>2. LoopIInv'
    BY <1>3, LoopStep DEF BaseAlone, LogsIInv
  <2>3. BaseTypes' /\ BaseLog' /\ bRows' \in Seq(Row) /\ Aligned' /\ Turns'
    BY <1>3, <2>1, BaseTypesStep, BaseLogStep, BaseAloneAligned DEF LogsIInv
  <2>4. ArmLog'
    BY <1>3 DEF BaseAlone, vars, loopVars, LogsIInv, ArmLog
  <2> QED  BY <2>2, <2>3, <2>4 DEF LogsIInv
<1>4. CASE ArmReturns
  <2>1. LoopIInv'
    BY <1>4, LoopStep DEF ArmReturns, LogsIInv, Next
  <2>2. /\ status = "running" /\ status' = "returned" /\ UNCHANGED <<rows, round, unreachable>>
        /\ UNCHANGED baseVars
    BY <1>4 DEF ArmReturns, Exhausted
  <2> QED  BY <2>1, <2>2 DEF LogsIInv, baseVars, BaseTypes, ArmLog, BaseLog, Aligned, Turns,
              MayDraw, Base!MayDraw, Base!MaxDraws
<1>5. CASE BaseReturns
  <2>1. LoopIInv'
    BY <1>5, LoopStep DEF BaseReturns, LogsIInv
  <2>2. /\ bStatus = "running" /\ bStatus' = "returned"
        /\ UNCHANGED <<bRows, bRound, bAttempts, bUnreachable>> /\ UNCHANGED vars
    BY <1>5 DEF BaseReturns, Base!Exhausted
  <2> QED  BY <2>1, <2>2 DEF LogsIInv, vars, loopVars, BaseTypes, ArmLog, BaseLog, Aligned,
              Turns, MayDraw, MaxDraws, Base!MayDraw
<1>6. CASE UNCHANGED pairVars
  <2>1. LoopIInv'
    BY <1>6, LoopStep DEF pairVars, LogsIInv
  <2> QED  BY <1>6, <2>1 DEF pairVars, vars, loopVars, baseVars, LogsIInv, BaseTypes,
              ArmLog, BaseLog, Aligned, Turns, MayDraw, MaxDraws, Base!MayDraw, Base!MaxDraws
<1> QED  BY <1>1, <1>2, <1>3, <1>4, <1>5, <1>6 DEF PairNext

LEMMA LogsAreAligned == ASSUME Complete PROVE PairSpec => []LogsIInv
<1>1. LogsIInv /\ [PairNext]_pairVars => LogsIInv'
  BY LogsStep
<1> QED  BY <1>1, LogsInit, PTL DEF PairSpec

(* A skipped round is one the baseline paid for and saw refuted.           *)
THEOREM OnlyFailuresAreSkipped ==
  ASSUME Complete
  PROVE  PairSpec => []SkipsOnlyFailures
<1>1. LogsIInv => SkipsOnlyFailures
  BY DEF LogsIInv, Aligned, Counterparts, Lost, SkipsOnlyFailures
<1> QED  BY <1>1, LogsAreAligned, PTL

-----------------------------------------------------------------------------
(* Undisturbed, the guarding arm never stops before the baseline, whatever *)
(* its accounting: while the baseline draws they draw together, the arm    *)
(* having spent no more, and what the baseline found it found too.         *)
Lead ==
  Undisturbed =>
    /\ bRound <= round
    /\ Base!MayDraw => MayDraw /\ round = bRound
    /\ round = bRound => attempts <= bAttempts /\ found = bFound
    /\ bFound.round # None => found = bFound

LeadIInv == LoopIInv /\ BaseTypes /\ Lead

LEMMA BudgetWithinDraws == Budget \in Nat /\ Budget <= MaxDraws /\ Base!MaxDraws = Budget
  BY LoopAssumption DEF MaxDraws, Base!MaxDraws

LEMMA LeadTogether ==
  ASSUME Complete, LeadIInv, NEW d \in Patch \cup {None}, NEW S \in Samples,
         ArmRound(d, S), BaseRound(d, S)
  PROVE  Lead'
<1> SUFFICES ASSUME Undisturbed'
             PROVE  /\ round' = bRound' /\ attempts' <= bAttempts' /\ found' = bFound'
                    /\ status' = bStatus' /\ bRound' \in Nat /\ attempts' \in Nat
                    /\ bAttempts' \in Nat
  <2>1. Base!MaxDraws' = Budget /\ MaxDraws' = MaxDraws
    BY DEF Base!MaxDraws, MaxDraws
  <2>2. ASSUME Undisturbed' PROVE Base!MayDraw' => MayDraw'
    <3> SUFFICES ASSUME bStatus' = "running", bAttempts' < Budget, bRound' < Budget
                 PROVE  status' = "running" /\ attempts' < Budget /\ round' < MaxDraws
      BY <2>1 DEF MayDraw, Base!MayDraw
    <3> QED  BY <2>2, BudgetWithinDraws, MaxDrawsType
  <2> QED  BY <2>2 DEF Lead
<1>1. ~(BackendUnreachable \/ CapReached) /\ ~(Base!BackendUnreachable \/ Base!CapReached)
  BY ArmMissed, BaseMissed DEF LeadIInv, LoopIInv, Undisturbed
<1>2. status = "running" /\ bStatus = "running" /\ Base!MayDraw
  BY ArmStep, BaseDraws DEF LeadIInv, MayDraw, Base!MayDraw
<1>3. attempts' \in Nat /\ attempts \in Nat /\ BaseTypes /\ BaseTypes'
  BY ArmStep, BaseTypesStep DEF LeadIInv, LoopIInv, TypeOK, LoopTypeOK
<1>4. unreachable' = unreachable /\ bUnreachable' = bUnreachable
  <2>1. CASE d = None
    BY <1>1, <2>1 DEF ArmRound, BaseRound, ProposalUnusable, Base!ProposalUnusable
  <2>2. CASE d # None
    BY <1>1, <2>2, ArmEffect, BaseEffect DEF ArmRound, BaseRound, LeadIInv
  <2> QED  BY <2>1, <2>2
<1>5. round = bRound /\ attempts <= bAttempts /\ found = bFound
  BY <1>2, <1>4 DEF Undisturbed, LeadIInv, Lead
<1>6. CASE d = None
  <2>1. ProposalUnusable /\ Base!ProposalUnusable
    BY <1>1, <1>6 DEF ArmRound, BaseRound
  <2>2. /\ round' = round + 1 /\ bRound' = bRound + 1
        /\ attempts' = attempts + 1 /\ bAttempts' = bAttempts + 1
        /\ UNCHANGED <<status, found, bStatus, bFound>>
    BY <2>1 DEF ProposalUnusable, Base!ProposalUnusable, Draw, Base!Draw, Charge, Base!Charge
  <2> QED  BY <1>2, <1>3, <1>5, <2>2 DEF BaseTypes
<1>7. CASE d # None
  <2>1. PatchRound(d, S) /\ Base!PatchRound(d, S) /\ d \in Patch
    BY <1>1, <1>7 DEF ArmRound, BaseRound
  <2>2. /\ round' = round + 1 /\ attempts' <= attempts + 1
        /\ found' = IF Accepts(d, S) THEN Found(d) ELSE found
        /\ status' = IF Accepts(d, S) /\ ~ForceFull THEN "returned" ELSE status
    BY <2>1, ArmEffect DEF LeadIInv
  <2>3. /\ bRound' = bRound + 1 /\ bAttempts' = bAttempts + 1
        /\ bFound' = IF Accepts(d, S) THEN Base!Found(d) ELSE bFound
        /\ bStatus' = IF Accepts(d, S) /\ ~ForceFull THEN "returned" ELSE bStatus
    BY <2>1, BaseEffect
  <2>4. Base!Found(d) = Found(d)
    BY <1>5 DEF Found, Base!Found
  <2>5. found' = bFound' /\ status' = bStatus'
    BY <1>2, <1>5, <2>2, <2>3, <2>4
  <2> QED  BY <1>3, <1>5, <2>2, <2>3, <2>5 DEF BaseTypes
<1> QED  BY <1>6, <1>7

LEMMA LeadArmAlone ==
  ASSUME LeadIInv, ArmAlone
  PROVE  Lead'
<1> SUFFICES ASSUME Undisturbed' PROVE Lead'
  BY DEF Lead
<1>1. PICK d \in Patch \cup {None}, S \in Samples : ArmRound(d, S)
  BY DEF ArmAlone
<1>2. MayDraw /\ ~(BackendUnreachable \/ CapReached)
  BY <1>1, ArmStep, ArmMissed DEF LeadIInv, LoopIInv, Undisturbed
<1>3. /\ unreachable' = unreachable /\ status = "running" /\ round' = round + 1
      /\ found' = found \/ \E p \in Patch : found' = Found(p)
  BY <1>1, <1>2 DEF ArmRound, MayDraw, ProposalUnusable, PatchRound, GuardedRound,
     SelfTestBlocked, OracleSkipped, OracleError, Refute, Accept, Draw
<1>4. UNCHANGED baseVars /\ ~Base!MayDraw'
  BY DEF ArmAlone, baseVars, Base!MayDraw, Base!MaxDraws
<1>5. Undisturbed
  BY <1>3, <1>4 DEF Undisturbed, baseVars
<1>6. bRound <= round /\ bRound \in Nat /\ round \in Nat
  BY <1>5 DEF LeadIInv, Lead, BaseTypes, LoopIInv, TypeOK, LoopTypeOK
<1>7. bFound'.round # None => found' = bFound'
  BY <1>3, <1>4, <1>5 DEF LeadIInv, Lead, baseVars, Found
<1>8. bRound' <= round' /\ round' # bRound'
  BY <1>3, <1>4, <1>6 DEF baseVars
<1> QED  BY <1>4, <1>7, <1>8 DEF Lead

(* Alone the baseline draws only when an arm has lost a draw.              *)
LEMMA LeadBaseAlone ==
  ASSUME LeadIInv, BaseAlone
  PROVE  Lead'
<1> SUFFICES ASSUME Undisturbed' PROVE FALSE
  BY DEF Lead
<1>1. PICK d \in Patch \cup {None}, S \in Samples : BaseRound(d, S)
  BY DEF BaseAlone
<1>2. Base!MayDraw /\ ~(Base!BackendUnreachable \/ Base!CapReached)
  BY <1>1, BaseDraws, BaseMissed DEF LeadIInv, Undisturbed
<1>3. bUnreachable' = bUnreachable /\ bStatus = "running"
  BY <1>1, <1>2, BaseEffect DEF BaseRound, Base!MayDraw, Base!ProposalUnusable
<1>4. Undisturbed
  BY <1>3 DEF Undisturbed, BaseAlone, vars, loopVars
<1> QED  BY <1>2, <1>4 DEF LeadIInv, Lead, BaseAlone

LEMMA LeadReturns ==
  ASSUME LeadIInv, ArmReturns \/ BaseReturns
  PROVE  Lead'
<1>1. /\ UNCHANGED <<round, attempts, found, unreachable>>
      /\ UNCHANGED <<bRound, bAttempts, bFound, bUnreachable>>
  BY DEF ArmReturns, BaseReturns, Exhausted, Base!Exhausted, vars, loopVars, baseVars
<1>2. \/ status = "running" /\ bStatus' = bStatus /\ ~MayDraw
      \/ bStatus = "running" /\ bStatus' = "returned" /\ status' = status
  BY DEF ArmReturns, BaseReturns, Exhausted, Base!Exhausted, vars, loopVars, baseVars
<1>3. Undisturbed' => Undisturbed
  BY <1>1, <1>2 DEF Undisturbed
<1>4. Undisturbed /\ Base!MayDraw' => MayDraw /\ status' = status /\ round = bRound
  BY <1>1, <1>2 DEF LeadIInv, Lead, Base!MayDraw, Base!MaxDraws
<1>5. MayDraw /\ status' = status => MayDraw'
  BY <1>1 DEF MayDraw, MaxDraws
<1> QED  BY <1>1, <1>3, <1>4, <1>5 DEF LeadIInv, Lead

LEMMA LeadStep ==
  ASSUME Complete, LeadIInv, LoopIInv', BaseTypes', [PairNext]_pairVars
  PROVE  LeadIInv'
<1>1. CASE Together
  BY <1>1, LeadTogether DEF Together, LeadIInv
<1>2. CASE ArmAlone \/ BaseAlone \/ ArmReturns \/ BaseReturns
  BY <1>2, LeadArmAlone, LeadBaseAlone, LeadReturns DEF LeadIInv
<1>3. CASE UNCHANGED pairVars
  BY <1>3 DEF pairVars, vars, loopVars, baseVars, LeadIInv, Lead, Undisturbed,
     MayDraw, MaxDraws, Base!MayDraw, Base!MaxDraws
<1> QED  BY <1>1, <1>2, <1>3 DEF PairNext

-----------------------------------------------------------------------------
(* What the analysis reads out of two logs that tell of the same draws.    *)
SameDraws ==
  /\ rows \in Seq(Row) /\ bRows \in Seq(Row)
  /\ DOMAIN rows = DOMAIN bRows
  /\ \A k \in DOMAIN rows :
       /\ Counterparts(rows[k], bRows[k])
       /\ rows[k].round = k /\ bRows[k].round = k

LEMMA InStepIsSameDraws ==
  ASSUME LogsIInv, Undisturbed, round = bRound
  PROVE  SameDraws
<1>1. Len(rows) = Len(bRows) /\ rows \in Seq(Row) /\ bRows \in Seq(Row)
  BY DEF LogsIInv, LoopIInv, TypeOK, LoopTypeOK, ArmLog, BaseLog, Undisturbed
<1>2. DOMAIN rows = DOMAIN bRows
  BY <1>1
<1> QED  BY <1>1, <1>2 DEF LogsIInv, ArmLog, BaseLog, Aligned, Undisturbed, SameDraws

(* The kinds that stop a round short of the oracle: here only the guard.   *)
LEMMA KindsOfCounterparts ==
  ASSUME NEW a, NEW b, Counterparts(a, b)
  PROVE  /\ HitsOracle(b) /\ b.kind # "guarded"
         /\ StoppedShort(a) <=> a.kind = "guarded"
         /\ a.kind = "guarded" => ~a.accept /\ a.case = None /\ b.case # None
                                  /\ a.audit = IF AuditGuarded THEN b.case ELSE None
         /\ a.kind # "guarded" => a.kind = b.kind /\ a.case = b.case /\ a.audit = None
         /\ a.patch = b.patch /\ a.accept = b.accept /\ b.audit = None
  BY DEF Counterparts, HitsOracle, StoppedShort

LEMMA SameEffective ==
  ASSUME SameDraws
  PROVE  /\ AcceptedRows(rows) = AcceptedRows(bRows)
         /\ FirstAccept(rows) = FirstAccept(bRows)
         /\ Effective(rows) = Effective(bRows)
         /\ Effective(rows) \subseteq DOMAIN rows
         /\ ~Gap
<1>1. AcceptedRows(rows) = AcceptedRows(bRows)
  BY KindsOfCounterparts DEF SameDraws, AcceptedRows, HitsOracle
<1>2. FirstAccept(rows) = FirstAccept(bRows)
  BY <1>1 DEF FirstAccept
<1>3. Effective(rows) = Effective(bRows)
  BY <1>2 DEF Effective, SameDraws
<1>4. Effective(rows) \subseteq DOMAIN rows
  <2>1. CASE AcceptedRows(rows) = {}
    BY <2>1 DEF Effective, FirstAccept
  <2>2. CASE AcceptedRows(rows) # {}
    <3>1. DOMAIN rows = 1..Len(rows) /\ Len(rows) \in Nat
      BY DEF SameDraws
    <3>2. AcceptedRows(rows) \subseteq DOMAIN rows /\ AcceptedRows(rows) \subseteq Nat
      BY <3>1 DEF AcceptedRows
    <3>3. \E k \in AcceptedRows(rows) : \A j \in AcceptedRows(rows) : k <= j
      BY <2>2, <3>2, LeastNatural
    <3>4. FirstAccept(rows) \in AcceptedRows(rows)
      BY <2>2, <3>3 DEF FirstAccept
    <3> QED  BY <3>1, <3>2, <3>4 DEF Effective
  <2> QED  BY <2>1, <2>2
<1>5. ~Gap
  BY <1>2 DEF Gap, SuccessAtB
<1> QED  BY <1>1, <1>2, <1>3, <1>4, <1>5

(* A skipped round takes back the type the baseline's row of the draw has. *)
LEMMA SameTypes ==
  ASSUME SameDraws, NEW k \in DOMAIN rows
  PROVE  TypeOf(rows[k], DrawTypes) = TypeOf(bRows[k], DrawTypes)
<1> DEFINE a == rows[k]
           b == bRows[k]
<1>1. /\ Counterparts(a, b) /\ a.round = k /\ b.round = k /\ k \in DOMAIN bRows
      /\ b.patch \in Patch \cup {None} /\ b.case \in Case \cup {None}
  <2>1. Counterparts(a, b) /\ a.round = k /\ b.round = k /\ k \in DOMAIN bRows
    BY DEF SameDraws
  <2>2. b \in Row
    BY <2>1 DEF SameDraws
  <2> QED  BY <2>1, <2>2 DEF Row
<1>2. TypeOf(b, DrawTypes) = OwnType(b)
  BY <1>1, KindsOfCounterparts DEF TypeOf, HitsOracle
<1>3. CASE a.kind # "guarded"
  <2>1. OwnType(a) = OwnType(b)
    BY <1>1, <1>3, KindsOfCounterparts DEF OwnType
  <2>2. TypeOf(a, DrawTypes) = OwnType(a)
    BY <1>1, <1>3, KindsOfCounterparts DEF TypeOf
  <2> QED  BY <1>2, <2>1, <2>2
<1>4. CASE a.kind = "guarded"
  <2>1. /\ a.case = None /\ b.case # None /\ a.patch = b.patch
        /\ a.audit = IF AuditGuarded THEN b.case ELSE None
        /\ b.kind = "verdict" /\ StoppedShort(a)
    BY <1>1, <1>4, KindsOfCounterparts DEF Counterparts
  <2>2. OwnType(b) = FineType(b.patch, b.case)
    BY <2>1 DEF OwnType
  <2>3. OwnType(b) # None
    <3>1. b.patch \in Patch /\ b.case \in Case
      BY <1>1, <2>1 DEF Counterparts
    <3> QED  BY <2>2, <3>1, ProposerAssumption DEF FineType
  <2>4. CASE AuditGuarded
    <3>1. OwnType(a) = OwnType(b)
      BY <2>1, <2>2, <2>4 DEF OwnType
    <3> QED  BY <1>2, <2>3, <3>1 DEF TypeOf
  <2>5. CASE ~AuditGuarded
    <3> DEFINE twins == {e \in DrawTypes : e.round = a.round /\ e.patch = a.patch}
               twin == [round |-> k, patch |-> b.patch, type |-> OwnType(b)]
    <3>1. IndexOf(rows, FALSE, AuditGuarded) = {}
      BY <2>5 DEF IndexOf
    <3>2. twin \in IndexOf(bRows, TRUE, FALSE)
      BY <1>1, <2>1, <2>3 DEF IndexOf
    <3>3. twin \in twins
      BY <1>1, <2>1, <3>2 DEF DrawTypes
    <3>4. ASSUME NEW e \in twins PROVE e.type = OwnType(b)
      <4>1. e \in IndexOf(bRows, TRUE, FALSE) /\ e.round = k
        BY <1>1, <3>1, <3>4 DEF DrawTypes
      <4>2. PICK j \in DOMAIN bRows : e = [round |-> bRows[j].round, patch |-> bRows[j].patch,
                                           type |-> OwnType(bRows[j])]
        BY <4>1 DEF IndexOf
      <4>3. j = k
        BY <4>1, <4>2 DEF SameDraws
      <4> QED  BY <4>2, <4>3
    <3>5. OwnType(a) = None
      BY <2>1, <2>5 DEF OwnType
    <3>6. TypeOf(a, DrawTypes) = (CHOOSE e \in twins : TRUE).type
      BY <2>1, <3>3, <3>5 DEF TypeOf
    <3> HIDE DEF twins, twin
    <3> QED  BY <1>2, <3>3, <3>4, <3>6
  <2> QED  BY <2>4, <2>5
<1> QED  BY <1>3, <1>4


(* So the arms are redundant in the same rounds, and the baseline pays for *)
(* every one of them.                                                      *)
LEMMA SameRedundant ==
  ASSUME SameDraws
  PROVE  /\ Redundant(rows, DrawTypes) = Redundant(bRows, DrawTypes)
         /\ Paid(rows, DrawTypes) \subseteq Paid(bRows, DrawTypes)
         /\ Unknown(rows, DrawTypes) = Unknown(bRows, DrawTypes)
<1>1. /\ Effective(rows) = Effective(bRows) /\ Effective(rows) \subseteq DOMAIN rows
  BY SameEffective
<1>2. \A k \in Effective(rows) :
        /\ rows[k].accept = bRows[k].accept
        /\ TypeOf(rows[k], DrawTypes) = TypeOf(bRows[k], DrawTypes)
        /\ ~StoppedShort(bRows[k])
  BY <1>1, SameTypes, KindsOfCounterparts DEF SameDraws, HitsOracle
<1>3. Typed(rows, DrawTypes) = Typed(bRows, DrawTypes)
  BY <1>1, <1>2 DEF Typed
<1>4. Typed(rows, DrawTypes) \subseteq Effective(rows)
  BY DEF Typed
<1>5. Redundant(rows, DrawTypes) = Redundant(bRows, DrawTypes)
  BY <1>2, <1>3, <1>4 DEF Redundant
<1>6. Redundant(rows, DrawTypes) \subseteq Effective(rows)
  BY <1>4 DEF Redundant
<1>7. Paid(rows, DrawTypes) \subseteq Paid(bRows, DrawTypes)
  BY <1>2, <1>5, <1>6 DEF Paid, Caught
<1>8. Unknown(rows, DrawTypes) = Unknown(bRows, DrawTypes)
  BY <1>1, <1>2 DEF Unknown
<1> QED  BY <1>5, <1>7, <1>8

(* Free guarded rounds only help: the arm accepts what the baseline        *)
(* accepts, spends no more on the way and pays for no redundancy the       *)
(* baseline did not.                                                       *)
THEOREM FreeRoundsNeverHurt ==
  ASSUME Complete
  PROVE  PairSpec => []NeverWorse
<1> DEFINE I == LogsIInv /\ LeadIInv
<1>1. PairInit => I
  <2> SUFFICES ASSUME PairInit PROVE LeadIInv
    BY LogsInit
  <2>1. /\ LoopIInv /\ BaseTypes
        /\ round = bRound /\ attempts = bAttempts /\ found = bFound
        /\ status = "running" /\ attempts = 0 /\ round = 0
    BY PairInitIInv DEF PairIInv, PairInit, Init, Base!Init
  <2>2. MayDraw
    BY <2>1, BudgetWithinDraws, MaxDrawsType, LoopAssumption DEF MayDraw
  <2> QED  BY <2>1, <2>2 DEF LeadIInv, Lead
<1>2. I /\ [PairNext]_pairVars => I'
  <2> SUFFICES ASSUME I, [PairNext]_pairVars PROVE I'
    OBVIOUS
  <2>1. LogsIInv' /\ LoopIInv' /\ BaseTypes'
    BY LogsStep DEF LogsIInv
  <2> QED  BY <2>1, LeadStep
<1>3. I => NeverWorse
  <2> SUFFICES ASSUME I, Undisturbed
               PROVE  /\ bFound.round # None => found = bFound
                      /\ round = bRound => attempts <= bAttempts
                      /\ round = bRound => Paid(rows, DrawTypes) \subseteq Paid(bRows, DrawTypes)
    BY DEF NeverWorse
  <2>1. round = bRound => Paid(rows, DrawTypes) \subseteq Paid(bRows, DrawTypes)
    BY InStepIsSameDraws, SameRedundant
  <2> QED  BY <2>1 DEF LeadIInv, Lead
<1> QED  BY <1>1, <1>2, <1>3, PTL DEF PairSpec

-----------------------------------------------------------------------------
(* The counts of two summaries of the same draws.                          *)
LEMMA SameCounts ==
  ASSUME SameDraws, ~FreeGuarded
  PROVE  /\ Attempts(rows) = Attempts(bRows)
         /\ OracleCalls(rows) + CountOf(rows, "guarded") = OracleCalls(bRows)
         /\ GuardMisses(rows) \subseteq TypeRepeats(bRows)
<1>1. /\ Effective(rows) = Effective(bRows) /\ Effective(rows) \subseteq DOMAIN rows
  BY SameEffective
<1>2. \A k \in Effective(rows) :
        /\ rows[k].attempt # None /\ bRows[k].attempt # None
        /\ HitsOracle(bRows[k]) /\ bRows[k].kind # "guarded"
        /\ HitsOracle(rows[k]) <=> rows[k].kind # "guarded"
        /\ rows[k].accept = bRows[k].accept
        /\ rows[k].kind # "guarded" => OwnType(rows[k]) = OwnType(bRows[k])
  <2> TAKE k \in Effective(rows)
  <2>1. Counterparts(rows[k], bRows[k])
    BY <1>1 DEF SameDraws
  <2> QED  BY <2>1, KindsOfCounterparts DEF Counterparts, HitsOracle, OwnType
<1>3. Attempts(rows) = Attempts(bRows)
  BY <1>1, <1>2 DEF Attempts
<1>4. OracleCalls(rows) + CountOf(rows, "guarded") = OracleCalls(bRows)
  <2> DEFINE asked == {k \in Effective(rows) : HitsOracle(rows[k])}
             saved == {k \in Effective(rows) : rows[k].kind = "guarded"}
  <2>1. {k \in Effective(bRows) : HitsOracle(bRows[k])} = asked \cup saved
    BY <1>1, <1>2
  <2>2. asked \cap saved = {}
    BY <1>2
  <2>3. IsFiniteSet(asked) /\ IsFiniteSet(saved)
    <3>1. IsFiniteSet(1..Len(rows)) /\ DOMAIN rows = 1..Len(rows)
      BY FS_Interval DEF SameDraws
    <3>2. asked \subseteq 1..Len(rows) /\ saved \subseteq 1..Len(rows)
      BY <1>1, <3>1
    <3> QED  BY <3>1, <3>2, FS_Subset
  <2> HIDE DEF asked, saved
  <2>4. Cardinality(asked \cup saved) = Cardinality(asked) + Cardinality(saved)
    <3>1. Cardinality(asked \cup saved)
            = Cardinality(asked) + Cardinality(saved) - Cardinality(asked \cap saved)
      BY <2>3, FS_Union
    <3>2. Cardinality(asked \cap saved) = 0
      BY <2>2, FS_EmptySet
    <3>3. Cardinality(asked) \in Nat /\ Cardinality(saved) \in Nat
      BY <2>3, FS_CardinalityType
    <3> QED  BY <3>1, <3>2, <3>3
  <2> QED  BY <2>1, <2>4 DEF OracleCalls, CountOf, asked, saved
<1>5. /\ \A k \in Typed(rows, {}) :
           rows[k].kind # "guarded" => k \in Typed(bRows, {})
      /\ Typed(rows, {}) \subseteq Effective(rows)
  BY <1>1, <1>2 DEF Typed, TypeOf
<1>6. GuardMisses(rows) \subseteq TypeRepeats(bRows)
  BY <1>2, <1>5 DEF GuardMisses, TypeRepeats
<1> QED  BY <1>3, <1>4, <1>6

(* A pool with a case the reference answers leaves only failed proposals   *)
(* without a type.                                                         *)
LEMMA OnlyPatchlessUnknown ==
  ASSUME SameDraws, Usable # {}
  PROVE  \A k \in Unknown(rows, DrawTypes) : rows[k].patch = None
<1> SUFFICES ASSUME NEW k \in Unknown(rows, DrawTypes), rows[k].patch # None PROVE FALSE
  OBVIOUS
<1>1. /\ k \in DOMAIN rows /\ k \in Unknown(bRows, DrawTypes)
  BY SameEffective, SameRedundant DEF Unknown
<1>2. /\ Counterparts(rows[k], bRows[k]) /\ bRows[k] \in Row
      /\ ~bRows[k].accept /\ TypeOf(bRows[k], DrawTypes) = None
  BY <1>1 DEF SameDraws, Unknown
<1>3. bRows[k].patch \in Patch /\ bRows[k].case \in Case /\ ~StoppedShort(bRows[k])
  BY <1>2, KindsOfCounterparts DEF Counterparts, Row, HitsOracle
<1>4. TypeOf(bRows[k], DrawTypes) = FineType(bRows[k].patch, bRows[k].case)
  BY <1>3, OracleAssumption DEF TypeOf, OwnType
<1> QED  BY <1>2, <1>3, <1>4, ProposerAssumption DEF FineType

(* Two finished, undisturbed episodes under the standard accounting are    *)
(* summarised alike, save for the oracle calls the guard made unnecessary. *)
THEOREM RedundancyIsInvariant ==
  ASSUME Complete, Usable # {}
  PROVE  PairSpec => []SummariesAgree
<1>1. LogsIInv /\ SameOutcome => SummariesAgree
  <2> SUFFICES ASSUME LogsIInv, SameOutcome, Undisturbed, ~FreeGuarded
               PROVE  /\ ~Gap /\ Effective(rows) = Effective(bRows)
                      /\ Redundant(rows, DrawTypes) = Redundant(bRows, DrawTypes)
                      /\ \A k \in Unknown(rows, DrawTypes) : rows[k].patch = None
                      /\ Attempts(rows) = Attempts(bRows)
                      /\ OracleCalls(rows) + CountOf(rows, "guarded") = OracleCalls(bRows)
                      /\ GuardMisses(rows) \subseteq TypeRepeats(bRows)
    BY DEF SummariesAgree
  <2>1. SameDraws
    BY InStepIsSameDraws DEF SameOutcome
  <2> QED  BY <2>1, SameEffective, SameRedundant, SameCounts, OnlyPatchlessUnknown
<1> QED  BY <1>1, LogsAreAligned, GuardChangesNoOutcome, PTL

-----------------------------------------------------------------------------
(* The sweep driver.                                                       *)

(* The rows of the two logs.                                               *)
LoggedRow ==
  [patch : Patch \cup {None}, accept : BOOLEAN, attempt : Nat \cup {None}, run : Nat]

AuditRow ==
  [cell : Cell, round : Nat, patch : Patch, correct : BOOLEAN, broken : SUBSET Case]

SweepTypeOK ==
  /\ phase \in {"down", "walk", "episode", "finished"}
  /\ pos \in Nat \ {0} /\ run \in Nat
  /\ done \subseteq Cell
  /\ log \in [Cell -> Seq(LoggedRow)]
  /\ audits \in Seq(AuditRow)

(* Outside an episode the loop's state is that of a fresh one.             *)
Between == phase # "episode" => Init

(* Ahead of the driver the resume index is still exact: no complete cell   *)
(* is entered.                                                             *)
Walked ==
  phase \in {"walk", "episode"} =>
    \A c \in Cell : IsDone(log[c]) /\ (c > pos \/ (c = pos /\ phase = "walk")) => c \in done

(* The rows of the running episode are the first rows of its cell.  What   *)
(* an older run left beyond them cannot complete the cell: when it does    *)
(* become complete, the analysis reads no further than this episode wrote. *)
EpisodeLogged ==
  phase = "episode" =>
    /\ pos \in Cell
    /\ Len(rows) <= Len(log[pos])
    /\ \A k \in DOMAIN rows : log[pos][k] = Logged(rows[k])
    /\ IsDone(log[pos]) => LastRound(log[pos]) <= Len(rows)
    /\ IsDone(log[pos]) /\ status = "running" => Len(log[pos]) = Len(rows)

SweepIInv ==
  /\ RecordIInv /\ SweepTypeOK
  /\ Between /\ Walked /\ EpisodeLogged
  /\ OneEpisodePerCell

-----------------------------------------------------------------------------
(* The first accepted round of a log exists and is unique.                 *)
LEMMA FirstAcceptedIs ==
  ASSUME NEW L \in Seq(LoggedRow), Accepted(L)
  PROVE  /\ FirstAccepted(L) \in DOMAIN L /\ L[FirstAccepted(L)].accept
         /\ \A j \in 1..FirstAccepted(L) - 1 : ~L[j].accept
<1> DEFINE S == {k \in DOMAIN L : L[k].accept}
<1>1. S # {} /\ S \subseteq Nat
  BY DEF Accepted
<1>2. PICK k \in S : \A j \in S : k <= j
  BY <1>1, LeastNatural
<1>3. \A j \in 1..k - 1 : ~L[j].accept
  BY <1>2
<1> QED  BY <1>2, <1>3 DEF FirstAccepted

LEMMA FirstAcceptedOnly ==
  ASSUME NEW L \in Seq(LoggedRow), NEW k \in DOMAIN L,
         L[k].accept, \A j \in 1..k - 1 : ~L[j].accept
  PROVE  Accepted(L) /\ FirstAccepted(L) = k
<1>1. Accepted(L)
  BY DEF Accepted
<1>2. FirstAccepted(L) \in Nat /\ k \in Nat
  BY <1>1, FirstAcceptedIs
<1>3. ~(FirstAccepted(L) < k) /\ ~(k < FirstAccepted(L))
  BY <1>1, <1>2, FirstAcceptedIs
<1> QED  BY <1>1, <1>2, <1>3

LEMMA LastRoundBound ==
  ASSUME NEW L \in Seq(LoggedRow)
  PROVE  LastRound(L) \in Nat /\ LastRound(L) <= Len(L)
BY FirstAcceptedIs DEF LastRound

-----------------------------------------------------------------------------
(* Writing the next row of an episode over what an older run left.         *)
LEMMA LoggedType == \A row \in Row : run \in Nat => Logged(row) \in LoggedRow
  BY DEF Logged, LoggedRow, Row

LEMMA CollapsedShape ==
  ASSUME NEW L \in Seq(LoggedRow), NEW row \in Row, run \in Nat,
         NEW n \in Nat \ {0}, n <= Len(L) + 1, row.round = n
  PROVE  /\ Collapsed(L, row) \in Seq(LoggedRow)
         /\ Collapsed(L, row)[n] = Logged(row)
         /\ \A k \in DOMAIN L : k # n => Collapsed(L, row)[k] = L[k]
         /\ Len(Collapsed(L, row)) = IF n <= Len(L) THEN Len(L) ELSE n
<1>1. Logged(row) \in LoggedRow
  BY LoggedType
<1>2. CASE n <= Len(L)
  <2>1. n \in DOMAIN L
    BY <1>2
  <2>2. Collapsed(L, row) = [L EXCEPT ![n] = Logged(row)]
    BY <2>1 DEF Collapsed
  <2> QED  BY <1>1, <1>2, <2>1, <2>2
<1>3. CASE ~(n <= Len(L))
  <2>1. n \notin DOMAIN L /\ n = Len(L) + 1
    BY <1>3
  <2>2. Collapsed(L, row) = Append(L, Logged(row))
    BY <2>1 DEF Collapsed
  <2> QED  BY <1>1, <1>3, <2>1, <2>2
<1> QED  BY <1>2, <1>3

-----------------------------------------------------------------------------
(* The driver's steps: a round of the loop, logged, or one between rounds. *)
EpisodeRound ==
  /\ phase = "episode" /\ Next /\ LogRow
  /\ UNCHANGED <<phase, pos, done, audits, run>>

LEMMA RoundSamples ==
  ASSUME SweepIInv, phase = "episode", MayDraw
  PROVE  SampleAt[pos][round + 1] \in Samples
<1>1. round \in Nat /\ round + 1 \in 1..MaxDraws
  BY MaxDrawsType DEF MayDraw, SweepIInv, RecordIInv, LoopIInv, TypeOK, LoopTypeOK
<1>2. pos \in 1..Cells
  BY DEF SweepIInv, EpisodeLogged, Cell
<1> QED  BY <1>1, <1>2, SweepAssumption

LEMMA ReceiveIsARound ==
  ASSUME SweepIInv, NEW p \in Patch \cup {None}, Receive(p)
  PROVE  EpisodeRound
<1>1. CASE p = None
  BY <1>1 DEF Receive, EpisodeRound, Next
<1>2. CASE p # None
  <2> DEFINE S == SampleAt[pos][round + 1]
  <2>1. p \in Patch /\ PatchRound(p, S)
    BY <1>2 DEF Receive
  <2>2. MayDraw
    BY <2>1 DEF PatchRound, GuardedRound, SelfTestBlocked, OracleSkipped, OracleError,
                Refute, Accept, Draw
  <2>3. S \in Samples
    BY <2>2, RoundSamples DEF Receive
  <2> QED  BY <2>1, <2>3 DEF Receive, EpisodeRound, Next
<1> QED  BY <1>1, <1>2

LEMMA OtherRounds ==
  ASSUME SweepIInv, Unavailable \/ BudgetSpent
  PROVE  EpisodeRound
<1>1. CASE Unavailable
  BY <1>1 DEF Unavailable, EpisodeRound, Next
<1>2. CASE BudgetSpent
  <2>1. UNCHANGED rows
    BY <1>2 DEF BudgetSpent, Exhausted
  <2> QED  BY <1>2, <2>1 DEF BudgetSpent, EpisodeRound, Next, LogRow
<1> QED  BY <1>1, <1>2

LEMMA FreshIsInit == FreshEpisode => Init'
  BY DEF FreshEpisode, Init, MemInit

LEMMA FreshRecord == Init' => RecordIInv'
  BY RecordInit, PTL

-----------------------------------------------------------------------------
(* One logged round of the running episode.                                *)
LEMMA ToldRow ==
  ASSUME SweepIInv, phase = "episode", LogRow, NEW row \in Row, Told(row),
         NEW n \in Nat, n = Len(rows) + 1
  PROVE  /\ status = "running" /\ row.round = n /\ n > 0
         /\ DOMAIN rows = 1..n - 1
         /\ DOMAIN rows' = 1..n /\ Len(rows') = n
         /\ \A k \in DOMAIN rows : rows'[k] = rows[k]
         /\ rows'[n] = row
         /\ log' = [log EXCEPT ![pos] = Collapsed(log[pos], row)]
<1>1. rows \in Seq(Row) /\ round \in Nat
  BY DEF SweepIInv, RecordIInv, LoopIInv, TypeOK, LoopTypeOK
<1>2. status = "running" /\ row.round = n
  BY <1>1 DEF Told, Draw, MayDraw, SweepIInv, RecordIInv, EveryRoundHasItsRow
<1>3. /\ rows' \in Seq(Row) /\ DOMAIN rows' = DOMAIN rows \cup {n}
      /\ \A k \in DOMAIN rows : rows'[k] = rows[k]
      /\ rows'[n] = row
  BY <1>1, AppendRow DEF Told
<1>4. Len(rows') = n /\ DOMAIN rows = 1..n - 1 /\ DOMAIN rows' = 1..n /\ n > 0
  BY <1>1, <1>3
<1>5. log' = [log EXCEPT ![pos] = Collapsed(log[pos], row)]
  <2>1. rows' # rows
    BY <1>4
  <2> QED  BY <1>3, <1>4, <2>1 DEF LogRow
<1> QED  BY <1>2, <1>3, <1>4, <1>5

(* After the row is logged the cell is complete only through this episode: *)
(* either the row is its last, or the row is its first accepted one and    *)
(* ends the episode.                                                       *)
LEMMA LoggedStep ==
  ASSUME SweepIInv, EpisodeRound, NEW row \in Row, Told(row)
  PROVE  /\ log' \in [Cell -> Seq(LoggedRow)]
         /\ \A c \in Cell : c # pos => log'[c] = log[c]
         /\ EpisodeLogged'
<1> PICK n \in Nat : n = Len(rows) + 1
  BY DEF SweepIInv, RecordIInv, LoopIInv, TypeOK, LoopTypeOK
<1> DEFINE L == log[pos]
           M == Collapsed(L, row)
<1>1. /\ status = "running" /\ row.round = n /\ n > 0
      /\ DOMAIN rows = 1..n - 1
      /\ DOMAIN rows' = 1..n /\ Len(rows') = n
      /\ \A k \in DOMAIN rows : rows'[k] = rows[k]
      /\ rows'[n] = row
      /\ log' = [log EXCEPT ![pos] = M]
  BY ToldRow DEF EpisodeRound
<1>2. /\ pos \in Cell /\ log \in [Cell -> Seq(LoggedRow)] /\ L \in Seq(LoggedRow)
      /\ run \in Nat /\ run' = run /\ pos' = pos
      /\ n - 1 <= Len(L)
      /\ \A k \in DOMAIN rows : L[k] = Logged(rows[k])
      /\ IsDone(L) => Len(L) = n - 1
  BY <1>1 DEF SweepIInv, SweepTypeOK, EpisodeLogged, EpisodeRound
<1>3. /\ M \in Seq(LoggedRow)
      /\ M[n] = Logged(row)
      /\ \A k \in DOMAIN L : k # n => M[k] = L[k]
      /\ Len(M) = IF n <= Len(L) THEN Len(L) ELSE n
  <2> HIDE DEF M
  <2>1. n \in Nat \ {0} /\ n <= Len(L) + 1 /\ row.round = n /\ run \in Nat
    BY <1>1, <1>2
  <2> HIDE DEF L
  <2> QED  BY <1>2, <2>1, CollapsedShape DEF M
<1>4. log' \in [Cell -> Seq(LoggedRow)] /\ log'[pos] = M
      /\ \A c \in Cell : c # pos => log'[c] = log[c]
  BY <1>1, <1>2, <1>3
<1> HIDE DEF M
<1>5. n <= Len(M) /\ \A k \in 1..n : M[k] = Logged(rows'[k])
  <2> HIDE DEF L
  <2>1. n <= Len(M)
    BY <1>2, <1>3
  <2>2. \A k \in 1..n - 1 : k \in DOMAIN L /\ k # n /\ rows'[k] = rows[k]
    BY <1>1, <1>2
  <2>3. \A k \in 1..n - 1 : M[k] = Logged(rows'[k])
    BY <1>1, <1>2, <1>3, <2>2
  <2>4. M[n] = Logged(rows'[n])
    BY <1>1, <1>3
  <2>5. \A k \in 1..n : k = n \/ k \in 1..n - 1
    OBVIOUS
  <2> QED  BY <2>1, <2>3, <2>4, <2>5
<1>6. IsDone(M) => LastRound(M) <= n /\ (status' = "running" => Len(M) = n)
  <2>1. CASE Len(M) = n
    BY <1>3, <2>1, LastRoundBound
  <2>2. CASE Len(M) # n
    <3>1. n <= Len(L) /\ Len(M) = Len(L) /\ ~IsDone(L)
      BY <1>2, <1>3, <2>2
    <3>2. SUFFICES ASSUME IsDone(M) PROVE LastRound(M) = n /\ status' # "running"
      OBVIOUS
    <3>3. Accepted(M) /\ ~ForceFull /\ ~Accepted(L)
      BY <3>1, <3>2 DEF IsDone
    <3>4. DOMAIN M = DOMAIN L /\ n \in DOMAIN M
      BY <1>1, <1>2, <1>3, <3>1
    <3>5. \A k \in DOMAIN M : k # n => ~M[k].accept
      BY <1>3, <3>3, <3>4 DEF Accepted
    <3>6. M[n].accept
      BY <3>3, <3>5 DEF Accepted
    <3>7. \A k \in 1..n - 1 : ~M[k].accept
      BY <1>2, <3>1, <3>4, <3>5
    <3>8. LastRound(M) = n
      BY <1>3, <3>3, <3>4, <3>6, <3>7, FirstAcceptedOnly DEF LastRound
    <3>9. row.accept
      BY <1>3, <3>6 DEF Logged
    <3> QED  BY <3>3, <3>8, <3>9 DEF Told, NoVerdict, Judged
  <2> QED  BY <2>1, <2>2
<1>7. \A k \in 1..n : M[k] = Logged(rows[k])'
  BY <1>2, <1>5 DEF Logged
<1>8. EpisodeLogged'
  BY <1>1, <1>2, <1>4, <1>5, <1>6, <1>7 DEF EpisodeLogged
<1> QED  BY <1>4, <1>8

LEMMA EpisodeStep ==
  ASSUME SweepIInv, EpisodeRound
  PROVE  SweepIInv'
<1>1. RecordIInv'
  BY RecordStep DEF SweepIInv, EpisodeRound
<1>2. /\ log' \in [Cell -> Seq(LoggedRow)]
      /\ \A c \in Cell : c # pos => log'[c] = log[c]
      /\ EpisodeLogged'
  <2>1. \/ status' # "running" /\ UNCHANGED <<memVars, rows, found>>
        \/ \E row \in Row : Told(row)
    BY RoundShape DEF SweepIInv, RecordIInv, EpisodeRound
  <2>2. CASE status' # "running" /\ UNCHANGED <<memVars, rows, found>>
    <3>1. log' = log /\ rows' = rows /\ run' = run /\ pos' = pos /\ phase' = phase
      BY <2>2 DEF EpisodeRound, LogRow
    <3>2. \A k \in DOMAIN rows : Logged(rows[k])' = Logged(rows[k])
      BY <3>1 DEF Logged
    <3>3. EpisodeLogged'
      BY <2>2, <3>1, <3>2 DEF EpisodeLogged, SweepIInv, Cell
    <3> QED  BY <3>1, <3>3 DEF SweepIInv, SweepTypeOK
  <2> QED  BY <2>1, <2>2, LoggedStep
<1>3. /\ phase = "episode" /\ phase' = "episode" /\ pos' = pos /\ done' = done
      /\ audits' = audits /\ run' = run
  BY DEF EpisodeRound
<1>4. SweepTypeOK' /\ Between'
  BY <1>2, <1>3 DEF SweepIInv, SweepTypeOK, Between, AuditRow, LoggedRow, Cell
<1>5. Walked'
  <2>1. \A c \in Cell : c > pos => c # pos
    BY DEF SweepIInv, SweepTypeOK, Cell
  <2> QED  BY <1>2, <1>3, <2>1 DEF SweepIInv, Walked, Cell
<1>6. OneEpisodePerCell'
  <2>1. SUFFICES ASSUME NEW c \in Cell, IsDone(log'[c]),
                        NEW j \in 1..LastRound(log'[c]), NEW k \in 1..LastRound(log'[c])
                 PROVE  log'[c][j].run = log'[c][k].run
    BY DEF OneEpisodePerCell, Completed, Cell
  <2>2. CASE c # pos
    <3>1. log'[c] = log[c]
      BY <1>2, <2>2
    <3> QED  BY <2>1, <3>1 DEF SweepIInv, OneEpisodePerCell, Completed
  <2>3. CASE c = pos
    <3>1. LastRound(log'[pos]) <= Len(rows') /\ rows' \in Seq(Row)
      BY <1>1, <1>2, <1>3, <2>1, <2>3 DEF EpisodeLogged, RecordIInv, LoopIInv, TypeOK, LoopTypeOK
    <3>2. j \in DOMAIN rows' /\ k \in DOMAIN rows'
      <4>1. LastRound(log'[pos]) \in Nat
        BY <1>2, <2>3, LastRoundBound
      <4> QED  BY <2>3, <3>1, <4>1
    <3>3. log'[pos][j] = Logged(rows[j])' /\ log'[pos][k] = Logged(rows[k])'
      BY <1>2, <1>3, <3>2 DEF EpisodeLogged
    <3> QED  BY <2>3, <3>3 DEF Logged
  <2> QED  BY <2>2, <2>3
<1> QED  BY <1>1, <1>2, <1>4, <1>5, <1>6 DEF SweepIInv

-----------------------------------------------------------------------------
(* The steps between two rounds write no row of the round log.             *)
LEMMA SameLog ==
  ASSUME SweepIInv, log' = log
  PROVE  OneEpisodePerCell' /\ Completed' = Completed
  BY DEF SweepIInv, OneEpisodePerCell, Completed, Cell

LEMMA StartStep == SweepIInv /\ Start => SweepIInv'
<1> SUFFICES ASSUME SweepIInv, Start PROVE SweepIInv'
  OBVIOUS
<1>1. /\ phase' = "walk" /\ pos' = 1 /\ done' = Completed /\ run' = run + 1
      /\ UNCHANGED <<vars, log, audits>> /\ phase # "episode"
  BY DEF Start
<1>2. RecordIInv'
  BY <1>1, RecordStep DEF SweepIInv
<1>3. Init'
  BY <1>1 DEF SweepIInv, Between, Init, MemInit, vars, memVars, loopVars
<1>4. SweepTypeOK'
  BY <1>1 DEF SweepIInv, SweepTypeOK, Completed
<1>5. Walked'
  BY <1>1 DEF Walked, Completed, Cell
<1>6. Between' /\ EpisodeLogged'
  BY <1>1, <1>3 DEF Between, EpisodeLogged
<1> QED  BY <1>1, <1>2, <1>4, <1>5, <1>6, SameLog DEF SweepIInv

LEMMA SkipStep == SweepIInv /\ (Skip \/ Finish) => SweepIInv'
<1> SUFFICES ASSUME SweepIInv, Skip \/ Finish PROVE SweepIInv'
  OBVIOUS
<1>1. /\ phase = "walk" /\ UNCHANGED <<vars, log, audits, done, run>>
      /\ \/ phase' = "walk" /\ pos' = pos + 1 /\ pos \in done
         \/ phase' = "finished" /\ pos' = pos
  BY DEF Skip, Finish
<1>2. RecordIInv'
  BY <1>1, RecordStep DEF SweepIInv
<1>3. Init'
  BY <1>1 DEF SweepIInv, Between, Init, MemInit, vars, memVars, loopVars
<1>4. SweepTypeOK'
  BY <1>1 DEF SweepIInv, SweepTypeOK
<1>5. Walked'
  <2>1. pos \in Nat /\ Cell \subseteq Nat
    BY DEF SweepIInv, SweepTypeOK, Cell
  <2> QED  BY <1>1, <2>1 DEF SweepIInv, Walked, Cell
<1>6. Between' /\ EpisodeLogged'
  BY <1>1, <1>3 DEF Between, EpisodeLogged
<1> QED  BY <1>1, <1>2, <1>4, <1>5, <1>6, SameLog DEF SweepIInv

LEMMA BeginStep == SweepIInv /\ Begin => SweepIInv'
<1> SUFFICES ASSUME SweepIInv, Begin PROVE SweepIInv'
  OBVIOUS
<1>1. /\ phase = "walk" /\ phase' = "episode" /\ pos \in Cell \ done
      /\ UNCHANGED <<pos, log, audits, done, run>>
  BY DEF Begin
<1>2. Init /\ UNCHANGED vars
  BY <1>1 DEF Begin, FirstRound, SweepIInv, Between, Init, vars, loopVars
<1>3. RecordIInv'
  BY <1>2, RecordStep DEF SweepIInv
<1>4. SweepTypeOK' /\ Between'
  BY <1>1 DEF SweepIInv, SweepTypeOK, Between, Cell, LoggedRow, AuditRow
<1>5. Walked'
  BY <1>1 DEF SweepIInv, Walked, Cell
<1>6. ~IsDone(log[pos])
  BY <1>1 DEF SweepIInv, Walked
<1>7. rows' = <<>> /\ Len(log[pos]) \in Nat
  BY <1>1, <1>2 DEF Init, vars, loopVars, SweepIInv, SweepTypeOK
<1>8. EpisodeLogged'
  BY <1>1, <1>6, <1>7 DEF EpisodeLogged, Cell
<1> QED  BY <1>1, <1>3, <1>4, <1>5, <1>8, SameLog DEF SweepIInv

-----------------------------------------------------------------------------
(* What an audit says of an accepted patch: --check-overfit alone judges   *)
(* the whole pool, and so does the regression pass when it is uncapped.    *)
AuditOf(p) ==
  [cell |-> pos, round |-> found.round, patch |-> p, correct |-> Verdict(p),
   broken |-> IF CheckRegression THEN Report(p).broken ELSE {}]

LEMMA AuditVerdict ==
  ASSUME NEW p \in Patch, Usable # {}
  PROVE  /\ Verdict(p) \in BOOLEAN /\ Report(p).broken \subseteq Case
         /\ CheckOverfit => /\ Verdict(p) <=> Fails[p] = {}
                            /\ Verdict(p) => Report(p).broken = {}
<1>1. Fails[p] \subseteq Usable /\ Usable \subseteq Case
  BY OracleAssumption
<1>2. TrulyCorrect(p) <=> Fails[p] = {}
  BY <1>1 DEF TrulyCorrect, Accepts, Inconclusive
<1>3. Report(p).broken = P2P \cap Fails[p]
  BY DEF Report
<1>4. Report(p).correct = (Scoreable # {} /\ Scoreable \cap Fails[p] = {})
  BY DEF Report
<1>5. AuditCap = None => (Report(p).correct <=> Fails[p] = {})
  <2>1. AuditCap = None => Scoreable = Usable
    BY <1>1 DEF Scoreable
  <2> QED  BY <1>1, <1>4, <2>1
<1>6. Fails[p] = {} => Report(p).broken = {}
  BY <1>3
<1>7. Verdict(p) \in BOOLEAN
  BY <1>4 DEF Verdict, TrulyCorrect, Accepts
<1>8. CheckOverfit => (Verdict(p) <=> Fails[p] = {})
  BY <1>2, <1>5 DEF Verdict
<1> QED  BY <1>1, <1>3, <1>6, <1>7, <1>8

LEMMA AuditShape ==
  ASSUME SweepIInv, phase = "episode"
  PROVE  \/ Audited = audits
         \/ /\ AcceptRows # {} /\ found.patch \in Patch /\ found.round \in Nat
            /\ AuditOf(found.patch) \in AuditRow
            /\ Audited = Append(audits, AuditOf(found.patch))
<1>1. CASE found.patch = None
  BY <1>1 DEF Audited
<1>2. CASE found.patch # None
  <2>1. AcceptRows # {} /\ found.round \in AcceptRows
    BY <1>2 DEF SweepIInv, RecordIInv, FirstAcceptReported
  <2>2. found.round \in Nat
    BY <2>1 DEF AcceptRows, SweepIInv, RecordIInv, LoopIInv, TypeOK, LoopTypeOK
  <2>3. found.patch \in Patch
    BY <1>2 DEF SweepIInv, RecordIInv, LoopIInv, TypeOK, LoopTypeOK
  <2>4. Verdict(found.patch) \in BOOLEAN /\ Report(found.patch).broken \subseteq Case
    BY <2>1, <2>3, AuditVerdict DEF SweepIInv, RecordIInv, EveryRoundHasItsRow
  <2>5. pos \in Cell
    BY DEF SweepIInv, EpisodeLogged
  <2>6. AuditOf(found.patch) \in AuditRow
    BY <2>2, <2>3, <2>4, <2>5 DEF AuditOf, AuditRow
  <2> QED  BY <2>1, <2>2, <2>3, <2>6 DEF Audited, AuditOf
<1> QED  BY <1>1, <1>2

LEMMA CellEndsStep == SweepIInv /\ CellEnds => SweepIInv'
<1> SUFFICES ASSUME SweepIInv, CellEnds PROVE SweepIInv'
  OBVIOUS
<1>1. /\ phase = "episode" /\ phase' = "walk" /\ pos' = pos + 1 /\ audits' = Audited
      /\ UNCHANGED <<log, done, run>>
  BY DEF CellEnds
<1>2. Init' /\ RecordIInv'
  BY FreshIsInit, FreshRecord DEF CellEnds
<1>3. audits' \in Seq(AuditRow)
  BY <1>1, AuditShape DEF SweepIInv, SweepTypeOK
<1>4. SweepTypeOK'
  BY <1>1, <1>3 DEF SweepIInv, SweepTypeOK
<1>5. Walked'
  <2>1. pos \in Nat /\ Cell \subseteq Nat
    BY DEF SweepIInv, SweepTypeOK, Cell
  <2> QED  BY <1>1, <2>1 DEF SweepIInv, Walked
<1>6. Between' /\ EpisodeLogged'
  BY <1>1, <1>2 DEF Between, EpisodeLogged
<1> QED  BY <1>1, <1>2, <1>4, <1>5, <1>6, SameLog DEF SweepIInv

LEMMA StopStep == SweepIInv /\ (StopCleanly \/ Kill) => SweepIInv'
<1> SUFFICES ASSUME SweepIInv, StopCleanly \/ Kill PROVE SweepIInv'
  OBVIOUS
<1>1. phase' = "down" /\ UNCHANGED <<pos, log, done, run, audits>>
  BY DEF StopCleanly, Kill
<1>2. Init' /\ RecordIInv'
  BY FreshIsInit, FreshRecord DEF StopCleanly, Kill
<1>3. SweepTypeOK'
  BY <1>1 DEF SweepIInv, SweepTypeOK
<1>4. Walked' /\ Between' /\ EpisodeLogged'
  BY <1>1, <1>2 DEF Walked, Between, EpisodeLogged
<1> QED  BY <1>1, <1>2, <1>3, <1>4, SameLog DEF SweepIInv

-----------------------------------------------------------------------------
LEMMA SweepInitIInv == SweepInit => SweepIInv
<1> SUFFICES ASSUME SweepInit PROVE SweepIInv
  OBVIOUS
<1>1. RecordIInv
  BY RecordInit DEF SweepInit
<1>2. SweepTypeOK
  BY SweepAssumption DEF SweepInit, SweepTypeOK
<1>3. \A c \in Cell : ~IsDone(log[c])
  BY LoopAssumption DEF SweepInit, IsDone, Accepted
<1>4. OneEpisodePerCell
  BY <1>3 DEF OneEpisodePerCell, Completed
<1> QED  BY <1>1, <1>2, <1>4 DEF SweepInit, SweepIInv, Between, Walked, EpisodeLogged

LEMMA DriverShape ==
  SweepIInv /\ SweepNext =>
    EpisodeRound \/ Start \/ Skip \/ Begin \/ CellEnds \/ StopCleanly \/ Finish \/ Kill
  BY ReceiveIsARound, OtherRounds DEF SweepNext, DriverStep

LEMMA SweepStutter == SweepIInv /\ UNCHANGED sweepVars => SweepIInv'
<1> SUFFICES ASSUME SweepIInv, UNCHANGED sweepVars PROVE SweepIInv'
  OBVIOUS
<1>1. RecordIInv'
  BY RecordStep DEF SweepIInv, sweepVars
<1>2. SweepTypeOK' /\ Walked'
  BY DEF SweepIInv, SweepTypeOK, Walked, sweepVars
<1>3. Between'
  BY DEF SweepIInv, Between, Init, MemInit, sweepVars, vars, memVars, loopVars
<1>4. EpisodeLogged'
  BY DEF SweepIInv, EpisodeLogged, Logged, sweepVars, vars, loopVars
<1>5. OneEpisodePerCell'
  BY SameLog DEF sweepVars
<1> QED  BY <1>1, <1>2, <1>3, <1>4, <1>5 DEF SweepIInv

LEMMA SweepStep == SweepIInv /\ [SweepNext]_sweepVars => SweepIInv'
  BY DriverShape, EpisodeStep, StartStep, SkipStep, BeginStep, CellEndsStep, StopStep,
     SweepStutter

LEMMA SweepInvariant == SweepSpec => []SweepIInv
  BY SweepInitIInv, SweepStep, PTL DEF SweepSpec

(* However many runs died before it, the rows the analysis reads of a      *)
(* complete cell were written by one run.                                  *)
THEOREM CompleteCellIsOneEpisode == SweepSpec => []OneEpisodePerCell
<1>1. SweepIInv => OneEpisodePerCell
  BY DEF SweepIInv
<1> QED  BY <1>1, SweepInvariant, PTL

-----------------------------------------------------------------------------
(* A cell that is complete while its episode runs holds exactly the rows   *)
(* of that episode, and its budget is not exhausted by charged draws.      *)
LEMMA RunningOnComplete ==
  ASSUME SweepIInv, EpisodeRound, IsDone(log[pos]), NEW row \in Row, Told(row)
  PROVE  FreeGuarded /\ \A k \in DOMAIN log[pos] : log[pos][k].run = run
<1>1. status = "running" /\ round < MaxDraws
  BY DEF Told, Draw, MayDraw
<1>2. /\ log[pos] \in Seq(LoggedRow) /\ rows \in Seq(Row)
      /\ Len(log[pos]) = Len(rows) /\ Len(rows) = round
      /\ \A k \in DOMAIN rows : log[pos][k] = Logged(rows[k])
  BY <1>1 DEF EpisodeRound, SweepIInv, SweepTypeOK, EpisodeLogged, RecordIInv, LoopIInv,
              TypeOK, LoopTypeOK, EveryRoundHasItsRow
<1>3. \A k \in DOMAIN log[pos] : k \in DOMAIN rows /\ log[pos][k] = Logged(rows[k])
  <2>1. DOMAIN log[pos] = DOMAIN rows
    BY <1>2
  <2> QED  BY <1>2, <2>1
<1>4. \A k \in DOMAIN log[pos] : log[pos][k].run = run /\ log[pos][k].accept = rows[k].accept
  <2>1. SUFFICES ASSUME NEW k \in DOMAIN log[pos]
                 PROVE  log[pos][k].run = run /\ log[pos][k].accept = rows[k].accept
    OBVIOUS
  <2>2. log[pos][k] = Logged(rows[k])
    BY <1>3
  <2> QED  BY <2>2 DEF Logged
<1>5. ~(Accepted(log[pos]) /\ ~ForceFull)
  <2>1. Accepted(log[pos]) => AcceptRows # {}
    BY <1>3, <1>4 DEF Accepted, AcceptRows
  <2> QED  BY <1>1, <2>1 DEF SweepIInv, RecordIInv, FirstAcceptReported
<1>6. round >= Budget
  BY <1>2, <1>5 DEF IsDone
<1>7. FreeGuarded
  <2>1. Budget \in Nat /\ round \in Nat
    BY <1>2, LoopAssumption
  <2> QED  BY <1>1, <1>6, <2>1 DEF MaxDraws
<1> QED  BY <1>4, <1>7

LEMMA RoundKeepsComplete ==
  ASSUME SweepIInv, EpisodeRound, NEW c \in Cell, IsDone(log[c])
  PROVE  \/ log'[c] = log[c]
         \/ FreeGuarded /\ \A k \in DOMAIN log[c] : log[c][k].run = run
<1>1. \/ UNCHANGED rows
      \/ \E row \in Row : Told(row)
  BY RoundShape DEF SweepIInv, RecordIInv, EpisodeRound
<1>2. CASE UNCHANGED rows
  BY <1>2 DEF EpisodeRound, LogRow
<1>3. ASSUME NEW row \in Row, Told(row)
      PROVE  \/ log'[c] = log[c]
             \/ FreeGuarded /\ \A k \in DOMAIN log[c] : log[c][k].run = run
  BY <1>3, LoggedStep, RunningOnComplete
<1> QED  BY <1>1, <1>2, <1>3

(* No later run writes to a complete cell; a running episode goes on       *)
(* writing to one only where guarded rounds are free.                      *)
THEOREM CompleteCellIsFinal == SweepSpec => CompleteIsFinal
<1>1. SweepIInv /\ [SweepNext]_sweepVars =>
        [\A c \in Cell : IsDone(log[c]) =>
           \/ log'[c] = log[c]
           \/ FreeGuarded /\ \A k \in DOMAIN log[c] : log[c][k].run = run]_sweepVars
  <2>1. Start \/ Skip \/ Begin \/ CellEnds \/ StopCleanly \/ Finish \/ Kill => log' = log
    BY DEF Start, Skip, Begin, CellEnds, StopCleanly, Finish, Kill
  <2> QED  BY <2>1, DriverShape, RoundKeepsComplete
<1> QED  BY <1>1, SweepInvariant, PTL DEF SweepSpec, CompleteIsFinal

-----------------------------------------------------------------------------
(* An episode that returns with the full budget forced leaves a complete   *)
(* cell, in the arms that charge a round once.                             *)
FullBudget ==
  /\ WithinBudget /\ attempts <= round
  /\ status = "returned" /\ ForceFull => Len(rows) >= Budget

LEMMA BudgetIsDrawn == MaxDraws >= Budget
<1>1. \A b, d \in Nat \ {0} : b * d >= b
  OBVIOUS
<1> QED  BY <1>1, LoopAssumption DEF MaxDraws

LEMMA FullBudgetInit == Init => FullBudget
  BY LoopInit, MaxDrawsType, LoopAssumption
  DEF Init, FullBudget, WithinBudget

LEMMA FullBudgetStep ==
  ASSUME Unscreened, RecordIInv, FullBudget, [Next]_vars
  PROVE  FullBudget'
<1>1. /\ attempts \in Nat /\ round \in Nat /\ rows \in Seq(Row) /\ attempts <= round
      /\ SearchIInv
  BY DEF RecordIInv, LoopIInv, TypeOK, LoopTypeOK, SearchIInv, FullBudget
<1>2. CASE UNCHANGED vars
  BY <1>2 DEF FullBudget, WithinBudget, vars, loopVars, MaxDraws
<1>3. CASE Next
  <2>1. WithinBudget' /\ (Abstract!DrawOne \/ Abstract!FailDraw \/ Abstract!Close)
    BY <1>1, <1>3, SearchStep
  <2>2. attempts' <= round'
    BY <1>1, <2>1 DEF Abstract!DrawOne, Abstract!FailDraw, Abstract!Close, Abstract!Costs
  <2>3. CASE Exhausted
    <3>1. /\ status = "running" /\ ~(attempts < Budget /\ round < MaxDraws)
          /\ UNCHANGED <<round, attempts, rows>>
      BY <2>3 DEF Exhausted, MayDraw
    <3>2. Len(rows) = round
      BY <3>1 DEF RecordIInv, EveryRoundHasItsRow
    <3>3. round >= Budget
      BY <1>1, <3>1, BudgetIsDrawn, MaxDrawsType, LoopAssumption
    <3> QED  BY <2>1, <2>2, <3>1, <3>2, <3>3 DEF FullBudget
  <2>4. CASE ~Exhausted
    <3>1. ForceFull => status' # "returned"
      BY <1>3, <2>4 DEF Next, ProposalUnusable, BackendUnreachable, CapReached, PatchRound,
         GuardedRound, SelfTestBlocked, OracleSkipped, OracleError, Refute, Accept, Draw, MayDraw
    <3> QED  BY <2>1, <2>2, <3>1 DEF FullBudget
  <2> QED  BY <2>3, <2>4
<1> QED  BY <1>2, <1>3

LEMMA FreshFullBudget == Init' => FullBudget'
  BY FullBudgetInit, PTL

-----------------------------------------------------------------------------
(* The overfit log.  A cell whose patch was audited is complete, so its    *)
(* episode does not run again and its rows stay.                           *)
AuditFits(a, logged) ==
  /\ Accepted(logged) /\ a.round = FirstAccepted(logged)
  /\ a.patch = logged[a.round].patch
  /\ CheckOverfit => (a.correct <=> Fails[a.patch] = {})
  /\ a.correct /\ CheckOverfit => a.broken = {}

AuditedOnce ==
  \A i, j \in DOMAIN audits : audits[i].cell = audits[j].cell => i = j

AuditsFit ==
  \A i \in DOMAIN audits :
    AuditFits(audits[i], log[audits[i].cell]) /\ IsDone(log[audits[i].cell])

NotAuditedYet == phase = "episode" => \A i \in DOMAIN audits : audits[i].cell # pos

AuditIInv ==
  /\ SweepIInv
  /\ AuditedOnce /\ AuditsFit /\ NotAuditedYet
  /\ Unscreened => FullBudget

LEMMA AuditCells == SweepIInv => \A i \in DOMAIN audits : audits[i].cell \in Cell
<1> SUFFICES ASSUME SweepIInv, NEW i \in DOMAIN audits PROVE audits[i].cell \in Cell
  OBVIOUS
<1>1. audits[i] \in AuditRow
  BY DEF SweepIInv, SweepTypeOK
<1> QED  BY <1>1 DEF AuditRow

LEMMA AuditRound ==
  ASSUME AuditIInv, EpisodeRound
  PROVE  AuditIInv'
<1>1. SweepIInv'
  BY EpisodeStep DEF AuditIInv
<1>2. \A i \in DOMAIN audits : log'[audits[i].cell] = log[audits[i].cell]
  <2>1. \A c \in Cell : c # pos => log'[c] = log[c]
    BY DEF AuditIInv, SweepIInv, SweepTypeOK, EpisodeRound, LogRow
  <2> QED  BY <2>1, AuditCells DEF AuditIInv, NotAuditedYet, EpisodeRound
<1>3. audits' = audits /\ phase' = phase /\ pos' = pos /\ Next
  BY DEF EpisodeRound
<1>4. AuditedOnce' /\ AuditsFit' /\ NotAuditedYet'
  BY <1>2, <1>3 DEF AuditIInv, AuditedOnce, AuditsFit, NotAuditedYet
<1>5. Unscreened => FullBudget'
  BY <1>3, FullBudgetStep DEF AuditIInv, SweepIInv
<1> QED  BY <1>1, <1>4, <1>5 DEF AuditIInv, Unscreened

LEMMA AuditBegin ==
  ASSUME AuditIInv, Begin
  PROVE  AuditIInv'
<1>1. SweepIInv'
  BY BeginStep DEF AuditIInv
<1>2. /\ phase = "walk" /\ phase' = "episode" /\ pos \in Cell \ done
      /\ UNCHANGED <<pos, log, audits>>
  BY DEF Begin
<1>3. Init /\ UNCHANGED vars
  BY <1>2 DEF Begin, FirstRound, AuditIInv, SweepIInv, Between, Init, vars, loopVars
<1>4. ~IsDone(log[pos])
  BY <1>2 DEF AuditIInv, SweepIInv, Walked
<1>5. AuditedOnce' /\ AuditsFit' /\ NotAuditedYet'
  BY <1>2, <1>4 DEF AuditIInv, AuditedOnce, AuditsFit, NotAuditedYet
<1>6. Unscreened => FullBudget'
  BY <1>3, FullBudgetStep DEF AuditIInv, SweepIInv
<1> QED  BY <1>1, <1>5, <1>6 DEF AuditIInv, Unscreened

(* The row an episode leaves in the overfit log is that of its first       *)
(* accepted round, which the round log has under the same number.          *)

(* The row an episode leaves in the overfit log is that of its first       *)
(* accepted round, which the round log has under the same number.          *)
LEMMA NewAuditFits ==
  ASSUME SweepIInv, Unscreened => FullBudget, ~ForceFull \/ Unscreened,
         phase = "episode", status = "returned",
         AcceptRows # {}, found.patch \in Patch, found.round \in Nat
  PROVE  AuditFits(AuditOf(found.patch), log[pos]) /\ IsDone(log[pos])
<1> DEFINE L == log[pos]
           a == AuditOf(found.patch)
<1> PICK k \in Nat : k = found.round
  OBVIOUS
<1>1. /\ k \in AcceptRows /\ \A j \in AcceptRows : k <= j
      /\ found.patch = rows[k].patch
      /\ rows \in Seq(Row) /\ Usable # {}
  BY DEF SweepIInv, RecordIInv, FirstAcceptReported, EveryRoundHasItsRow, LoopIInv,
         TypeOK, LoopTypeOK
<1>2. /\ L \in Seq(LoggedRow) /\ Len(rows) <= Len(L)
      /\ \A j \in DOMAIN rows : L[j] = Logged(rows[j])
  BY DEF SweepIInv, SweepTypeOK, EpisodeLogged
<1>3. k \in DOMAIN rows /\ rows[k].accept
      /\ \A j \in 1..k - 1 : j \in DOMAIN rows /\ ~rows[j].accept
  <2>1. k \in DOMAIN rows /\ rows[k].accept
    BY <1>1 DEF AcceptRows
  <2>2. \A j \in 1..k - 1 : j \in DOMAIN rows /\ ~(k <= j)
    BY <1>1, <2>1
  <2> QED  BY <1>1, <2>1, <2>2 DEF AcceptRows
<1>4. L[k].accept /\ L[k].patch = found.patch
  <2>1. L[k] = Logged(rows[k])
    BY <1>2, <1>3
  <2> QED  BY <1>1, <1>3, <2>1 DEF Logged
<1>5. \A j \in 1..k - 1 : ~L[j].accept
  <2>1. SUFFICES ASSUME NEW j \in 1..k - 1 PROVE ~L[j].accept
    OBVIOUS
  <2>2. L[j] = Logged(rows[j])
    BY <1>2, <1>3
  <2> QED  BY <1>3, <2>2 DEF Logged
<1>6. k \in DOMAIN L
  BY <1>1, <1>2, <1>3
<1>7. Accepted(L) /\ FirstAccepted(L) = k
  <2> HIDE DEF L
  <2> QED  BY <1>2, <1>4, <1>5, <1>6, FirstAcceptedOnly
<1>8. a.round = k /\ a.patch = found.patch /\ a.correct = Verdict(found.patch)
      /\ a.broken = IF CheckRegression THEN Report(found.patch).broken ELSE {}
  BY DEF AuditOf
<1>9. AuditFits(a, L)
  <2> HIDE DEF a, L
  <2> QED  BY <1>1, <1>4, <1>7, <1>8, AuditVerdict DEF AuditFits
<1>10. IsDone(L)
  <2>1. CASE ~ForceFull
    BY <1>7, <2>1 DEF IsDone
  <2>2. CASE ForceFull
    <3>1. Len(rows) >= Budget
      BY <2>2 DEF FullBudget
    <3> QED  BY <1>1, <1>2, <3>1, LoopAssumption DEF IsDone
  <2> QED  BY <2>1, <2>2
<1> QED  BY <1>9, <1>10

LEMMA AuditCellEnds ==
  ASSUME ~ForceFull \/ Unscreened, AuditIInv, CellEnds
  PROVE  AuditIInv'
<1>1. SweepIInv'
  BY CellEndsStep DEF AuditIInv
<1>2. /\ phase = "episode" /\ phase' = "walk" /\ audits' = Audited /\ log' = log
      /\ status = "returned"
  BY DEF CellEnds
<1>3. FullBudget'
  BY FreshIsInit, FreshFullBudget DEF CellEnds
<1>4. NotAuditedYet'
  BY <1>2 DEF NotAuditedYet
<1>5. AuditedOnce' /\ AuditsFit'
  <2>1. CASE Audited = audits
    BY <1>2, <2>1 DEF AuditIInv, AuditedOnce, AuditsFit
  <2>2. CASE /\ AcceptRows # {} /\ found.patch \in Patch /\ found.round \in Nat
             /\ AuditOf(found.patch) \in AuditRow
             /\ Audited = Append(audits, AuditOf(found.patch))
    <3> DEFINE a == AuditOf(found.patch)
    <3>1. AuditFits(a, log[pos]) /\ IsDone(log[pos])
      BY <1>2, <2>2, NewAuditFits DEF AuditIInv
    <3>2. a.cell = pos
      BY DEF AuditOf
    <3> HIDE DEF a
    <3> PICK n \in Nat : n = Len(audits) + 1
      BY DEF AuditIInv, SweepIInv, SweepTypeOK
    <3>3. /\ DOMAIN audits' = DOMAIN audits \cup {n}
          /\ \A i \in DOMAIN audits : audits'[i] = audits[i]
          /\ audits'[n] = a
      BY <1>2, <2>2 DEF AuditIInv, SweepIInv, SweepTypeOK, a
    <3>4. \A i \in DOMAIN audits : audits[i].cell # pos
      BY <1>2 DEF AuditIInv, NotAuditedYet
    <3>5. AuditedOnce'
      BY <3>2, <3>3, <3>4 DEF AuditIInv, AuditedOnce
    <3>6. AuditsFit'
      BY <1>2, <3>1, <3>2, <3>3 DEF AuditIInv, AuditsFit
    <3> QED  BY <3>5, <3>6
  <2> QED  BY <1>2, <2>1, <2>2, AuditShape DEF AuditIInv
<1> QED  BY <1>1, <1>3, <1>4, <1>5 DEF AuditIInv

LEMMA AuditPause ==
  ASSUME AuditIInv, Start \/ Skip \/ StopCleanly \/ Finish \/ Kill
  PROVE  AuditIInv'
<1>1. SweepIInv'
  BY StartStep, SkipStep, StopStep DEF AuditIInv
<1>2. phase' # "episode" /\ log' = log /\ audits' = audits
  BY DEF Start, Skip, StopCleanly, Finish, Kill
<1>3. AuditedOnce' /\ AuditsFit' /\ NotAuditedYet'
  BY <1>2 DEF AuditIInv, AuditedOnce, AuditsFit, NotAuditedYet
<1>4. FullBudget'
  BY <1>1, <1>2, FreshFullBudget DEF SweepIInv, Between
<1> QED  BY <1>1, <1>3, <1>4 DEF AuditIInv

LEMMA AuditStutter ==
  ASSUME AuditIInv, UNCHANGED sweepVars
  PROVE  AuditIInv'
<1>1. SweepIInv'
  BY SweepStutter DEF AuditIInv
<1>2. AuditedOnce' /\ AuditsFit' /\ NotAuditedYet'
  BY DEF AuditIInv, AuditedOnce, AuditsFit, NotAuditedYet, sweepVars
<1>3. Unscreened => FullBudget'
  BY FullBudgetStep DEF AuditIInv, SweepIInv, sweepVars
<1> QED  BY <1>1, <1>2, <1>3 DEF AuditIInv, Unscreened

(* The overfit log has one row per cell at most, for the patch the round   *)
(* log shows accepted first, and under --check-overfit its verdict is that *)
(* of the whole pool.  A self-test filter or random skips charge a round   *)
(* twice, so with the full budget forced an episode may return before its  *)
(* cell is complete, and is then run and audited again.                    *)
THEOREM AuditsMatchTheLog ==
  ASSUME ~ForceFull \/ Unscreened
  PROVE  SweepSpec => []AuditsMatchLog
<1>1. SweepInit => AuditIInv
  BY SweepInitIInv, FullBudgetInit
  DEF SweepInit, AuditIInv, AuditedOnce, AuditsFit, NotAuditedYet
<1>2. AuditIInv /\ [SweepNext]_sweepVars => AuditIInv'
  BY DriverShape, AuditRound, AuditBegin, AuditCellEnds, AuditPause, AuditStutter
  DEF AuditIInv
<1>3. AuditIInv => AuditsMatchLog
  BY DEF AuditIInv, AuditedOnce, AuditsFit, AuditFits, AuditsMatchLog
<1> QED  BY <1>1, <1>2, <1>3, PTL DEF SweepSpec

=============================================================================
