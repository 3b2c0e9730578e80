----------------------------- MODULE LoopProofs -----------------------------
(***************************************************************************)
(* Theorems about the repair loop, for every task, arm and budget, and     *)
(* about what prompts and summaries read out of its memory and log.        *)
(***************************************************************************)
EXTENDS LoopProperties, Summary, MemoryProofs, FiniteSetTheorems

(* Whatever the round, memory is left alone or stores the oracle's verdict *)
(* on a patch that passed the guard.                                       *)
MemoryStep ==
  \/ UNCHANGED memVars
  \/ \E p \in Patch, c \in Case : c \in Fails[p] /\ ~Guarded(p) /\ StoreRefuted(p, c)
  \/ \E p \in Patch : StoreAccepted(p)

LEMMA RefutationsAreFailures ==
  ASSUME NEW p \in Patch, NEW S, NEW c \in Refutations(p, S)
  PROVE  c \in Case /\ c \in Fails[p]
  BY OracleAssumption DEF Refutations

LEMMA EveryRoundIsAMemoryStep == [Next]_vars => MemoryStep
<1> SUFFICES ASSUME [Next]_vars PROVE MemoryStep
  OBVIOUS
<1> USE DEF MemoryStep
<1>1. CASE ProposalUnusable \/ BackendUnreachable \/ CapReached \/ Exhausted
  BY <1>1 DEF ProposalUnusable, BackendUnreachable, CapReached, Exhausted
<1>2. ASSUME NEW p \in Patch, NEW S \in Samples, PatchRound(p, S)
      PROVE  MemoryStep
  <2>1. CASE GuardedRound(p, S) \/ SelfTestBlocked(p) \/ OracleSkipped(p) \/ OracleError(p, S)
    BY <2>1 DEF GuardedRound, SelfTestBlocked, OracleSkipped, OracleError
  <2>2. CASE Refute(p, S)
    <3>1. PICK c \in Refutations(p, S) : StoreRefuted(p, c)
      BY <2>2 DEF Refute
    <3>2. c \in Case /\ c \in Fails[p] /\ ~Guarded(p)
      BY <2>2, <3>1, RefutationsAreFailures DEF Refute, ReachesOracle
    <3> QED  BY <3>1, <3>2
  <2>3. CASE Accept(p, S)
    BY <2>3 DEF Accept
  <2> QED  BY <1>2, <2>1, <2>2, <2>3 DEF PatchRound
<1>3. CASE UNCHANGED vars
  BY <1>3 DEF vars
<1> QED  BY <1>1, <1>2, <1>3 DEF Next

-----------------------------------------------------------------------------
(* The loop drives the memory as the memory's own specification allows.    *)
THEOREM LoopImplementsMemory == Spec => ImplementsMemory
<1>1. Init => MemInit
  BY DEF Init
<1>2. [Next]_vars => [MemNext]_memVars
  BY EveryRoundIsAMemoryStep DEF MemoryStep, MemNext
<1> QED  BY <1>1, <1>2, PTL DEF Spec, MemSpec, ImplementsMemory

-----------------------------------------------------------------------------
(* A guard that speaks for the whole memory keeps refutations distinct: a  *)
(* patch that reached the oracle fails no stored case, so the case that    *)
(* refutes it is a new one.                                                *)
DistinctIInv == MemIInv /\ RefutationsDistinct

LEMMA NewRefutationIsNew ==
  ASSUME MemIInv, Guarding, NEW p \in Patch, ~Guarded(p), NEW c \in Fails[p]
  PROVE  \A i \in Refuted : history[i].case # c
<1>1. ~Blocked(p)
  BY DEF Guarding, Guarded
<1> QED  BY <1>1, GuardRecallHolds DEF GuardRecall, Guarding

LEMMA DistinctStep == DistinctIInv /\ MemoryStep => DistinctIInv'
<1> SUFFICES ASSUME DistinctIInv, MemoryStep PROVE DistinctIInv'
  OBVIOUS
<1>1. CASE UNCHANGED memVars
  BY <1>1 DEF memVars, DistinctIInv, RefutationsDistinct, MemIInv, MemTypeOK,
     SteerAndGuardAgree, TruthRecoverable, SeenIsFiled, CoherenceZeroIsOneBucket,
     Refuted, TrueLocation, Guarding
<1>2. ASSUME NEW p \in Patch, NEW c \in Case, c \in Fails[p], ~Guarded(p), StoreRefuted(p, c)
      PROVE  DistinctIInv'
  <2>1. MemIInv'
    BY <1>2, StoreRefutedIInv DEF DistinctIInv
  <2>2. PICK l \in Location : history' = Append(history, Filed(p, c, l))
    BY <1>2, FilingType, TrueLocationType DEF StoreRefuted, DistinctIInv, MemIInv
  <2>3. Filed(p, c, l) \in Attempt /\ ~Filed(p, c, l).accept /\ Filed(p, c, l).case = c
    BY FiledType DEF Filed
  <2>4. /\ \A i \in DOMAIN history : history'[i] = history[i]
        /\ history'[Len(history) + 1] = Filed(p, c, l)
        /\ Refuted' = Refuted \cup {Len(history) + 1}
        /\ Refuted \subseteq DOMAIN history
    BY <2>2, <2>3, AppendRefuted DEF DistinctIInv, MemIInv, MemTypeOK
  <2>5. Guarding => \A i \in Refuted : history[i].case # c
    BY <1>2, NewRefutationIsNew DEF DistinctIInv
  <2>6. RefutationsDistinct'
    BY <2>3, <2>4, <2>5 DEF DistinctIInv, RefutationsDistinct, Guarding
  <2> QED  BY <2>1, <2>6 DEF DistinctIInv
<1>3. ASSUME NEW p \in Patch, StoreAccepted(p)
      PROVE  DistinctIInv'
  <2> DEFINE a == [patch |-> p, accept |-> TRUE, case |-> None,
                   location |-> None, mistyped |-> None]
  <2>1. MemIInv'
    BY <1>3, StoreAcceptedIInv DEF DistinctIInv
  <2>2. a \in Attempt /\ a.accept /\ history' = Append(history, a)
    BY <1>3 DEF Attempt, StoreAccepted
  <2> HIDE DEF a
  <2>3. /\ \A i \in DOMAIN history : history'[i] = history[i]
        /\ Refuted' = Refuted
        /\ Refuted \subseteq DOMAIN history
    BY <2>2, AppendRefuted DEF DistinctIInv, MemIInv, MemTypeOK
  <2>4. RefutationsDistinct'
    BY <2>3 DEF DistinctIInv, RefutationsDistinct, Guarding
  <2> QED  BY <2>1, <2>4 DEF DistinctIInv
<1> QED  BY <1>1, <1>2, <1>3 DEF MemoryStep

LEMMA DistinctInvariant == Spec => []DistinctIInv
<1>1. Init => DistinctIInv
  <2> SUFFICES ASSUME Init PROVE DistinctIInv
    OBVIOUS
  <2>1. MemIInv
    BY MemInitIInv DEF Init
  <2>2. Refuted = {}
    BY DEF Init, MemInit, Refuted
  <2> QED  BY <2>1, <2>2 DEF DistinctIInv, RefutationsDistinct
<1>2. DistinctIInv /\ [Next]_vars => DistinctIInv'
  BY EveryRoundIsAMemoryStep, DistinctStep
<1> QED  BY <1>1, <1>2, PTL DEF Spec

(* In a guarding arm no two refutations rest on the same test case.        *)
THEOREM GuardedRefutationsDistinct == Spec => []RefutationsDistinct
<1>1. DistinctIInv => RefutationsDistinct
  BY DEF DistinctIInv
<1> QED  BY <1>1, DistinctInvariant, PTL

(* So an episode of a guarding arm pays for at most one refutation per     *)
(* usable case of the pool, whatever its budget: which case refuted an     *)
(* attempt is an injection of the refuted attempts into the pool.          *)
RefutationsBounded == Guarding => Cardinality(Refuted) <= Cardinality(Usable)

LEMMA DistinctIsBounded == DistinctIInv => RefutationsBounded
<1> SUFFICES ASSUME DistinctIInv, Guarding
             PROVE  Cardinality(Refuted) <= Cardinality(Usable)
  BY DEF RefutationsBounded
<1> DEFINE CaseOf == [i \in Refuted |-> history[i].case]
<1>1. \A i \in Refuted : history[i].case \in Usable
  <2> SUFFICES ASSUME NEW i \in Refuted PROVE history[i].case \in Usable
    OBVIOUS
  <2>1. i \in DOMAIN history /\ history[i].case \in Fails[history[i].patch]
    BY DEF DistinctIInv, MemIInv, MemTypeOK, Refuted
  <2>2. history[i] \in Attempt
    BY <2>1 DEF DistinctIInv, MemIInv, MemTypeOK
  <2>3. history[i].patch \in Patch
    BY <2>2 DEF Attempt
  <2> QED  BY <2>1, <2>3, OracleAssumption
<1>2. \A i, j \in Refuted : CaseOf[i] = CaseOf[j] => i = j
  BY DEF DistinctIInv, RefutationsDistinct
<1>3. CaseOf \in Injection(Refuted, Usable)
  BY <1>1, <1>2 DEF Injection, IsInjective
<1>4. IsFiniteSet(Usable)
  BY OracleAssumption, FS_Subset
<1> QED  BY <1>3, <1>4, FS_Injection

THEOREM GuardedRefutationsBounded == Spec => []RefutationsBounded
  BY DistinctInvariant, DistinctIsBounded, PTL

-----------------------------------------------------------------------------
(* With the whole pool as the oracle's sample, a candidate the guard       *)
(* blocks is one the oracle refutes.                                       *)
LEMMA BlockedIsRefuted ==
  ASSUME MemIInv, Complete, NEW p \in Patch, Blocked(p), NEW S \in Samples
  PROVE  ~Accepts(p, S)
<1>1. PICK i \in Refuted : history[i].case \in Fails[p]
  BY SearchedIsRefuted DEF Blocked, Blockers, Consulted, StillRefutes
<1>2. S = Case /\ history[i].case \in Case
  BY <1>1, OracleAssumption DEF Samples
<1> QED  BY <1>1, <1>2 DEF Accepts

(* The loop's type invariant, with the memory's invariant it rests on.     *)
LoopIInv == MemIInv /\ TypeOK

(* What a round adds to the record of the episode.                         *)
LEMMA AppendRow ==
  ASSUME NEW row \in Row, rows \in Seq(Row), Record(row)
  PROVE  /\ rows' \in Seq(Row)
         /\ DOMAIN rows' = DOMAIN rows \cup {Len(rows) + 1}
         /\ \A k \in DOMAIN rows : rows'[k] = rows[k]
         /\ rows'[Len(rows) + 1] = row
  BY DEF Record

LEMMA DrawType ==
  ASSUME TypeOK, Draw
  PROVE  /\ round' \in Nat /\ round' = round + 1
         /\ chat' \in [start : Nat, restarts : Nat]
  BY DEF Draw, TypeOK, LoopTypeOK, MemTypeOK

LEMMA BlankType ==
  ASSUME TypeOK, attempts' \in Nat
  PROVE  Blank \in Row
  BY DEF Blank, Row, TypeOK, LoopTypeOK

LEMMA IndexType == \A p \in Patch : /\ Hit(p) \in BOOLEAN \cup {None}
                                    /\ HitRefuted(p) \in BOOLEAN \cup {None}
  BY DEF Hit, HitRefuted, BucketHit, BucketHitRefuted

(* What a row tells: without a verdict, that the round left memory and the *)
(* outcome alone; with one, that memory took the patch as the row shows it *)
(* and that an accept was reported.                                        *)
NoVerdict(row) ==
  row.kind # "verdict" /\ ~row.accept /\ UNCHANGED <<memVars, found>>

Judged(row) ==
  /\ row.kind = "verdict"
  /\ \E a \in Attempt :
       /\ history' = Append(history, a)
       /\ a.patch = row.patch /\ a.accept = row.accept /\ a.case = row.case
  /\ IF row.accept
     THEN /\ found' = Found(row.patch) /\ (~ForceFull => status' = "returned")
          /\ Usable # {}
     ELSE UNCHANGED found

Told(row) ==
  Draw /\ Record(row) /\ row.round = round + 1 /\ (NoVerdict(row) \/ Judged(row))

(* Each exit of a round appends one well-formed row that tells what became *)
(* of memory; the only one that can carry the soundness flag is a guarded  *)
(* one the audit accepted.  A stop appends none.                           *)
LEMMA RoundShape ==
  ASSUME LoopIInv, Next
  PROVE  /\ LoopTypeOK'
         /\ \/ status' # "running" /\ UNCHANGED <<memVars, rows, found>>
            \/ \E row \in Row :
                 /\ Told(row)
                 /\ row.violation => \E p \in Patch, S \in Samples :
                                       Blocked(p) /\ Accepts(p, S)
<1> USE LoopAssumption
<1>1. CASE ProposalUnusable
  <2>1. attempts' \in Nat
    BY <1>1 DEF ProposalUnusable, Charge, LoopIInv, TypeOK, LoopTypeOK
  <2> DEFINE row == [Blank EXCEPT !.kind = "proposal_error", !.error = "unusable"]
  <2>2. /\ row \in Row /\ ~row.violation /\ row.kind # "verdict" /\ ~row.accept
        /\ row.round = round + 1
    BY <2>1, BlankType DEF Row, LoopIInv, Blank
  <2>3. Record(row)
    BY <1>1 DEF ProposalUnusable
  <2>4. Draw
    BY <1>1 DEF ProposalUnusable
  <2>6. NoVerdict(row)
    BY <1>1, <2>2 DEF ProposalUnusable, NoVerdict
  <2> HIDE DEF row
  <2>5. rows' \in Seq(Row) /\ UNCHANGED <<status, unreachable, found>>
    BY <1>1, <2>2, <2>3, AppendRow DEF ProposalUnusable, LoopIInv, TypeOK, LoopTypeOK
  <2> QED  BY <2>1, <2>2, <2>3, <2>4, <2>5, <2>6, DrawType DEF LoopIInv, TypeOK, LoopTypeOK, Told
<1>2. CASE BackendUnreachable
  <2>1. attempts' \in Nat /\ unreachable' \in Nat
    BY <1>2 DEF BackendUnreachable, Charge, LoopIInv, TypeOK, LoopTypeOK
  <2> DEFINE row == [Blank EXCEPT !.kind = "proposal_error", !.error = "unreachable"]
  <2>2. /\ row \in Row /\ ~row.violation /\ row.kind # "verdict" /\ ~row.accept
        /\ row.round = round + 1
    BY <2>1, BlankType DEF Row, LoopIInv, Blank
  <2>3. Record(row)
    BY <1>2 DEF BackendUnreachable
  <2>4. Draw /\ status' \in {"running", "raised", status} /\ UNCHANGED found
    BY <1>2 DEF BackendUnreachable
  <2>6. NoVerdict(row)
    BY <1>2, <2>2 DEF BackendUnreachable, NoVerdict
  <2> HIDE DEF row
  <2>5. rows' \in Seq(Row)
    BY <2>2, <2>3, AppendRow DEF LoopIInv, TypeOK, LoopTypeOK
  <2> QED  BY <2>1, <2>2, <2>3, <2>4, <2>5, <2>6, DrawType DEF LoopIInv, TypeOK, LoopTypeOK, Told
<1>3. CASE CapReached
  BY <1>3, DrawType DEF CapReached, memVars, LoopIInv, TypeOK, LoopTypeOK
<1>4. CASE Exhausted
  BY <1>4 DEF Exhausted, memVars, LoopIInv, TypeOK, LoopTypeOK
<1>5. ASSUME NEW p \in Patch, NEW S \in Samples, GuardedRound(p, S)
      PROVE  /\ LoopTypeOK'
             /\ \E row \in Row :
                  /\ Told(row)
                  /\ row.violation => Blocked(p) /\ Accepts(p, S)
  <2>1. attempts' \in Nat
    BY <1>5 DEF GuardedRound, Charge, LoopIInv, TypeOK, LoopTypeOK
  <2>2. PICK c \in Audits(p, S) :
          Record([Blank EXCEPT !.kind = "guarded", !.patch = p,
                               !.attempt = IF FreeGuarded THEN None ELSE attempts',
                               !.violation = AuditGuarded /\ Accepts(p, S), !.audit = c,
                               !.hit = Hit(p), !.hitRefuted = HitRefuted(p)])
    BY <1>5 DEF GuardedRound
  <2> DEFINE unit == IF FreeGuarded THEN None ELSE attempts'
             flag == AuditGuarded /\ Accepts(p, S)
             row == [Blank EXCEPT !.kind = "guarded", !.patch = p, !.attempt = unit,
                                  !.violation = flag, !.audit = c,
                                  !.hit = Hit(p), !.hitRefuted = HitRefuted(p)]
  <2>3. row \in Row
    <3>1. c \in Case \cup {None}
      BY <2>2, RefutationsAreFailures DEF Audits
    <3>2. flag \in BOOLEAN
      BY DEF Accepts
    <3>3. Blank \in Row
      BY <2>1, BlankType DEF LoopIInv
    <3>4. unit \in Nat \cup {None}
      BY <2>1
    <3> HIDE DEF unit, flag
    <3> QED  BY <3>1, <3>2, <3>3, <3>4, IndexType DEF Row
  <2>4. /\ row.violation => Blocked(p) /\ Accepts(p, S)
        /\ row.kind # "verdict" /\ ~row.accept /\ row.round = round + 1
    BY <1>5 DEF Blank, GuardedRound, Guarded
  <2>7. NoVerdict(row)
    BY <1>5, <2>4 DEF GuardedRound, NoVerdict
  <2>5. Record(row) /\ Draw /\ UNCHANGED <<status, unreachable, found>>
    BY <1>5, <2>2 DEF GuardedRound
  <2> HIDE DEF row
  <2>6. rows' \in Seq(Row)
    BY <2>3, <2>5, AppendRow DEF LoopIInv, TypeOK, LoopTypeOK
  <2> QED  BY <2>1, <2>3, <2>4, <2>5, <2>6, <2>7, DrawType
          DEF LoopIInv, TypeOK, LoopTypeOK, Told
<1>6. ASSUME NEW p \in Patch, NEW S \in Samples,
             SelfTestBlocked(p) \/ OracleSkipped(p) \/ OracleError(p, S)
      PROVE  /\ LoopTypeOK'
             /\ \E row \in Row : Told(row) /\ ~row.violation
  <2>1. attempts' \in Nat
    BY <1>6 DEF SelfTestBlocked, OracleSkipped, OracleError, Charge, LoopIInv, TypeOK, LoopTypeOK
  <2> DEFINE row(k, h, r) == [Blank EXCEPT !.kind = k, !.patch = p, !.hit = h, !.hitRefuted = r]
  <2>2. \E k \in {"selftest", "oracle_error"} : Record(row(k, Hit(p), HitRefuted(p)))
        \/ Record([Blank EXCEPT !.kind = "skipped", !.patch = p])
    BY <1>6 DEF SelfTestBlocked, OracleSkipped, OracleError
  <2>3. \A k \in {"selftest", "oracle_error"} :
          LET r == row(k, Hit(p), HitRefuted(p))
          IN  /\ r \in Row /\ ~r.violation /\ ~r.accept /\ r.kind # "verdict"
              /\ r.round = round + 1
    BY <2>1, BlankType, IndexType DEF Row, LoopIInv, Blank
  <2>4. /\ [Blank EXCEPT !.kind = "skipped", !.patch = p] \in Row
        /\ LET r == [Blank EXCEPT !.kind = "skipped", !.patch = p]
           IN  ~r.violation /\ ~r.accept /\ r.kind # "verdict" /\ r.round = round + 1
    BY <2>1, BlankType DEF Row, LoopIInv, Blank
  <2> HIDE DEF row
  <2>5. PICK r \in Row : /\ Record(r) /\ ~r.violation /\ ~r.accept /\ r.kind # "verdict"
                        /\ r.round = round + 1
    BY <2>2, <2>3, <2>4
  <2>6. Draw /\ UNCHANGED <<memVars, status, unreachable, found>>
    BY <1>6 DEF SelfTestBlocked, OracleSkipped, OracleError
  <2>7. rows' \in Seq(Row)
    BY <2>5, AppendRow DEF LoopIInv, TypeOK, LoopTypeOK
  <2>8. Told(r)
    BY <2>5, <2>6 DEF Told, NoVerdict
  <2> QED  BY <2>1, <2>5, <2>6, <2>7, <2>8, DrawType DEF LoopIInv, TypeOK, LoopTypeOK
<1>7. ASSUME NEW p \in Patch, NEW S \in Samples, Refute(p, S)
      PROVE  /\ LoopTypeOK'
             /\ \E row \in Row : Told(row) /\ ~row.violation
  <2>1. attempts' \in Nat
    BY <1>7 DEF Refute, Charge, LoopIInv, TypeOK, LoopTypeOK
  <2>2. PICK c \in Refutations(p, S) :
          StoreRefuted(p, c) /\ Record([Blank EXCEPT !.patch = p, !.case = c])
    BY <1>7 DEF Refute
  <2> DEFINE row == [Blank EXCEPT !.patch = p, !.case = c]
  <2>3. /\ row \in Row /\ ~row.violation /\ row.kind = "verdict" /\ ~row.accept
        /\ row.patch = p /\ row.case = c /\ row.round = round + 1
    BY <2>1, BlankType, RefutationsAreFailures DEF Row, LoopIInv, Blank
  <2>4. Record(row) /\ Draw /\ UNCHANGED <<status, unreachable, found>>
    BY <1>7, <2>2 DEF Refute
  <2> HIDE DEF row
  <2>6. \E a \in Attempt :
          history' = Append(history, a) /\ a.patch = p /\ a.accept = FALSE /\ a.case = c
    <3>1. PICK l \in Location : history' = Append(history, Filed(p, c, l))
      BY <2>2, FilingType, TrueLocationType DEF StoreRefuted, LoopIInv, MemIInv
    <3>2. Filed(p, c, l) \in Attempt
      BY FiledType, RefutationsAreFailures
    <3>3. Filed(p, c, l).patch = p /\ Filed(p, c, l).accept = FALSE /\ Filed(p, c, l).case = c
      BY DEF Filed
    <3> QED  BY <3>1, <3>2, <3>3
  <2>7. Judged(row)
    BY <2>2, <2>3, <2>4, <2>6 DEF Judged, Row
  <2>5. rows' \in Seq(Row)
    BY <2>3, <2>4, AppendRow DEF LoopIInv, TypeOK, LoopTypeOK
  <2> QED  BY <2>1, <2>3, <2>4, <2>5, <2>7, DrawType DEF LoopIInv, TypeOK, LoopTypeOK, Told
<1>8. ASSUME NEW p \in Patch, NEW S \in Samples, Accept(p, S)
      PROVE  /\ LoopTypeOK'
             /\ \E row \in Row : Told(row) /\ ~row.violation
  <2>1. attempts' \in Nat
    BY <1>8 DEF Accept, Charge, LoopIInv, TypeOK, LoopTypeOK
  <2> DEFINE row == [Blank EXCEPT !.patch = p, !.accept = TRUE]
  <2>2. /\ row \in Row /\ ~row.violation /\ row.kind = "verdict" /\ row.accept
        /\ row.patch = p /\ row.case = None /\ row.round = round + 1
    BY <2>1, BlankType DEF Row, LoopIInv, Blank
  <2>3. /\ Record(row) /\ Draw /\ UNCHANGED unreachable
        /\ StoreAccepted(p)
        /\ status' \in {status, "returned"} /\ (~ForceFull => status' = "returned")
        /\ found' = Found(p) /\ Usable # {}
    BY <1>8 DEF Accept, Accepts, Inconclusive
  <2>4. found' \in [round : Nat \cup {None}, patch : Patch \cup {None}]
    BY <2>3 DEF Found, LoopIInv, TypeOK, LoopTypeOK
  <2> HIDE DEF row
  <2>6. \E a \in Attempt :
          history' = Append(history, a) /\ a.patch = p /\ a.accept = TRUE /\ a.case = None
    <3> DEFINE stored == [patch |-> p, accept |-> TRUE, case |-> None,
                          location |-> None, mistyped |-> None]
    <3>1. stored \in Attempt /\ history' = Append(history, stored)
      BY <2>3 DEF StoreAccepted, Attempt
    <3>2. stored.patch = p /\ stored.accept = TRUE /\ stored.case = None
      OBVIOUS
    <3> HIDE DEF stored
    <3> QED  BY <3>1, <3>2
  <2>7. Judged(row)
    BY <2>2, <2>3, <2>6 DEF Judged, Row
  <2>5. rows' \in Seq(Row)
    BY <2>2, <2>3, AppendRow DEF LoopIInv, TypeOK, LoopTypeOK
  <2> QED  BY <2>1, <2>2, <2>3, <2>4, <2>5, <2>7, DrawType DEF LoopIInv, TypeOK, LoopTypeOK, Told
<1> QED  BY <1>1, <1>2, <1>3, <1>4, <1>5, <1>6, <1>7, <1>8 DEF Next, PatchRound

LEMMA MemoryStepIInv == MemIInv /\ MemoryStep => MemIInv'
<1> SUFFICES ASSUME MemIInv, MemoryStep PROVE MemIInv'
  OBVIOUS
<1>1. [MemNext]_memVars
  BY DEF MemoryStep, MemNext
<1> QED  BY <1>1, MemNextIInv

LEMMA LoopInit == Init => LoopIInv
<1> SUFFICES ASSUME Init PROVE LoopIInv
  OBVIOUS
<1>1. MemIInv
  BY MemInitIInv DEF Init
<1> QED  BY <1>1 DEF LoopIInv, TypeOK, LoopTypeOK, Init, MemIInv

LEMMA LoopStep == LoopIInv /\ [Next]_vars => LoopIInv'
<1> SUFFICES ASSUME LoopIInv, [Next]_vars PROVE LoopIInv'
  OBVIOUS
<1>1. MemIInv'
  BY EveryRoundIsAMemoryStep, MemoryStepIInv DEF LoopIInv
<1>2. CASE Next
  BY <1>1, <1>2, RoundShape DEF LoopIInv, TypeOK, MemIInv
<1>3. CASE UNCHANGED vars
  BY <1>1, <1>3 DEF vars, loopVars, LoopIInv, TypeOK, LoopTypeOK, MemIInv
<1> QED  BY <1>2, <1>3

(* Every reachable state of an episode is well typed.                      *)
THEOREM LoopTypes == Spec => []TypeOK
<1>1. LoopIInv => TypeOK
  BY DEF LoopIInv
<1> QED  BY <1>1, LoopInit, LoopStep, PTL DEF Spec

(* Against the whole pool, the audit of guarded rounds never flags one.    *)
THEOREM CompleteOracleMakesGuardSound ==
  ASSUME Complete
  PROVE  Spec => []GuardSoundness
<1> DEFINE I == LoopIInv /\ GuardSoundness
<1>1. Init => I
  BY LoopInit DEF Init, GuardSoundness
<1>2. I /\ [Next]_vars => I'
  <2> SUFFICES ASSUME I, [Next]_vars PROVE GuardSoundness'
    BY LoopStep
  <2>1. CASE Next
    <3>1. CASE UNCHANGED rows
      BY <3>1 DEF GuardSoundness
    <3>2. ASSUME NEW row \in Row, Told(row),
                 row.violation => \E p \in Patch, S \in Samples : Blocked(p) /\ Accepts(p, S)
          PROVE  GuardSoundness'
      <4>1. ~row.violation
        BY <3>2, BlockedIsRefuted DEF LoopIInv
      <4> QED  BY <3>2, <4>1, AppendRow DEF Told, GuardSoundness, LoopIInv, TypeOK, LoopTypeOK
    <3> QED  BY <2>1, <3>1, <3>2, RoundShape
  <2>2. CASE UNCHANGED vars
    BY <2>2 DEF vars, loopVars, GuardSoundness
  <2> QED  BY <2>1, <2>2
<1>3. I => GuardSoundness
  OBVIOUS
<1> QED  BY <1>1, <1>2, <1>3, PTL DEF Spec

-----------------------------------------------------------------------------
(* What the episode reports and what memory keeps, read off the rows.      *)
(* While an episode runs every round drawn has its row; a stop leaves the  *)
(* round it drew without one.  Only a pool with a case the reference can   *)
(* answer lets the oracle accept.                                          *)
EveryRoundHasItsRow ==
  /\ status = "running" => Len(rows) = round
  /\ \A k \in DOMAIN rows : rows[k].round = k
  /\ AcceptRows # {} => Usable # {}

RecordIInv ==
  /\ LoopIInv
  /\ EveryRoundHasItsRow
  /\ FirstAcceptReported
  /\ MemoryIsVerdicts

LEMMA FirstAcceptStep ==
  ASSUME RecordIInv, NEW row \in Row, Told(row)
  PROVE  EveryRoundHasItsRow' /\ FirstAcceptReported'
<1> PICK n \in Nat : n = Len(rows) + 1
  BY DEF RecordIInv, LoopIInv, TypeOK, LoopTypeOK
<1>1. /\ status = "running" /\ round' = round + 1 /\ Len(rows) = round
      /\ n = round + 1 /\ round \in Nat
  BY DEF Told, Draw, MayDraw, RecordIInv, EveryRoundHasItsRow, LoopIInv, TypeOK, LoopTypeOK
<1>2. /\ rows \in Seq(Row) /\ rows' \in Seq(Row)
      /\ DOMAIN rows' = DOMAIN rows \cup {n}
      /\ \A k \in DOMAIN rows : rows'[k] = rows[k]
      /\ rows'[n] = row
      /\ Len(rows') = n
  BY AppendRow DEF Told, Record, RecordIInv, LoopIInv, TypeOK, LoopTypeOK
<1>3. EveryRoundHasItsRow'
  BY <1>1, <1>2 DEF EveryRoundHasItsRow, RecordIInv, AcceptRows, Told, NoVerdict, Judged
<1>4. \A k \in DOMAIN rows : k \in Nat /\ k < n
  BY <1>2
<1> SUFFICES FirstAcceptReported'
  BY <1>3
<1>5. AcceptRows' = IF row.accept THEN AcceptRows \cup {n} ELSE AcceptRows
  BY <1>2 DEF AcceptRows
<1>6. ~ForceFull => AcceptRows = {}
  BY <1>1 DEF RecordIInv, FirstAcceptReported
<1>7. AcceptRows \subseteq DOMAIN rows /\ AcceptRows \subseteq Nat
  BY <1>4 DEF AcceptRows
<1>8. CASE ~row.accept
  <2>1. found' = found
    BY <1>8 DEF Told, NoVerdict, Judged
  <2> QED  BY <1>2, <1>5, <1>6, <1>7, <1>8, <2>1 DEF RecordIInv, FirstAcceptReported
<1>9. CASE row.accept
  <2>1. found' = Found(row.patch) /\ (~ForceFull => status' = "returned")
    BY <1>9 DEF Told, NoVerdict, Judged
  <2>2. CASE AcceptRows = {}
    <3>1. found' = [round |-> n, patch |-> row.patch]
      BY <1>1, <2>1, <2>2 DEF Found, RecordIInv, FirstAcceptReported
    <3>2. found'.round = n /\ found'.patch = row.patch
      BY <3>1
    <3>3. AcceptRows' = {n} /\ n \in Nat
      BY <1>1, <1>5, <1>9, <2>2
    <3> QED  BY <1>2, <2>1, <3>2, <3>3 DEF FirstAcceptReported
  <2>3. CASE AcceptRows # {}
    <3>1. found' = found /\ found.round \in AcceptRows /\ found.round \in Nat
      BY <1>7, <2>1, <2>3, LoopAssumption DEF Found, RecordIInv, FirstAcceptReported
    <3>2. AcceptRows' = AcceptRows \cup {n} /\ found.round <= n
      BY <1>4, <1>5, <1>7, <1>9, <3>1
    <3> QED  BY <1>2, <1>6, <1>7, <2>3, <3>1, <3>2 DEF RecordIInv, FirstAcceptReported
  <2> QED  BY <2>2, <2>3
<1> QED  BY <1>8, <1>9

(* The i-th attempt of memory is the i-th verdict of the log.              *)
LEMMA MemoryVerdictStep ==
  ASSUME RecordIInv, NEW row \in Row, Told(row)
  PROVE  MemoryIsVerdicts'
<1> PICK n \in Nat : n = Len(rows) + 1
  BY DEF RecordIInv, LoopIInv, TypeOK, LoopTypeOK
<1>1. /\ history \in Seq(Attempt) /\ rows \in Seq(Row)
      /\ DOMAIN rows' = DOMAIN rows \cup {n}
      /\ \A k \in DOMAIN rows : rows'[k] = rows[k]
      /\ rows'[n] = row
  BY AppendRow DEF Told, RecordIInv, LoopIInv, TypeOK, LoopTypeOK, MemTypeOK
<1>2. DOMAIN rows = 1..Len(rows) /\ Len(rows) \in Nat
  BY <1>1
<1>3. \A k \in DOMAIN rows : k \in Nat /\ k < n
  BY <1>2
<1>4. IsFiniteSet(VerdictRows)
  <2>1. VerdictRows \subseteq 1..Len(rows)
    BY <1>2 DEF VerdictRows
  <2>2. IsFiniteSet(1..Len(rows))
    BY <1>2, FS_Interval
  <2> QED  BY <2>1, <2>2, FS_Subset
<1>5. n \notin DOMAIN rows
  BY <1>2
<1>6. \A k \in VerdictRows : Cardinality(VerdictsUpTo(k)) \in 1..Len(history)
  <2> SUFFICES ASSUME NEW k \in VerdictRows
               PROVE  Cardinality(VerdictsUpTo(k)) \in 1..Len(history)
    OBVIOUS
  <2>1. VerdictsUpTo(k) \subseteq VerdictRows /\ k \in VerdictsUpTo(k)
    BY <1>3 DEF VerdictsUpTo, VerdictRows
  <2>2. /\ IsFiniteSet(VerdictsUpTo(k)) /\ Cardinality(VerdictsUpTo(k)) \in Nat
        /\ Cardinality(VerdictsUpTo(k)) <= Len(history)
        /\ Cardinality(VerdictsUpTo(k)) # 0
    BY <1>4, <2>1, FS_Subset, FS_CardinalityType, FS_EmptySet DEF RecordIInv, MemoryIsVerdicts
  <2> QED  BY <1>1, <2>2
<1>7. \A k \in DOMAIN rows : VerdictsUpTo(k)' = VerdictsUpTo(k)
  BY <1>1, <1>3, <1>5 DEF VerdictsUpTo, VerdictRows
<1>8. CASE NoVerdict(row)
  <2>1. VerdictRows' = VerdictRows /\ history' = history
    BY <1>1, <1>8 DEF VerdictRows, NoVerdict, memVars
  <2> QED  BY <1>1, <1>7, <2>1 DEF RecordIInv, MemoryIsVerdicts, VerdictRows
<1>9. CASE Judged(row)
  <2>1. PICK a \in Attempt :
          /\ history' = Append(history, a)
          /\ a.patch = row.patch /\ a.accept = row.accept /\ a.case = row.case
    BY <1>9 DEF Judged
  <2>2. VerdictRows' = VerdictRows \cup {n} /\ n \notin VerdictRows
    BY <1>1, <1>5, <1>9 DEF VerdictRows, Judged
  <2>3. VerdictsUpTo(n)' = VerdictRows \cup {n}
    BY <1>3, <1>5, <2>2 DEF VerdictsUpTo, VerdictRows
  <2>4. Cardinality(VerdictRows \cup {n}) = Len(history) + 1
    BY <1>4, <2>2, FS_AddElement DEF RecordIInv, MemoryIsVerdicts
  <2>5. /\ Len(history') = Len(history) + 1
        /\ \A i \in 1..Len(history) : history'[i] = history[i]
        /\ history'[Len(history) + 1] = a
    BY <1>1, <2>1
  <2>6. \A k \in VerdictRows : /\ k \in DOMAIN rows
                               /\ VerdictsUpTo(k)' = VerdictsUpTo(k)
                               /\ history'[Cardinality(VerdictsUpTo(k))]
                                    = history[Cardinality(VerdictsUpTo(k))]
    BY <1>6, <1>7, <2>5 DEF VerdictRows
  <2>7. Len(history') = Cardinality(VerdictRows')
    BY <2>2, <2>4, <2>5
  <2>8. ASSUME NEW k \in VerdictRows'
        PROVE  LET b == history'[Cardinality(VerdictsUpTo(k)')]
               IN  /\ b.patch = rows'[k].patch
                   /\ b.accept = rows'[k].accept
                   /\ b.case = rows'[k].case
    <3>1. CASE k = n
      BY <1>1, <2>1, <2>3, <2>4, <2>5, <3>1
    <3>2. CASE k \in VerdictRows
      BY <1>1, <2>6, <3>2 DEF RecordIInv, MemoryIsVerdicts
    <3> QED  BY <2>2, <2>8, <3>1, <3>2
  <2> QED  BY <2>7, <2>8 DEF MemoryIsVerdicts
<1> QED  BY <1>8, <1>9 DEF Told

LEMMA RecordInit == Init => RecordIInv
<1> SUFFICES ASSUME Init PROVE RecordIInv
  OBVIOUS
<1>1. AcceptRows = {} /\ VerdictRows = {}
  BY DEF Init, AcceptRows, VerdictRows
<1>2. Cardinality({}) = 0
  BY FS_EmptySet
<1> QED  BY <1>1, <1>2, LoopInit DEF Init, MemInit, RecordIInv, EveryRoundHasItsRow,
            FirstAcceptReported, MemoryIsVerdicts

LEMMA RecordStep == RecordIInv /\ [Next]_vars => RecordIInv'
<1> SUFFICES ASSUME RecordIInv, [Next]_vars PROVE RecordIInv'
  OBVIOUS
<1>1. LoopIInv'
  BY LoopStep DEF RecordIInv
<1>2. ASSUME NEW row \in Row, Told(row) PROVE RecordIInv'
  BY <1>1, <1>2, FirstAcceptStep, MemoryVerdictStep DEF RecordIInv
<1>3. ASSUME status' # "running" \/ UNCHANGED <<status, round>>,
             ForceFull \/ status = "running" \/ status' = status,
             UNCHANGED <<memVars, rows, found>>
      PROVE  RecordIInv'
  <2>1. EveryRoundHasItsRow'
    BY <1>3 DEF RecordIInv, EveryRoundHasItsRow, AcceptRows
  <2>2. AcceptRows' = AcceptRows /\ VerdictRows' = VerdictRows
        /\ \A k : VerdictsUpTo(k)' = VerdictsUpTo(k)
    BY <1>3 DEF AcceptRows, VerdictRows, VerdictsUpTo
  <2>3. MemoryIsVerdicts'
    BY <1>3, <2>2 DEF RecordIInv, MemoryIsVerdicts, memVars
  <2>4. FirstAcceptReported'
    BY <1>3, <2>2 DEF RecordIInv, FirstAcceptReported
  <2> QED  BY <1>1, <2>1, <2>3, <2>4 DEF RecordIInv
<1>4. Next => status = "running"
  BY DEF Next, ProposalUnusable, BackendUnreachable, CapReached, Exhausted, PatchRound,
     GuardedRound, SelfTestBlocked, OracleSkipped, OracleError, Refute, Accept, Draw, MayDraw
<1>5. CASE Next
  BY <1>2, <1>3, <1>4, <1>5, RoundShape DEF RecordIInv
<1>6. CASE UNCHANGED vars
  BY <1>3, <1>6 DEF vars, loopVars
<1> QED  BY <1>5, <1>6

(* The episode reports its first accept, whatever runs on after it.        *)
THEOREM FirstAcceptIsReported == Spec => []FirstAcceptReported
<1>1. RecordIInv => FirstAcceptReported
  BY DEF RecordIInv
<1> QED  BY <1>1, RecordInit, RecordStep, PTL DEF Spec

(* Memory is the log's verdicts, in order: no other exit of a round leaves *)
(* a trace in it, and none of them is lost.                                *)
THEOREM OnlyVerdictsAreRemembered == Spec => []MemoryIsVerdicts
<1>1. RecordIInv => MemoryIsVerdicts
  BY DEF RecordIInv
<1> QED  BY <1>1, RecordInit, RecordStep, PTL DEF Spec

-----------------------------------------------------------------------------
(* The transcript restarts before the draw that would show RestartAfter    *)
(* failures; after a restart it shows none.                                *)
LEMMA DrawBoundsTranscript ==
  ASSUME TypeOK, ChatHistory, Draw
  PROVE  FailsSince(chat'.start) < RestartAfter
<1>1. \A i \in Refuted : i \in Nat /\ i <= Len(history)
  BY DEF TypeOK, MemTypeOK, Refuted
<1>2. \A start \in Nat : FailsSince(start) \in Nat
  <2> TAKE start \in Nat
  <2>1. {i \in Refuted : i > start} \subseteq 1..Len(history) /\ Len(history) \in Nat
    BY DEF TypeOK, MemTypeOK, Refuted
  <2>2. IsFiniteSet(1..Len(history))
    BY <2>1, FS_Interval
  <2> QED  BY <2>1, <2>2, FS_Subset, FS_CardinalityType DEF FailsSince
<1>3. FailsSince(Len(history)) = 0
  <2>1. {i \in Refuted : i > Len(history)} = {}
    BY <1>1 DEF TypeOK, MemTypeOK
  <2> QED  BY <2>1, FS_EmptySet DEF FailsSince
<1>4. PICK tooLong \in BOOLEAN :
        chat' = IF Restarts(tooLong)
                THEN [start |-> Len(history), restarts |-> chat.restarts + 1]
                ELSE chat
  BY DEF Draw
<1>5. CASE Restarts(tooLong)
  BY <1>3, <1>4, <1>5, LoopAssumption
<1>6. CASE ~Restarts(tooLong)
  <2>1. chat' = chat /\ chat.start \in Nat
    BY <1>4, <1>6 DEF TypeOK, LoopTypeOK
  <2>2. FailsSince(chat.start) = 0 \/ FailsSince(chat.start) < RestartAfter
    BY <1>2, <1>6, <2>1, LoopAssumption DEF Restarts
  <2> QED  BY <2>1, <2>2, LoopAssumption
<1> QED  BY <1>5, <1>6

LEMMA RoundsAreDraws == TypeOK /\ Next /\ round' = round + 1 => Draw
<1>1. TypeOK /\ Exhausted => round' # round + 1
  BY DEF Exhausted, TypeOK, LoopTypeOK
<1> QED
  BY <1>1 DEF Next, ProposalUnusable, BackendUnreachable, CapReached, PatchRound,
     GuardedRound, SelfTestBlocked, OracleSkipped, OracleError, Refute, Accept

(* The chat arm never ships RestartAfter failures, in any round.           *)
THEOREM TranscriptIsBounded == Spec => TranscriptBounded
<1>1. TypeOK /\ [Next]_vars =>
        [ChatHistory /\ round' = round + 1 => FailsSince(chat'.start) < RestartAfter]_vars
  BY RoundsAreDraws, DrawBoundsTranscript
<1> QED  BY <1>1, LoopTypes, PTL DEF Spec, TranscriptBounded

-----------------------------------------------------------------------------
(* The loop is a budgeted search, in the arms without the self-test filter *)
(* and without random skips: those two charge a round twice and the search *)
(* charges a draw at most once.                                            *)
Unscreened == SelfTestBlocks = {} /\ SkipsOracle = FALSE

WithinBudget == attempts <= Budget /\ round <= MaxDraws

SearchIInv == LoopIInv /\ WithinBudget

LEMMA MaxDrawsType == MaxDraws \in Nat
  BY LoopAssumption DEF MaxDraws

LEMMA ChargeBounds ==
  ASSUME LoopIInv, WithinBudget, Draw, NEW cost \in {0, 1}, attempts' = attempts + cost
  PROVE  WithinBudget'
<1>1. attempts \in Nat /\ round \in Nat /\ Budget \in Nat /\ MaxDraws \in Nat
  BY MaxDrawsType, LoopAssumption DEF LoopIInv, TypeOK, LoopTypeOK
<1>2. attempts < Budget /\ round < MaxDraws /\ round' = round + 1
  BY DEF Draw, MayDraw
<1>3. attempts' <= Budget /\ round' <= MaxDraws
  BY <1>1, <1>2
<1> QED  BY <1>3 DEF WithinBudget, MaxDraws

(* A round with one of these results and at most one charge is a DrawOne.  *)
LEMMA RoundIsDrawOne ==
  ASSUME LoopIInv, Draw, NEW cost \in {0, 1}, cost = 0 => FreeGuarded,
         attempts' = attempts + cost,
         SearchResult' \in {"open", "accepted", "failed"}
  PROVE  Abstract!DrawOne
<1>1. status = "running" /\ attempts < Budget /\ round < MaxDraws /\ round' = round + 1
  BY DEF Draw, MayDraw
<1>2. SearchResult = "open"
  BY <1>1 DEF SearchResult
<1>3. cost \in Abstract!Costs
  BY LoopAssumption DEF Abstract!Costs
<1> QED  BY <1>1, <1>2, <1>3 DEF Abstract!DrawOne

LEMMA SearchStep ==
  ASSUME Unscreened, SearchIInv, Next
  PROVE  /\ WithinBudget'
         /\ Abstract!DrawOne \/ Abstract!FailDraw \/ Abstract!Close
<1> USE DEF SearchIInv
<1>1. CASE ProposalUnusable
  <2>1. Draw /\ attempts' = attempts + 1 /\ UNCHANGED status
    BY <1>1 DEF ProposalUnusable, Charge
  <2>2. SearchResult' = "open"
    BY <2>1 DEF SearchResult, Draw, MayDraw
  <2> QED  BY <2>1, <2>2, ChargeBounds, RoundIsDrawOne
<1>2. CASE BackendUnreachable
  <2>1. Draw /\ attempts' = attempts + 1 /\ status' \in {status, "raised"}
    BY <1>2 DEF BackendUnreachable, Charge
  <2>2. SearchResult' \in {"open", "failed"}
    BY <2>1 DEF SearchResult, Draw, MayDraw
  <2> QED  BY <2>1, <2>2, ChargeBounds, RoundIsDrawOne
<1>3. CASE CapReached
  <2>1. Draw /\ attempts' = attempts /\ status' = "raised"
    BY <1>3 DEF CapReached
  <2>2. attempts' = attempts + 0
    BY <2>1 DEF LoopIInv, TypeOK, LoopTypeOK
  <2>3. WithinBudget'
    BY <2>1, <2>2, ChargeBounds
  <2>4. SearchResult = "open" /\ SearchResult' = "failed"
    BY <2>1 DEF SearchResult, Draw, MayDraw
  <2>5. Abstract!FailDraw
    BY <2>1, <2>4 DEF Abstract!FailDraw, Draw, MayDraw
  <2> QED  BY <2>3, <2>5
<1>4. CASE Exhausted
  <2>1. /\ status = "running" /\ status' = "returned"
        /\ ~(attempts < Budget /\ round < MaxDraws)
        /\ UNCHANGED <<round, attempts, found>>
    BY <1>4 DEF Exhausted, MayDraw
  <2>2. attempts = Budget \/ round = MaxDraws
    BY <2>1, MaxDrawsType, LoopAssumption DEF LoopIInv, TypeOK, LoopTypeOK, WithinBudget
  <2>3. SearchResult = "open" /\ SearchResult' \in {"accepted", "exhausted"}
    BY <2>1 DEF SearchResult
  <2> QED  BY <2>1, <2>2, <2>3 DEF Abstract!Close, WithinBudget, MaxDraws
<1>5. ASSUME NEW p \in Patch, NEW S \in Samples, PatchRound(p, S)
      PROVE  WithinBudget' /\ Abstract!DrawOne
  <2>1. CASE GuardedRound(p, S)
    <3>1. PICK cost \in {0, 1} : (cost = 0 => FreeGuarded) /\ attempts' = attempts + cost
      BY <2>1, LoopAssumption DEF GuardedRound, Charge
    <3>2. Draw /\ UNCHANGED status
      BY <2>1 DEF GuardedRound
    <3>3. SearchResult' = "open"
      BY <3>2 DEF SearchResult, Draw, MayDraw
    <3> QED  BY <3>1, <3>2, <3>3, ChargeBounds, RoundIsDrawOne
  <2>2. CASE OracleError(p, S) \/ Refute(p, S)
    <3>1. Draw /\ attempts' = attempts + 1 /\ UNCHANGED status
      BY <2>2 DEF OracleError, Refute, Charge
    <3>2. SearchResult' = "open"
      BY <3>1 DEF SearchResult, Draw, MayDraw
    <3> QED  BY <3>1, <3>2, ChargeBounds, RoundIsDrawOne
  <2>3. CASE Accept(p, S)
    <3>1. /\ Draw /\ attempts' = attempts + 1 /\ status' \in {status, "returned"}
          /\ found' = Found(p)
      BY <2>3 DEF Accept, Charge
    <3>2. found'.round # None
      BY <3>1, LoopAssumption DEF Found, LoopIInv, TypeOK, LoopTypeOK
    <3>3. SearchResult' \in {"open", "accepted"}
      BY <3>1, <3>2 DEF SearchResult, Draw, MayDraw
    <3> QED  BY <3>1, <3>3, ChargeBounds, RoundIsDrawOne
  <2>4. ~SelfTestBlocked(p) /\ ~OracleSkipped(p)
    BY DEF Unscreened, SelfTestBlocked, OracleSkipped
  <2> QED  BY <1>5, <2>1, <2>2, <2>3, <2>4 DEF PatchRound
<1> QED  BY <1>1, <1>2, <1>3, <1>4, <1>5 DEF Next

(* In every arm but those two the loop implements the budgeted search.     *)
THEOREM LoopImplementsSearch ==
  ASSUME Unscreened
  PROVE  Spec => ImplementsSearch
<1>1. Init => SearchIInv /\ Abstract!SearchInit
  BY LoopInit, MaxDrawsType, LoopAssumption
  DEF Init, SearchIInv, WithinBudget, Abstract!SearchInit, SearchResult
<1>2. SearchIInv /\ [Next]_vars => SearchIInv'
  <2>1. SearchIInv /\ Next => WithinBudget'
    BY SearchStep
  <2>2. SearchIInv /\ UNCHANGED vars => WithinBudget'
    BY DEF SearchIInv, WithinBudget, vars, loopVars, MaxDraws
  <2> QED  BY <2>1, <2>2, LoopStep DEF SearchIInv
<1>3. SearchIInv /\ [Next]_vars =>
        [Abstract!DrawOne \/ Abstract!FailDraw \/ Abstract!Close]_(Abstract!searchVars)
  <2>1. SearchIInv /\ Next => Abstract!DrawOne \/ Abstract!FailDraw \/ Abstract!Close
    BY SearchStep
  <2>2. UNCHANGED vars => UNCHANGED Abstract!searchVars
    BY DEF vars, loopVars, Abstract!searchVars, SearchResult
  <2> QED  BY <2>1, <2>2
<1> QED  BY <1>1, <1>2, <1>3, PTL DEF Spec, ImplementsSearch, Abstract!SearchSpec

-----------------------------------------------------------------------------
(* What the typed arm's prompt shows of memory: every class believed to be *)
(* refuted, each on one line of its own; and in a guarding arm no line     *)
(* repeats another's counterexample, whatever the typing did.              *)
PromptCoversMemory ==
  Mode = "typed" =>
    /\ {e.class : e \in EvidenceBlock} = {BelievedType(i) : i \in Refuted}
    /\ \A e, f \in EvidenceBlock : e.class = f.class \/ e.line = f.line => e = f
    /\ Guarding => \A e, f \in EvidenceBlock : e.case = f.case => e = f

(* Two members of a block do not stand on one line.                        *)
LEMMA LinesAreDistinct ==
  ASSUME NEW shown, IsFiniteSet(shown), shown \subseteq Nat,
         NEW i \in shown, NEW j \in shown, Line(i, shown) = Line(j, shown)
  PROVE  i = j
<1> DEFINE UpTo(n) == {k \in shown : k <= n}
<1>1. ASSUME NEW m \in shown, NEW n \in shown, m < n,
             Cardinality(UpTo(m)) = Cardinality(UpTo(n))
      PROVE  FALSE
  <2>1. IsFiniteSet(UpTo(n))
    BY FS_Subset
  <2>2. UpTo(m) \subseteq UpTo(n) /\ n \in UpTo(n) /\ n \notin UpTo(m)
    <3>1. shown \subseteq Nat /\ m \in Nat /\ n \in Nat /\ m < n
      BY <1>1
    <3>2. \A k \in shown : k \in Nat /\ (k <= m => k <= n)
      BY <3>1
    <3>3. UpTo(m) \subseteq UpTo(n)
      BY <3>2
    <3>4. n <= n /\ ~(n <= m)
      BY <3>1
    <3> QED  BY <3>3, <3>4
  <2> HIDE DEF UpTo
  <2>3. UpTo(m) = UpTo(n)
    BY <1>1, <2>1, <2>2, FS_Subset
  <2> QED  BY <2>2, <2>3
<1>2. ~(i < j) /\ ~(j < i)
  BY <1>1 DEF Line
<1> QED  BY <1>2

(* Every class has the attempt that was refuted in it first.               *)
LEMMA RepresentativeOfClass ==
  ASSUME Refuted \subseteq Nat, NEW i \in Refuted
  PROVE  \E r \in Representatives : BelievedType(r) = BelievedType(i)
<1> DEFINE Same == {j \in Refuted : BelievedType(j) = BelievedType(i)}
<1>1. PICK r \in Same : \A j \in Same : r <= j
  <2>1. i \in Same /\ Same \subseteq Nat
    OBVIOUS
  <2> HIDE DEF Same
  <2> QED  BY <2>1, LeastNatural
<1>2. ASSUME NEW j \in Refuted, j < r PROVE BelievedType(j) # BelievedType(r)
  <2>1. ~(r <= j)
    BY <1>2
  <2> QED  BY <1>1, <2>1
<1> QED  BY <1>1, <1>2 DEF Representatives

LEMMA PromptCovers == DistinctIInv => PromptCoversMemory
<1> SUFFICES ASSUME DistinctIInv, Mode = "typed" PROVE PromptCoversMemory
  BY DEF PromptCoversMemory
<1>1. Refuted \subseteq Nat /\ IsFiniteSet(Refuted)
  <2>1. Refuted \subseteq 1..Len(history) /\ Len(history) \in Nat
    BY DEF DistinctIInv, MemIInv, MemTypeOK, Refuted
  <2>2. IsFiniteSet(1..Len(history))
    BY <2>1, FS_Interval
  <2>3. Refuted \in SUBSET (1..Len(history)) /\ 1..Len(history) \subseteq Nat
    BY <2>1
  <2>4. IsFiniteSet(Refuted)
    BY <2>2, <2>3, FS_Subset
  <2> QED  BY <2>3, <2>4
<1>2. Representatives \subseteq Refuted /\ IsFiniteSet(Representatives)
  BY <1>1, FS_Subset DEF Representatives
<1>3. \A e \in EvidenceBlock : \E r \in Representatives :
        e = [line |-> Line(r, Representatives), class |-> BelievedType(r),
             patch |-> history[r].patch, case |-> history[r].case]
  BY DEF EvidenceBlock
<1>4. \A r \in Representatives : \E e \in EvidenceBlock : e.class = BelievedType(r)
  <2> SUFFICES ASSUME NEW r \in Representatives
               PROVE  \E e \in EvidenceBlock : e.class = BelievedType(r)
    OBVIOUS
  <2> DEFINE e == [line |-> Line(r, Representatives), class |-> BelievedType(r),
                   patch |-> history[r].patch, case |-> history[r].case]
  <2>1. e \in EvidenceBlock
    BY DEF EvidenceBlock
  <2>2. e.class = BelievedType(r)
    OBVIOUS
  <2> QED  BY <2>1, <2>2
<1>5. {e.class : e \in EvidenceBlock} = {BelievedType(i) : i \in Refuted}
  BY <1>1, <1>2, <1>3, <1>4, RepresentativeOfClass
<1>6. ASSUME NEW e \in EvidenceBlock, NEW f \in EvidenceBlock
      PROVE  /\ e.class = f.class \/ e.line = f.line => e = f
             /\ Guarding /\ e.case = f.case => e = f
  <2>1. PICK i \in Representatives :
          e = [line |-> Line(i, Representatives), class |-> BelievedType(i),
               patch |-> history[i].patch, case |-> history[i].case]
    BY <1>3
  <2>2. PICK j \in Representatives :
          f = [line |-> Line(j, Representatives), class |-> BelievedType(j),
               patch |-> history[j].patch, case |-> history[j].case]
    BY <1>3
  <2>3. BelievedType(i) = BelievedType(j) => i = j
    <3>1. ~(i < j /\ BelievedType(i) = BelievedType(j)) /\ ~(j < i /\ BelievedType(i) = BelievedType(j))
      BY DEF Representatives
    <3> QED  BY <1>1, <1>2, <3>1
  <2>4. Line(i, Representatives) = Line(j, Representatives) => i = j
    BY <1>1, <1>2, LinesAreDistinct
  <2>5. Guarding /\ history[i].case = history[j].case => i = j
    BY <1>2 DEF DistinctIInv, RefutationsDistinct
  <2> QED  BY <2>1, <2>2, <2>3, <2>4, <2>5
<1> QED  BY <1>5, <1>6 DEF PromptCoversMemory

(* _evidence_block shows all of what memory believes, and nothing twice.   *)
THEOREM PromptShowsEachClassOnce == Spec => []PromptCoversMemory
  BY DistinctInvariant, PromptCovers, PTL

-----------------------------------------------------------------------------
(* type_repeats, the older redundancy count, never exceeds the one that    *)
(* replaced it: a repeat of an unguarded round's own type is a repeat of a *)
(* type some earlier draw had, under every index of other arms' types.     *)
THEOREM OlderCountIsSmaller ==
  ASSUME NEW log, NEW index
  PROVE  TypeRepeats(log) \subseteq Redundant(log, index)
<1>1. \A row : /\ TypeOf(row, {}) = OwnType(row)
               /\ OwnType(row) # None => TypeOf(row, index) = OwnType(row)
  BY DEF TypeOf
<1>2. \A k \in Typed(log, {}) :
        k \in Typed(log, index) /\ TypeOf(log[k], index) = OwnType(log[k])
  BY <1>1 DEF Typed
<1> QED  BY <1>2 DEF TypeRepeats, Redundant

=============================================================================
