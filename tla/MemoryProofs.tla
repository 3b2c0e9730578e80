---------------------------- MODULE MemoryProofs ----------------------------
(***************************************************************************)
(* Theorems about the refutation memory, for every pool, set of patches,   *)
(* mode and typing.                                                        *)
(***************************************************************************)
EXTENDS Memory, TLAPS, WellFoundedInduction

(* A nonempty set of naturals has a least element.                         *)
LEMMA LeastNatural ==
  ASSUME NEW T, T \subseteq Nat, T # {}
  PROVE  \E m \in T : \A n \in T : m <= n
<1> DEFINE Less == {ss \in Nat \X Nat : ss[1] < ss[2]}
<1>1. IsWellFoundedOn(Less, Nat)
  BY NatLessThanWellFounded DEF OpToRel
<1>2. \E m \in T : \A n \in T : ~(<<n, m>> \in Less)
  <2> HIDE DEF Less
  <2> QED  BY <1>1, WFMin
<1>3. \A m, n \in Nat : ~(<<n, m>> \in Less) => m <= n
  OBVIOUS
<1> QED  BY <1>2, <1>3

-----------------------------------------------------------------------------
(* The inductive invariant: seen holds the locations refutations were      *)
(* filed under, which is what ties c = 0 to a single bucket.               *)
SeenIsFiled ==
  Mode = "typed" => seen = {history[i].location : i \in Refuted}

MemIInv ==
  /\ MemTypeOK
  /\ SteerAndGuardAgree
  /\ TruthRecoverable
  /\ SeenIsFiled
  /\ CoherenceZeroIsOneBucket

LEMMA TrueLocationType == \A p \in Patch : TrueLocation(p) \in Location
  BY MemoryAssumption DEF TrueLocation

(* store files a refutation under a location, whatever the typing.         *)
LEMMA FilingType ==
  ASSUME MemTypeOK, NEW p \in Patch
  PROVE  FilingLocations(TrueLocation(p)) \subseteq Location
  BY TrueLocationType, MemoryAssumption DEF FilingLocations, Elsewhere, MemTypeOK

(* What appending an attempt does to the set of refuted positions.         *)
LEMMA AppendRefuted ==
  ASSUME history \in Seq(Attempt), NEW a \in Attempt, history' = Append(history, a)
  PROVE  /\ history' \in Seq(Attempt)
         /\ \A i \in DOMAIN history : i \in DOMAIN history' /\ history'[i] = history[i]
         /\ Len(history) + 1 \in Nat \ DOMAIN history
         /\ history'[Len(history) + 1] = a
         /\ Refuted' = IF a.accept THEN Refuted ELSE Refuted \cup {Len(history) + 1}
         /\ Refuted \subseteq DOMAIN history
<1>1. DOMAIN history = 1..Len(history) /\ Len(history) \in Nat
  OBVIOUS
<1>2. DOMAIN history' = 1..(Len(history) + 1)
  OBVIOUS
<1>3. /\ history' \in Seq(Attempt)
      /\ history'[Len(history) + 1] = a
      /\ \A i \in DOMAIN history : i \in DOMAIN history' /\ history'[i] = history[i]
  BY <1>1, <1>2
<1> QED  BY <1>1, <1>2, <1>3 DEF Refuted

LEMMA FiledType ==
  ASSUME NEW p \in Patch, NEW c \in Case, NEW l \in Location
  PROVE  Filed(p, c, l) \in Attempt
  BY TrueLocationType DEF Filed, Attempt

LEMMA MemInitIInv == MemInit => MemIInv
<1> SUFFICES ASSUME MemInit PROVE MemIInv
  OBVIOUS
<1>1. Refuted = {}
  BY DEF MemInit, Refuted
<1>2. MemTypeOK
  BY <1>1 DEF MemInit, MemTypeOK
<1> QED
  BY <1>1, <1>2 DEF MemInit, MemIInv, SteerAndGuardAgree, TruthRecoverable,
     SeenIsFiled, CoherenceZeroIsOneBucket

(* Storing a refutation keeps the invariant, in any mode.                  *)
LEMMA StoreRefutedIInv ==
  ASSUME MemIInv, NEW p \in Patch, NEW c \in Fails[p], StoreRefuted(p, c)
  PROVE  MemIInv'
<1> DEFINE n == Len(history) + 1
<1>0. c \in Case
  BY OracleAssumption
<1>1. PICK l \in Location :
        /\ history' = Append(history, Filed(p, c, l))
        /\ Mode = "typed" => /\ l \in FilingLocations(TrueLocation(p))
                             /\ byLocation' = [byLocation EXCEPT ![l] = @ \cup {n}]
                             /\ seen' = seen \cup {l}
        /\ Mode # "typed" => UNCHANGED <<byLocation, seen>>
  BY FilingType, TrueLocationType DEF StoreRefuted, MemIInv
<1>2. Filed(p, c, l) \in Attempt /\ ~Filed(p, c, l).accept
  BY <1>0, FiledType DEF Filed
<1>3. /\ history' \in Seq(Attempt)
      /\ \A i \in DOMAIN history : history'[i] = history[i]
      /\ n \in Nat \ DOMAIN history
      /\ history'[n] = Filed(p, c, l)
      /\ Refuted' = Refuted \cup {n}
      /\ Refuted \subseteq DOMAIN history
  BY <1>1, <1>2, AppendRefuted DEF MemIInv, MemTypeOK
<1> HIDE DEF n
<1>4. MemTypeOK'
  <2>1. byLocation' \in [Location -> SUBSET Nat] /\ seen' \subseteq Location
    BY <1>1, <1>3 DEF MemIInv, MemTypeOK
  <2>2. \A i \in Refuted' : history'[i].case \in Fails[history'[i].patch]
                         /\ history'[i].location \in Location
    BY <1>3 DEF MemIInv, MemTypeOK, Filed
  <2> QED  BY <1>3, <2>1, <2>2 DEF MemTypeOK
<1>5. SteerAndGuardAgree'
  <2> SUFFICES ASSUME Mode = "typed", NEW k \in Location
               PROVE  byLocation'[k] = {i \in Refuted' : history'[i].location = k}
    BY DEF SteerAndGuardAgree
  <2>1. byLocation[k] = {i \in Refuted : history[i].location = k}
    BY DEF MemIInv, SteerAndGuardAgree
  <2>2. history'[n].location = l
    BY <1>3 DEF Filed
  <2>3. byLocation'[k] = IF k = l THEN byLocation[k] \cup {n} ELSE byLocation[k]
    BY <1>1 DEF MemIInv, MemTypeOK
  <2> QED  BY <1>3, <2>1, <2>2, <2>3
<1>6. TruthRecoverable'
  BY <1>3, MemoryAssumption, TrueLocationType
  DEF MemIInv, TruthRecoverable, Filed, TrueLocation
<1>7. SeenIsFiled'
  <2> SUFFICES ASSUME Mode = "typed"
               PROVE  seen' = {history'[i].location : i \in Refuted'}
    BY DEF SeenIsFiled
  <2>1. history'[n].location = l
    BY <1>3 DEF Filed
  <2>2. {history'[i].location : i \in Refuted'} = {history[i].location : i \in Refuted} \cup {l}
    BY <1>3, <2>1
  <2> QED  BY <1>1, <2>2 DEF MemIInv, SeenIsFiled
<1>8. CoherenceZeroIsOneBucket'
  <2> SUFFICES ASSUME Mode = "typed", Typing = "never", NEW i \in Refuted', NEW j \in Refuted'
               PROVE  history'[i].location = history'[j].location
    BY DEF CoherenceZeroIsOneBucket
  <2>1. \A k \in Refuted : history'[k].location \in seen
    BY <1>3 DEF MemIInv, SeenIsFiled
  <2>2. \A x, y \in seen : x = y
    BY DEF MemIInv, SeenIsFiled, CoherenceZeroIsOneBucket
  <2>3. seen # {} => l \in seen
    BY <1>1, <2>2 DEF FilingLocations, Elsewhere
  <2>4. history'[n].location = l
    BY <1>3 DEF Filed
  <2> QED  BY <1>3, <2>1, <2>2, <2>3, <2>4
<1> QED  BY <1>4, <1>5, <1>6, <1>7, <1>8 DEF MemIInv

(* Storing an accepted attempt keeps it too: it is in history and nowhere  *)
(* else.                                                                   *)
LEMMA StoreAcceptedIInv ==
  ASSUME MemIInv, NEW p \in Patch, StoreAccepted(p)
  PROVE  MemIInv'
<1> DEFINE a == [patch |-> p, accept |-> TRUE, case |-> None,
                 location |-> None, mistyped |-> None]
<1>1. a \in Attempt /\ a.accept
  BY DEF Attempt
<1>2. history' = Append(history, a) /\ UNCHANGED <<byLocation, seen>>
  BY DEF StoreAccepted
<1> HIDE DEF a
<1>3. /\ history' \in Seq(Attempt)
      /\ \A i \in DOMAIN history : history'[i] = history[i]
      /\ Refuted' = Refuted
      /\ Refuted \subseteq DOMAIN history
  BY <1>1, <1>2, AppendRefuted DEF MemIInv, MemTypeOK
<1>4. MemTypeOK'
  BY <1>2, <1>3 DEF MemIInv, MemTypeOK
<1>5. SteerAndGuardAgree'
  BY <1>2, <1>3 DEF MemIInv, SteerAndGuardAgree
<1>6. TruthRecoverable' /\ SeenIsFiled' /\ CoherenceZeroIsOneBucket'
  BY <1>2, <1>3
  DEF MemIInv, TruthRecoverable, SeenIsFiled, CoherenceZeroIsOneBucket, TrueLocation
<1> QED  BY <1>4, <1>5, <1>6 DEF MemIInv

LEMMA MemNextIInv == MemIInv /\ [MemNext]_memVars => MemIInv'
<1> SUFFICES ASSUME MemIInv, [MemNext]_memVars PROVE MemIInv'
  OBVIOUS
<1>1. CASE MemNext
  BY <1>1, StoreRefutedIInv, StoreAcceptedIInv DEF MemNext
<1>2. CASE UNCHANGED memVars
  BY <1>2 DEF memVars, MemIInv, MemTypeOK, SteerAndGuardAgree, TruthRecoverable,
     SeenIsFiled, CoherenceZeroIsOneBucket, Refuted, TrueLocation
<1> QED  BY <1>1, <1>2

THEOREM MemoryInvariant == MemSpec => []MemIInv
  BY MemInitIInv, MemNextIInv, PTL DEF MemSpec

(* steer and guard always see the same, recoverable, attribution.          *)
THEOREM AttributionShared == MemSpec => [](SteerAndGuardAgree /\ TruthRecoverable)
<1>1. MemIInv => SteerAndGuardAgree /\ TruthRecoverable
  BY DEF MemIInv
<1> QED  BY <1>1, MemoryInvariant, PTL

(* At c = 0 the typed memory has a single bucket, for every task.          *)
THEOREM CoherenceZeroCollapses == MemSpec => []CoherenceZeroIsOneBucket
<1>1. MemIInv => CoherenceZeroIsOneBucket
  BY DEF MemIInv
<1> QED  BY <1>1, MemoryInvariant, PTL

-----------------------------------------------------------------------------
(* guard's order of the stored attempts is total, and any of them have a   *)
(* first one.                                                              *)
LEMMA GuardOrder ==
  ASSUME NEW p, NEW i \in Nat, NEW j \in Nat, NEW k \in Nat
  PROVE  /\ ~Before(p, i, i)
         /\ i # j => Before(p, i, j) \/ Before(p, j, i)
         /\ Before(p, i, j) /\ Before(p, j, k) => Before(p, i, k)
  BY DEF Before

LEMMA FirstInOrder ==
  ASSUME NEW p, NEW F, F \subseteq Nat, F # {}
  PROVE  \E m \in F : \A j \in F : ~Before(p, j, m)
<1>1. CASE F \cap Bucket(p) # {}
  <2>1. PICK m \in F \cap Bucket(p) : \A j \in F \cap Bucket(p) : m <= j
    BY <1>1, LeastNatural, F \cap Bucket(p) \subseteq Nat
  <2> QED  BY <2>1 DEF Before
<1>2. CASE F \cap Bucket(p) = {}
  <2>1. PICK m \in F : \A j \in F : m <= j
    BY LeastNatural
  <2> QED  BY <1>2, <2>1 DEF Before
<1> QED  BY <1>1, <1>2

(* Every search order guard uses has a first refuting entry, and that      *)
(* entry is never one the deduplication skipped: this is why an index over *)
(* an arbitrary, even deliberately wrong, partition loses no recall.  The  *)
(* bucket goes first, so a refuting entry in it is blocked from inside it. *)
LEMMA FirstRefutingEntry ==
  ASSUME NEW p \in Patch, Searched(p) \subseteq Nat,
         NEW i \in Searched(p), StillRefutes(i, p)
  PROVE  \E m \in Blockers(p) : i \in Bucket(p) => m \in Bucket(p)
<1> DEFINE F == {j \in Searched(p) : StillRefutes(j, p)}
<1>1. PICK m \in F : \A j \in F : ~Before(p, j, m)
  <2> F \subseteq Nat /\ F # {}
    OBVIOUS
  <2> HIDE DEF F
  <2> QED  BY FirstInOrder
<1>2. m \in Consulted(p)
  BY <1>1 DEF Consulted, StillRefutes
<1>3. \A j \in Consulted(p) : StillRefutes(j, p) => j \in F
  BY DEF Consulted
<1>4. m \in Blockers(p)
  BY <1>1, <1>2, <1>3 DEF Blockers
<1>5. i \in Bucket(p) => m \in Bucket(p)
  BY <1>1 DEF Before
<1> QED  BY <1>4, <1>5

(* What a guard can search is what was refuted.                            *)
LEMMA SearchedIsRefuted ==
  ASSUME MemIInv, NEW p \in Patch
  PROVE  /\ Searched(p) \subseteq Refuted
         /\ Refuted \subseteq Nat
         /\ Mode # "no_memory" /\ (Mode = "typed" => GuardFallback) => Searched(p) = Refuted
<1>1. Bucket(p) \subseteq Refuted
  BY TrueLocationType DEF MemIInv, SteerAndGuardAgree, Bucket
<1>2. Refuted \subseteq Nat
  BY DEF Refuted, MemIInv, MemTypeOK
<1> QED  BY <1>1, <1>2, MemoryAssumption DEF Searched

LEMMA GuardRecallHolds == MemIInv => GuardRecall
<1> SUFFICES ASSUME MemIInv, Mode # "no_memory", Mode = "typed" => GuardFallback,
                    NEW p \in Patch
             PROVE  Blocked(p) <=> \E i \in Refuted : history[i].case \in Fails[p]
  BY DEF GuardRecall
<1>1. Searched(p) = Refuted /\ Refuted \subseteq Nat
  BY SearchedIsRefuted
<1>2. Blocked(p) => \E i \in Refuted : history[i].case \in Fails[p]
  BY <1>1 DEF Blocked, Blockers, Consulted, StillRefutes
<1>3. (\E i \in Refuted : history[i].case \in Fails[p]) => Blocked(p)
  BY <1>1, FirstRefutingEntry DEF StillRefutes, Blocked
<1> QED  BY <1>2, <1>3

(* With the fallback, the typed guard and the flat scan block exactly the  *)
(* same candidates.                                                        *)
THEOREM IndexLosesNoRecall == MemSpec => []GuardRecall
  BY GuardRecallHolds, MemoryInvariant, PTL

-----------------------------------------------------------------------------
(* The bucket guard looks in first is the class the proposer is shown, and *)
(* an entry of it that refutes the candidate is never beaten by one from   *)
(* the rest of memory.                                                     *)
LEMMA CoherenceMeasuredHolds == MemIInv => CoherenceMeasured
<1> SUFFICES ASSUME MemIInv, Mode = "typed", NEW p \in Patch
             PROVE  LET sameClass == {i \in Refuted : history[i].location = TrueLocation(p)}
                    IN  /\ BucketHit(p) <=> sameClass # {}
                        /\ BucketHitRefuted(p) <=>
                              \E i \in sameClass : history[i].case \in Fails[p]
  BY DEF CoherenceMeasured
<1> DEFINE sameClass == {i \in Refuted : history[i].location = TrueLocation(p)}
<1>1. Bucket(p) = sameClass
  BY TrueLocationType DEF Bucket, MemIInv, SteerAndGuardAgree
<1>2. Bucket(p) \subseteq Searched(p) /\ Searched(p) \subseteq Nat
  BY SearchedIsRefuted DEF Searched
<1> HIDE DEF sameClass
<1>3. BucketHitRefuted(p) => \E i \in sameClass : history[i].case \in Fails[p]
  BY <1>1 DEF BucketHitRefuted, Blockers, StillRefutes
<1>4. ASSUME NEW i \in sameClass, history[i].case \in Fails[p]
      PROVE  BucketHitRefuted(p)
  BY <1>1, <1>2, <1>4, FirstRefutingEntry DEF StillRefutes, BucketHitRefuted
<1> QED  BY <1>1, <1>3, <1>4 DEF BucketHit, sameClass

(* The in-situ coherence the rows log is the coherence of the classes the  *)
(* proposer was shown, at every noise level and with or without fallback.  *)
THEOREM CoherenceIsMeasured == MemSpec => []CoherenceMeasured
  BY CoherenceMeasuredHolds, MemoryInvariant, PTL

=============================================================================
