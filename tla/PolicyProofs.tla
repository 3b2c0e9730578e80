---------------------------- MODULE PolicyProofs ----------------------------
(***************************************************************************)
(* Theorems about the replayed policies, for every pool, set of candidates *)
(* and number of rounds: the offline guard is the guard of the study, all  *)
(* policies learn from the same evidence, and kills take back nothing the  *)
(* verdict matrix they read has judged.                                    *)
(***************************************************************************)
EXTENDS Policies, MemoryProofs, FiniteSetTheorems

(* s lists the cases of the attempts I of h, in the order they were first  *)
(* met.                                                                    *)
Follows(h, s, I) ==
  /\ Held(s) = {h[i].case : i \in I}
  /\ \A a, b \in DOMAIN s : a < b =>
       \E i \in I : h[i].case = s[a] /\ \A j \in I : h[j].case = s[b] => i < j

StoresFollow ==
  /\ store = gstore /\ gstore \in Seq(Case) /\ buckets \in [Location -> Seq(Case)]
  /\ Follows(history, gstore, Refuted)
  /\ \A l \in Location : Follows(history, buckets[l], byLocation[l])

(* How often a case has killed: bounded by the rounds, and on the whole    *)
(* pool counted exactly for the cases the guards have stored.              *)
Count(k) == k \in [Case -> Nat] /\ \A c \in Case : k[c] <= rounds

KillsCounted ==
  /\ rounds \in 0..MaxRounds
  /\ Count(kill) /\ Count(vkill)
  /\ killAt \in [Location -> [Case -> Nat]] /\ \A l \in Location : Count(killAt[l])
  /\ \A l \in Location, c \in Case : killAt[l][c] > 0 => vkill[c] > 0

StoredAreKillers ==
  WholePool =>
    \A c \in Case : (c \in Held(gstore) <=> kill[c] > 0) /\ (c \in Held(gstore) <=> vkill[c] > 0)

PolicyIInv == MemIInv /\ StoresFollow /\ KillsCounted /\ StoredAreKillers

-----------------------------------------------------------------------------
(* What the module's assumptions say of a candidate.                       *)
LEMMA CandidateFacts ==
  ASSUME NEW p \in Patch
  PROVE  /\ Fails[p] \subseteq Case /\ Case \subseteq Nat /\ None \notin Case
         /\ EditLocation[p] \in Location
         /\ TrueLocation(p) = EditLocation[p]
         /\ FilingLocations(TrueLocation(p)) = {EditLocation[p]}
         /\ Bucket(p) = byLocation[EditLocation[p]]
<1>1. Fails[p] \subseteq Case /\ Case \subseteq Nat /\ None \notin Case
  BY OracleAssumption
<1>2. EditLocation[p] \in Location
  BY MemoryAssumption
<1>3. TrueLocation(p) = EditLocation[p]
  BY PolicyAssumption DEF TrueLocation
<1>4. FilingLocations(TrueLocation(p)) = {EditLocation[p]}
  BY <1>3, PolicyAssumption DEF FilingLocations
<1>5. Bucket(p) = byLocation[EditLocation[p]]
  BY <1>3, PolicyAssumption DEF Bucket
<1> QED  BY <1>1, <1>2, <1>3, <1>4, <1>5

LEMMA BucketsAreRefuted ==
  ASSUME MemIInv
  PROVE  /\ Refuted \subseteq Nat /\ Refuted \subseteq DOMAIN history /\ IsFiniteSet(Refuted)
         /\ \A l \in Location : byLocation[l] \subseteq Refuted
<1>1. history \in Seq(Attempt) /\ Refuted \subseteq DOMAIN history
  BY DEF MemIInv, MemTypeOK, Refuted
<1>2. DOMAIN history = 1..Len(history) /\ Len(history) \in Nat
  BY <1>1
<1>3. IsFiniteSet(Refuted)
  <2> IsFiniteSet(1..Len(history))
    BY <1>2, FS_Interval
  <2> QED  BY <1>1, <1>2, FS_Subset
<1>4. \A l \in Location : byLocation[l] \subseteq Refuted
  BY PolicyAssumption DEF MemIInv, SteerAndGuardAgree
<1> QED  BY <1>1, <1>2, <1>3, <1>4

(* A list that follows attempts holds no case twice, and orders two cases  *)
(* as their first attempts.                                                *)
LEMMA FollowsOnce ==
  ASSUME NEW s \in Seq(Case), NEW I, I \subseteq Nat, Follows(history, s, I),
         NEW a \in DOMAIN s, NEW b \in DOMAIN s, s[a] = s[b]
  PROVE  a = b
<1>1. a \in Nat /\ b \in Nat
  OBVIOUS
<1>2. ASSUME NEW x \in DOMAIN s, NEW y \in DOMAIN s, x < y, s[x] = s[y]
      PROVE  FALSE
  <2>1. PICK i \in I : history[i].case = s[x] /\ \A j \in I : history[j].case = s[y] => i < j
    BY <1>2 DEF Follows
  <2> QED  BY <1>2, <2>1
<1> QED  BY <1>1, <1>2

LEMMA FollowsOrder ==
  ASSUME NEW s \in Seq(Case), NEW I, I \subseteq Nat, Follows(history, s, I),
         NEW i \in I, \A k \in I : history[k].case = history[i].case => i <= k,
         NEW j \in I, \A k \in I : history[k].case = history[j].case => j <= k
  PROVE  Earlier(s, history[i].case, history[j].case) <=> i < j
<1>1. ASSUME NEW a \in DOMAIN s, NEW b \in DOMAIN s, a < b,
             NEW x \in I, \A k \in I : history[k].case = history[x].case => x <= k,
             NEW y \in I, s[a] = history[x].case, s[b] = history[y].case
      PROVE  x < y
  <2>1. PICK k \in I : history[k].case = s[a] /\ \A m \in I : history[m].case = s[b] => k < m
    BY <1>1 DEF Follows
  <2>2. x <= k /\ k < y
    BY <1>1, <2>1
  <2> QED  BY <2>2
<1>2. Earlier(s, history[i].case, history[j].case) => i < j
  BY <1>1 DEF Earlier
<1>3. ASSUME i < j
      PROVE  Earlier(s, history[i].case, history[j].case)
  <2>1. history[i].case \in Held(s) /\ history[j].case \in Held(s)
    BY DEF Follows
  <2>2. PICK a \in DOMAIN s, b \in DOMAIN s : s[a] = history[i].case /\ s[b] = history[j].case
    BY <2>1 DEF Held
  <2>3. a \in Nat /\ b \in Nat
    OBVIOUS
  <2>4. a # b
    BY <1>3, <2>2
  <2>5. ~(b < a)
    <3> SUFFICES ASSUME b < a PROVE FALSE
      OBVIOUS
    <3>1. j < i
      BY <1>1, <2>2
    <3> QED  BY <1>3, <3>1
  <2> QED  BY <2>2, <2>3, <2>4, <2>5 DEF Earlier
<1> QED  BY <1>2, <1>3

-----------------------------------------------------------------------------
(* The two guards side by side.  Both stores hold the same cases, so both  *)
(* block the same candidates.                                              *)
LEMMA SameCases ==
  ASSUME PolicyIInv, NEW p \in Patch
  PROVE  /\ GuardConsult(p) = {history[i].case : i \in Refuted}
         /\ GuardConsult(p) = Held(gstore)
         /\ Held(buckets[EditLocation[p]]) \subseteq Held(gstore)
<1>1. Follows(history, gstore, Refuted) /\ Follows(history, buckets[EditLocation[p]], byLocation[EditLocation[p]])
  BY CandidateFacts DEF PolicyIInv, StoresFollow
<1>2. byLocation[EditLocation[p]] \subseteq Refuted
  BY CandidateFacts, BucketsAreRefuted DEF PolicyIInv
<1> QED  BY <1>1, <1>2 DEF Follows, GuardConsult

LEMMA SameBlocks ==
  ASSUME PolicyIInv, NEW p \in Patch
  PROVE  /\ Blocks(GuardConsult(p), p) <=> Blocked(p)
         /\ Blocks(DedupConsult, p) <=> Blocked(p)
<1>1. Blocked(p) <=> \E i \in Refuted : history[i].case \in Fails[p]
  BY GuardRecallHolds, PolicyAssumption DEF PolicyIInv, GuardRecall
<1>2. Blocks(GuardConsult(p), p) <=> Blocked(p)
  BY <1>1, SameCases DEF Blocks
<1>3. DedupConsult = GuardConsult(p)
  BY SameCases DEF DedupConsult, PolicyIInv, StoresFollow
<1> QED  BY <1>2, <1>3

(* Each case guard runs has one attempt it is run for, the first in its    *)
(* order, and the offline guard runs the cases in the order of those.      *)
LEMMA ConsultedOnce ==
  ASSUME PolicyIInv, NEW p \in Patch
  PROVE  /\ Consulted(p) \subseteq Refuted
         /\ \A i \in Consulted(p), k \in Refuted :
              history[k].case = history[i].case => ~Before(p, k, i)
         /\ \A c \in GuardConsult(p) : \E i \in Consulted(p) : history[i].case = c
<1>1. Searched(p) = Refuted /\ Refuted \subseteq Nat
  BY SearchedIsRefuted, PolicyAssumption DEF PolicyIInv
<1>2. Consulted(p) \subseteq Refuted
  BY <1>1 DEF Consulted
<1>3. \A i \in Consulted(p), k \in Refuted : history[k].case = history[i].case => ~Before(p, k, i)
  BY <1>1, PolicyAssumption DEF Consulted
<1>4. ASSUME NEW c \in GuardConsult(p)
      PROVE  \E i \in Consulted(p) : history[i].case = c
  <2> DEFINE F == {i \in Refuted : history[i].case = c}
  <2>1. F \subseteq Nat /\ F # {}
    <3>1. c \in {history[i].case : i \in Refuted}
      BY SameCases
    <3>2. PICK i \in Refuted : history[i].case = c
      BY <3>1
    <3> QED  BY <1>1, <3>2
  <2>2. PICK i \in F : \A j \in F : ~Before(p, j, i)
    <3> HIDE DEF F
    <3> QED  BY <2>1, FirstInOrder
  <2>3. i \in Consulted(p)
    BY <1>1, <2>2 DEF Consulted
  <2> QED  BY <2>3
<1> QED  BY <1>2, <1>3, <1>4

LEMMA SameOrder ==
  ASSUME PolicyIInv, NEW p \in Patch, NEW i \in Consulted(p), NEW j \in Consulted(p)
  PROVE  Before(p, i, j) <=> GuardEarlier(p, history[i].case, history[j].case)
<1> DEFINE B == byLocation[EditLocation[p]]
           bucket == buckets[EditLocation[p]]
<1>1. B \subseteq Refuted /\ Refuted \subseteq Nat /\ i \in Refuted /\ j \in Refuted /\ Bucket(p) = B
  BY BucketsAreRefuted, CandidateFacts, ConsultedOnce DEF PolicyIInv
<1>2. /\ bucket \in Seq(Case) /\ Follows(history, bucket, B)
      /\ gstore \in Seq(Case) /\ Follows(history, gstore, Refuted)
  BY CandidateFacts DEF PolicyIInv, StoresFollow
<1> HIDE DEF B, bucket
<1>3. ASSUME NEW x \in Consulted(p)
      PROVE  /\ x \in B <=> history[x].case \in Held(bucket)
             /\ x \in B => \A k \in B : history[k].case = history[x].case => x <= k
             /\ x \notin B => \A k \in Refuted : history[k].case = history[x].case => x <= k
  <2>1. \A k \in Refuted : history[k].case = history[x].case => ~Before(p, k, x)
    BY ConsultedOnce
  <2>2. x \in Nat
    BY <1>1, ConsultedOnce
  <2>3. x \in B => history[x].case \in Held(bucket)
    BY <1>2 DEF Follows
  <2>4. ASSUME history[x].case \in Held(bucket), x \notin B
        PROVE  FALSE
    <3>1. PICK k \in B : history[k].case = history[x].case
      BY <1>2, <2>4 DEF Follows
    <3>2. Before(p, k, x)
      BY <1>1, <2>4 DEF Before
    <3> QED  BY <1>1, <2>1, <3>1, <3>2
  <2>5. x \in B => \A k \in B : history[k].case = history[x].case => x <= k
    BY <1>1, <2>1, <2>2 DEF Before
  <2>6. x \notin B => \A k \in Refuted : history[k].case = history[x].case => x <= k
    <3> SUFFICES ASSUME x \notin B, NEW k \in Refuted, history[k].case = history[x].case
                 PROVE  x <= k
      OBVIOUS
    <3>1. k \notin B
      BY <1>1, <2>1 DEF Before
    <3> QED  BY <1>1, <2>1, <2>2, <3>1 DEF Before
  <2> QED  BY <2>3, <2>4, <2>5, <2>6
<1>4. GuardEarlier(p, history[i].case, history[j].case) <=>
        \/ i \in B /\ j \notin B
        \/ Earlier(bucket, history[i].case, history[j].case)
        \/ i \notin B /\ j \notin B /\ Earlier(gstore, history[i].case, history[j].case)
  BY <1>3 DEF GuardEarlier, bucket
<1>5. ~(i \in B /\ j \in B) => ~Earlier(bucket, history[i].case, history[j].case)
  BY <1>3 DEF Earlier, Held
<1>6. CASE i \in B /\ j \in B
  <2>1. Earlier(bucket, history[i].case, history[j].case) <=> i < j
    BY <1>1, <1>2, <1>3, <1>6, FollowsOrder
  <2> QED  BY <1>1, <1>4, <1>6, <2>1 DEF Before
<1>7. CASE i \notin B /\ j \notin B
  <2>1. Earlier(gstore, history[i].case, history[j].case) <=> i < j
    BY <1>1, <1>2, <1>3, <1>7, FollowsOrder
  <2> QED  BY <1>1, <1>4, <1>5, <1>7, <2>1 DEF Before
<1>8. CASE ~(i \in B <=> j \in B)
  BY <1>1, <1>4, <1>5, <1>8 DEF Before
<1> QED  BY <1>6, <1>7, <1>8

(* Up to the first that fires: the attempts guard re-runs, and the cases   *)
(* the offline guard runs.                                                 *)
Rerun(p) == {i \in Consulted(p) : \A b \in Blockers(p) : ~Before(p, b, i)}

GuardRun(p) ==
  {c \in GuardConsult(p) : \A d \in GuardConsult(p) \cap Fails[p] : ~GuardEarlier(p, d, c)}

LEMMA BlockersComeFirst ==
  ASSUME PolicyIInv, NEW p \in Patch, NEW i \in Consulted(p)
  PROVE  i \in Rerun(p) <=> \A j \in Consulted(p) : StillRefutes(j, p) => ~Before(p, j, i)
<1>1. Consulted(p) \subseteq Nat
  BY ConsultedOnce, BucketsAreRefuted DEF PolicyIInv
<1>2. Blockers(p) \subseteq {j \in Consulted(p) : StillRefutes(j, p)}
  BY DEF Blockers
<1>3. ASSUME NEW j \in Consulted(p), StillRefutes(j, p), Before(p, j, i)
      PROVE  \E b \in Blockers(p) : Before(p, b, i)
  <2> DEFINE F == {k \in Consulted(p) : StillRefutes(k, p)}
  <2>1. PICK b \in F : \A k \in F : ~Before(p, k, b)
    <3> F \subseteq Nat /\ F # {}
      BY <1>1, <1>3
    <3> HIDE DEF F
    <3> QED  BY FirstInOrder
  <2>2. b \in Blockers(p)
    BY <2>1 DEF Blockers
  <2>3. b = j \/ Before(p, b, j)
    BY <1>1, <1>3, <2>1, GuardOrder
  <2>4. Before(p, b, i)
    BY <1>1, <1>3, <2>1, <2>3, GuardOrder
  <2> QED  BY <2>2, <2>4
<1> QED  BY <1>2, <1>3 DEF Rerun

LEMMA SameRuns ==
  ASSUME PolicyIInv, NEW p \in Patch
  PROVE  GuardRuns(p) = Evaluations(p)
<1> DEFINE f == [i \in Rerun(p) |-> history[i].case]
<1>1. Consulted(p) \subseteq Refuted /\ Refuted \subseteq Nat /\ IsFiniteSet(Refuted)
  BY ConsultedOnce, BucketsAreRefuted DEF PolicyIInv
<1>2. \A i \in Consulted(p) : history[i].case \in GuardConsult(p)
  BY <1>1, SameCases
<1>3. ASSUME NEW i \in Consulted(p)
      PROVE  i \in Rerun(p) <=> history[i].case \in GuardRun(p)
  <2>1. i \in Rerun(p) <=> \A j \in Consulted(p) : StillRefutes(j, p) => ~Before(p, j, i)
    BY BlockersComeFirst
  <2>2. history[i].case \in GuardRun(p) <=>
          \A d \in GuardConsult(p) : d \in Fails[p] => ~GuardEarlier(p, d, history[i].case)
    BY <1>2 DEF GuardRun
  <2>3. \A j \in Consulted(p) : Before(p, j, i) <=> GuardEarlier(p, history[j].case, history[i].case)
    BY SameOrder
  <2>4. \A d \in GuardConsult(p) : \E j \in Consulted(p) : history[j].case = d
    BY ConsultedOnce
  <2> QED  BY <1>2, <2>1, <2>2, <2>3, <2>4 DEF StillRefutes
<1>4. f \in Injection(Rerun(p), GuardRun(p))
  <2>1. \A i \in Rerun(p) : i \in Consulted(p)
    BY DEF Rerun
  <2>2. f \in [Rerun(p) -> GuardRun(p)]
    BY <1>3, <2>1
  <2>3. ASSUME NEW i \in Rerun(p), NEW j \in Rerun(p), f[i] = f[j]
        PROVE  i = j
    <3>1. history[i].case = history[j].case /\ i \in Consulted(p) /\ j \in Consulted(p)
      BY <2>1, <2>3
    <3>2. ~Before(p, i, j) /\ ~Before(p, j, i)
      BY <1>1, <3>1, ConsultedOnce
    <3> QED  BY <1>1, <3>1, <3>2, GuardOrder
  <2> QED  BY <2>2, <2>3 DEF Injection, IsInjective
<1>5. f \in Surjection(Rerun(p), GuardRun(p))
  <2>1. ASSUME NEW c \in GuardRun(p)
        PROVE  \E i \in Rerun(p) : f[i] = c
    <3>1. PICK i \in Consulted(p) : history[i].case = c
      BY ConsultedOnce DEF GuardRun
    <3> QED  BY <1>3, <3>1
  <2> QED  BY <1>4, <2>1 DEF Injection, Surjection
<1>6. ExistsBijection(Rerun(p), GuardRun(p))
  BY <1>4, <1>5 DEF ExistsBijection, Bijection
<1>7. IsFiniteSet(Rerun(p))
  <2> Rerun(p) \subseteq Refuted
    BY <1>1 DEF Rerun
  <2> QED  BY <1>1, FS_Subset
<1>8. Cardinality(GuardRun(p)) = Cardinality(Rerun(p))
  BY <1>6, <1>7, FS_Bijection
<1> QED  BY <1>8 DEF GuardRuns, GuardRun, Evaluations, Rerun

LEMMA OfflineGuardHolds == PolicyIInv => OfflineGuardIsGuard
  BY SameBlocks, SameRuns DEF OfflineGuardIsGuard

-----------------------------------------------------------------------------
(* What a round does to a list: nothing, or a new case at its end for a    *)
(* new attempt at the end of history.                                      *)
LEMMA ListKept ==
  ASSUME NEW h, NEW g, NEW s, NEW I, I \subseteq DOMAIN h, \A i \in DOMAIN h : g[i] = h[i],
         Follows(h, s, I)
  PROVE  Follows(g, s, I)
<1>1. \A i \in I : g[i] = h[i]
  OBVIOUS
<1>2. {g[i].case : i \in I} = {h[i].case : i \in I}
  BY <1>1
<1> QED  BY <1>1, <1>2 DEF Follows

LEMMA ListGrows ==
  ASSUME NEW s \in Seq(Case), NEW I, Follows(history, s, I), I \subseteq DOMAIN history,
         \A i \in DOMAIN history : history'[i] = history[i],
         NEW n \in Nat, \A i \in I : i \in Nat /\ i < n,
         NEW c \in Case, history'[n].case = c, c \notin Held(s)
  PROVE  /\ Added(s, c) \in Seq(Case)
         /\ Held(Added(s, c)) = Held(s) \cup {c}
         /\ Follows(history', Added(s, c), I \cup {n})
<1> DEFINE t == Append(s, c)
<1>1. Added(s, c) = t /\ t \in Seq(Case) /\ Len(s) \in Nat
  BY DEF Added
<1>2. DOMAIN s = 1..Len(s) /\ DOMAIN t = 1..(Len(s) + 1)
  OBVIOUS
<1>3. t[Len(s) + 1] = c /\ \A a \in DOMAIN s : t[a] = s[a]
  BY <1>2
<1> HIDE DEF t
<1>4. \A i \in I : history'[i] = history[i]
  OBVIOUS
<1>5. Held(t) = Held(s) \cup {c}
  BY <1>1, <1>2, <1>3 DEF Held
<1>6. {history'[i].case : i \in I \cup {n}} = {history[i].case : i \in I} \cup {c}
  BY <1>4
<1>7. ASSUME NEW a \in DOMAIN t, NEW b \in DOMAIN t, a < b
      PROVE  \E i \in I \cup {n} :
               history'[i].case = t[a] /\ \A j \in I \cup {n} : history'[j].case = t[b] => i < j
  <2>1. a \in DOMAIN s /\ t[a] = s[a]
    BY <1>1, <1>2, <1>3, <1>7
  <2>2. CASE b \in DOMAIN s
    <3>1. PICK i \in I : history[i].case = s[a] /\ \A j \in I : history[j].case = s[b] => i < j
      BY <1>7, <2>1, <2>2 DEF Follows
    <3>2. t[b] = s[b] /\ s[b] # c
      BY <1>3, <2>2 DEF Held
    <3> QED  BY <1>4, <2>1, <3>1, <3>2
  <2>3. CASE b = Len(s) + 1
    <3>1. s[a] \in {history[i].case : i \in I}
      BY <2>1 DEF Follows, Held
    <3>2. PICK i \in I : history[i].case = s[a]
      BY <3>1
    <3>3. \A j \in I : history'[j].case # c
      BY <1>4 DEF Follows
    <3> QED  BY <1>3, <1>4, <2>1, <2>3, <3>2, <3>3
  <2> QED  BY <1>1, <1>2, <2>2, <2>3
<1> QED  BY <1>1, <1>5, <1>6, <1>7 DEF Follows

-----------------------------------------------------------------------------
(* The classical policies' orders have a first failing case.               *)
LEMMA MostKills ==
  ASSUME NEW F, F \subseteq Case, F # {}, rounds \in Nat, NEW k, Count(k)
  PROVE  \E c \in F : \A d \in F : k[d] <= k[c]
<1> DEFINE Gaps == {g \in Nat : \E c \in F : g = rounds - k[c]}
<1>1. \A c \in F : k[c] \in Nat /\ k[c] <= rounds /\ rounds - k[c] \in Gaps
  BY DEF Count
<1>2. PICK g \in Gaps : \A m \in Gaps : g <= m
  <2> Gaps \subseteq Nat /\ Gaps # {}
    BY <1>1
  <2> HIDE DEF Gaps
  <2> QED  BY LeastNatural
<1>3. PICK c \in F : g = rounds - k[c]
  OBVIOUS
<1>4. ASSUME NEW d \in F
      PROVE  k[d] <= k[c]
  <2>1. g <= rounds - k[d]
    BY <1>1, <1>2
  <2> QED  BY <1>1, <1>3, <2>1
<1> QED  BY <1>4

LEMMA FirstByKills ==
  ASSUME NEW F, F \subseteq Case, F # {}, rounds \in Nat, NEW k, Count(k)
  PROVE  \E c \in F : \A d \in F \ {c} : ByKills(k, c, d)
<1>1. PICK x \in F : \A d \in F : k[d] <= k[x]
  BY MostKills
<1> DEFINE T == {c \in F : k[c] = k[x]}
<1>2. PICK c \in T : \A d \in T : c <= d
  <2> T \subseteq Nat /\ T # {}
    BY <1>1, OracleAssumption
  <2> HIDE DEF T
  <2> QED  BY LeastNatural
<1>3. ASSUME NEW d \in F \ {c}
      PROVE  ByKills(k, c, d)
  <2>1. c \in Nat /\ d \in Nat /\ k[c] \in Nat /\ k[d] \in Nat /\ k[d] <= k[c]
    BY <1>1, <1>2, OracleAssumption DEF Count
  <2>2. k[d] = k[c] => c <= d
    BY <1>2
  <2> QED  BY <2>1, <2>2 DEF ByKills
<1> QED  BY <1>2, <1>3

LEMMA QiHitIsFirst ==
  ASSUME PolicyIInv, NEW p \in Patch, Fails[p] # {}
  PROVE  /\ QiHit(p) \in Fails[p]
         /\ \A d \in Fails[p] \ {QiHit(p)} : ByKills(kill, QiHit(p), d)
<1>1. rounds \in Nat /\ Count(kill) /\ Fails[p] \subseteq Case
  BY CandidateFacts, PolicyAssumption DEF PolicyIInv, KillsCounted
<1>2. \E c \in Fails[p] : \A d \in Fails[p] \ {c} : ByKills(kill, c, d)
  BY <1>1, FirstByKills
<1> QED  BY <1>2 DEF QiHit, QiEarlier

LEMMA VenugopalHitIsFirst ==
  ASSUME PolicyIInv, NEW p \in Patch, Fails[p] # {}
  PROVE  /\ VenugopalHit(p) \in Fails[p]
         /\ \A d \in Fails[p] \ {VenugopalHit(p)} :
              VenugopalEarlier(EditLocation[p], VenugopalHit(p), d)
<1> DEFINE l == EditLocation[p]
<1>1. /\ rounds \in Nat /\ Count(vkill) /\ Count(killAt[l])
      /\ Fails[p] \subseteq Case /\ l \in Location
  BY CandidateFacts, PolicyAssumption DEF PolicyIInv, KillsCounted
<1> HIDE DEF l
<1>2. PICK x \in Fails[p] : \A d \in Fails[p] : killAt[l][d] <= killAt[l][x]
  BY <1>1, MostKills
<1> DEFINE T == {c \in Fails[p] : killAt[l][c] = killAt[l][x]}
<1>3. PICK c \in T : \A d \in T \ {c} : ByKills(vkill, c, d)
  <2> T \subseteq Case /\ T # {}
    BY <1>1, <1>2
  <2> HIDE DEF T
  <2> QED  BY <1>1, FirstByKills
<1>4. ASSUME NEW d \in Fails[p] \ {c}
      PROVE  VenugopalEarlier(l, c, d)
  <2>1. /\ killAt[l][d] <= killAt[l][c]
        /\ killAt[l][c] \in Nat /\ killAt[l][d] \in Nat
    BY <1>1, <1>2, <1>3 DEF Count
  <2>2. killAt[l][d] = killAt[l][c] => ByKills(vkill, c, d)
    BY <1>3
  <2> QED  BY <2>1, <2>2 DEF VenugopalEarlier
<1>5. \E y \in Fails[p] : \A d \in Fails[p] \ {y} : VenugopalEarlier(l, y, d)
  BY <1>3, <1>4
<1> QED  BY <1>5 DEF VenugopalHit, l

LEMMA SuiteRoundCounts ==
  ASSUME PolicyIInv, NEW p \in Patch, SuiteRound(p), rounds < MaxRounds, rounds' = rounds + 1
  PROVE  KillsCounted'
<1>1. /\ rounds \in Nat /\ MaxRounds \in Nat /\ Count(kill) /\ Count(vkill)
      /\ killAt \in [Location -> [Case -> Nat]] /\ \A l \in Location : Count(killAt[l])
      /\ \A l \in Location, c \in Case : killAt[l][c] > 0 => vkill[c] > 0
  BY PolicyAssumption DEF PolicyIInv, KillsCounted
<1>2. rounds' \in 0..MaxRounds
  BY <1>1
<1>3. CASE Fails[p] = {}
  <2>1. UNCHANGED <<kill, vkill, killAt>>
    BY <1>3 DEF SuiteRound
  <2> QED  BY <1>1, <1>2, <2>1 DEF KillsCounted, Count
<1>4. CASE Fails[p] # {}
  <2> DEFINE q == QiHit(p)
             v == VenugopalHit(p)
             l == EditLocation[p]
  <2>1. q \in Case /\ v \in Case /\ l \in Location
    BY <1>4, QiHitIsFirst, VenugopalHitIsFirst, CandidateFacts
  <2>2. /\ kill' = [kill EXCEPT ![q] = @ + 1]
        /\ vkill' = [vkill EXCEPT ![v] = @ + 1]
        /\ killAt' = [killAt EXCEPT ![l][v] = @ + 1]
    BY <1>4 DEF SuiteRound
  <2> HIDE DEF q, v, l
  <2>3. Count(kill)' /\ Count(vkill)'
    BY <1>1, <2>1, <2>2 DEF Count
  <2>4. \A m \in Location, c \in Case :
          killAt'[m][c] = IF m = l /\ c = v THEN killAt[m][c] + 1 ELSE killAt[m][c]
    BY <1>1, <2>1, <2>2
  <2>5. killAt' \in [Location -> [Case -> Nat]]
    BY <1>1, <2>1, <2>2
  <2>6. \A m \in Location, c \in Case : killAt'[m][c] <= rounds'
    BY <1>1, <2>4 DEF Count
  <2>7. \A m \in Location, c \in Case : killAt'[m][c] > 0 => vkill'[c] > 0
    BY <1>1, <2>1, <2>2, <2>4 DEF Count
  <2> QED  BY <1>2, <2>3, <2>5, <2>6, <2>7 DEF KillsCounted, Count
<1> QED  BY <1>3, <1>4

(* On the whole pool the first case to separate is the one all policies    *)
(* learn from, unless the guards already had a case that fires.            *)
LEMMA HitFacts ==
  ASSUME PolicyIInv, NEW p \in Patch, NEW S \in PolicyDraws, NEW hit \in Hits(p, S)
  PROVE  /\ hit # None => hit \in Fails[p] /\ hit \in Case
         /\ WholePool /\ Fails[p] # {} => hit \in Fails[p] /\ \A d \in Fails[p] : hit <= d
<1>1. Fails[p] \subseteq Case
  BY CandidateFacts
<1>2. WholePool => S = Case
  BY DEF PolicyDraws
<1> QED  BY <1>1, <1>2 DEF Hits

LEMMA SameEvidenceHolds == PolicyIInv => SameEvidence
  BY DEF PolicyIInv, StoresFollow, StoredAreKillers, SameEvidence

(* What a round does to the guards' stores and to memory.                  *)
LEMMA RoundStores ==
  ASSUME PolicyIInv, NEW p \in Patch, NEW S \in PolicyDraws, NEW hit \in Hits(p, S),
         DedupRound(p, hit), GuardRound(p, hit), MemoryRound(p, hit)
  PROVE  /\ MemIInv' /\ StoresFollow'
         /\ Held(gstore') = IF Blocked(p) \/ hit = None THEN Held(gstore)
                            ELSE Held(gstore) \cup {hit}
<1> DEFINE l == EditLocation[p]
           n == Len(history) + 1
<1>1. /\ hit # None => hit \in Fails[p] /\ hit \in Case
      /\ l \in Location /\ TrueLocation(p) = l /\ FilingLocations(TrueLocation(p)) = {l}
      /\ Fails[p] \subseteq Case
  BY HitFacts, CandidateFacts
<1>2. /\ store = gstore /\ gstore \in Seq(Case) /\ buckets \in [Location -> Seq(Case)]
      /\ Follows(history, gstore, Refuted)
      /\ \A m \in Location : Follows(history, buckets[m], byLocation[m])
  BY DEF PolicyIInv, StoresFollow
<1>3. /\ history \in Seq(Attempt) /\ byLocation \in [Location -> SUBSET Nat]
      /\ Refuted \subseteq DOMAIN history /\ Refuted \subseteq Nat
      /\ \A m \in Location : byLocation[m] \subseteq Refuted
  BY BucketsAreRefuted DEF PolicyIInv, MemIInv, MemTypeOK
<1>4. (Blocks(GuardConsult(p), p) <=> Blocked(p)) /\ (Blocks(DedupConsult, p) <=> Blocked(p))
  BY SameBlocks
<1>5. CASE Blocked(p)
  <2>1. UNCHANGED <<store, gstore, buckets>>
    BY <1>4, <1>5 DEF DedupRound, GuardRound
  <2>2. UNCHANGED memVars
    BY <1>5 DEF MemoryRound
  <2>3. MemIInv'
    BY <2>2, MemNextIInv DEF PolicyIInv
  <2>4. Refuted' = Refuted
    BY <2>2 DEF memVars, Refuted
  <2> QED  BY <1>2, <1>5, <2>1, <2>2, <2>3, <2>4 DEF StoresFollow, memVars
<1>6. CASE ~Blocked(p) /\ hit = None
  <2>1. UNCHANGED <<store, gstore, buckets>>
    BY <1>6 DEF DedupRound, GuardRound
  <2>2. StoreAccepted(p)
    BY <1>6 DEF MemoryRound
  <2>3. MemIInv'
    BY <2>2, StoreAcceptedIInv DEF PolicyIInv
  <2> DEFINE a == [patch |-> p, accept |-> TRUE, case |-> None,
                   location |-> None, mistyped |-> None]
  <2>4. a \in Attempt /\ a.accept
    BY DEF Attempt
  <2>5. history' = Append(history, a) /\ UNCHANGED <<byLocation, seen>>
    BY <2>2 DEF StoreAccepted
  <2> HIDE DEF a
  <2>6. Refuted' = Refuted /\ \A i \in DOMAIN history : history'[i] = history[i]
    BY <1>3, <2>4, <2>5, AppendRefuted
  <2>7. /\ Follows(history', gstore', Refuted')
        /\ \A m \in Location : Follows(history', buckets'[m], byLocation'[m])
    <3>1. Follows(history', gstore, Refuted)
      BY <1>2, <1>3, <2>6, ListKept
    <3>2. \A m \in Location : Follows(history', buckets[m], byLocation[m])
      <4> TAKE m \in Location
      <4>1. byLocation[m] \subseteq DOMAIN history /\ Follows(history, buckets[m], byLocation[m])
        BY <1>2, <1>3
      <4> QED  BY <2>6, <4>1, ListKept
    <3> QED  BY <2>1, <2>5, <2>6, <3>1, <3>2
  <2> QED  BY <1>2, <1>6, <2>1, <2>3, <2>7 DEF StoresFollow
<1>7. CASE ~Blocked(p) /\ hit # None
  <2>1. /\ store' = Added(store, hit) /\ gstore' = Added(gstore, hit)
        /\ buckets' = [buckets EXCEPT ![l] = Added(@, hit)]
    BY <1>4, <1>7 DEF DedupRound, GuardRound
  <2>2. StoreRefuted(p, hit)
    BY <1>7 DEF MemoryRound
  <2>3. MemIInv'
    BY <1>1, <1>7, <2>2, StoreRefutedIInv DEF PolicyIInv
  <2>4. /\ history' = Append(history, Filed(p, hit, l))
        /\ byLocation' = [byLocation EXCEPT ![l] = @ \cup {n}]
    BY <1>1, <2>2, PolicyAssumption DEF StoreRefuted
  <2>5. Filed(p, hit, l) \in Attempt /\ ~Filed(p, hit, l).accept /\ Filed(p, hit, l).case = hit
    BY <1>1, <1>7, FiledType DEF Filed
  <2>6. /\ \A i \in DOMAIN history : history'[i] = history[i]
        /\ history'[n].case = hit /\ n \in Nat
        /\ Refuted' = Refuted \cup {n}
    BY <1>3, <2>4, <2>5, AppendRefuted
  <2>7. \A i \in Refuted : i < n
    <3>1. DOMAIN history = 1..Len(history) /\ Len(history) \in Nat
      BY <1>3
    <3> QED  BY <1>3, <3>1
  <2>8. hit \notin Held(gstore) /\ hit \notin Held(buckets[l])
    <3>1. hit \notin Held(gstore)
      BY <1>1, <1>4, <1>7, SameCases DEF Blocks
    <3> QED  BY <3>1, SameCases
  <2>9. /\ gstore' \in Seq(Case) /\ Held(gstore') = Held(gstore) \cup {hit}
        /\ Follows(history', gstore', Refuted')
    <3> HIDE DEF n, l
    <3>1. /\ Refuted \subseteq DOMAIN history /\ Refuted \subseteq Nat
          /\ \A i \in DOMAIN history : history'[i] = history[i]
          /\ n \in Nat /\ \A i \in Refuted : i \in Nat /\ i < n
          /\ hit \in Case /\ history'[n].case = hit /\ hit \notin Held(gstore)
      BY <1>1, <1>3, <1>7, <2>6, <2>7, <2>8
    <3>2. /\ Added(gstore, hit) \in Seq(Case)
          /\ Held(Added(gstore, hit)) = Held(gstore) \cup {hit}
          /\ Follows(history', Added(gstore, hit), Refuted \cup {n})
      BY <1>2, <3>1, ListGrows
    <3> QED  BY <2>1, <2>6, <3>2
  <2> HIDE DEF n, l
  <2>10. /\ Added(buckets[l], hit) \in Seq(Case)
         /\ Follows(history', Added(buckets[l], hit), byLocation[l] \cup {n})
    <3>1. /\ buckets[l] \in Seq(Case) /\ byLocation[l] \subseteq DOMAIN history
          /\ byLocation[l] \subseteq Nat /\ Follows(history, buckets[l], byLocation[l])
          /\ \A i \in byLocation[l] : i \in Nat /\ i < n
      BY <1>1, <1>2, <1>3, <2>7
    <3>2. /\ \A i \in DOMAIN history : history'[i] = history[i]
          /\ n \in Nat /\ hit \in Case /\ history'[n].case = hit /\ hit \notin Held(buckets[l])
      BY <1>1, <1>7, <2>6, <2>8
    <3> QED  BY <3>1, <3>2, ListGrows
  <2>11. ASSUME NEW m \in Location
         PROVE  Follows(history', buckets'[m], byLocation'[m])
    <3>1. CASE m = l
      BY <1>2, <1>3, <2>1, <2>4, <2>10, <3>1
    <3>2. CASE m # l
      <4>1. buckets'[m] = buckets[m] /\ byLocation'[m] = byLocation[m]
        BY <1>2, <1>3, <2>1, <2>4, <3>2
      <4>2. byLocation[m] \subseteq DOMAIN history /\ Follows(history, buckets[m], byLocation[m])
        BY <1>2, <1>3
      <4>3. Follows(history', buckets[m], byLocation[m])
        BY <2>6, <4>2, ListKept
      <4> QED  BY <4>1, <4>3
    <3> QED  BY <3>1, <3>2
  <2>12. store' = gstore' /\ buckets' \in [Location -> Seq(Case)]
    BY <1>2, <2>1, <2>10
  <2>13. StoresFollow'
    BY <2>9, <2>11, <2>12 DEF StoresFollow
  <2> QED  BY <1>7, <2>3, <2>9, <2>13
<1> QED  BY <1>5, <1>6, <1>7

LEMMA RoundKillers ==
  ASSUME PolicyIInv, NEW p \in Patch, NEW S \in PolicyDraws, NEW hit \in Hits(p, S),
         SuiteRound(p), UNCHANGED depth,
         Held(gstore') = IF Blocked(p) \/ hit = None THEN Held(gstore)
                         ELSE Held(gstore) \cup {hit}
  PROVE  StoredAreKillers'
<1> SUFFICES ASSUME WholePool
             PROVE  \A c \in Case : /\ c \in Held(gstore') <=> kill'[c] > 0
                                    /\ c \in Held(gstore') <=> vkill'[c] > 0
  BY DEF StoredAreKillers, WholePool
<1>1. /\ kill \in [Case -> Nat] /\ vkill \in [Case -> Nat]
      /\ killAt \in [Location -> [Case -> Nat]]
      /\ \A l \in Location, c \in Case : killAt[l][c] > 0 => vkill[c] > 0
  BY DEF PolicyIInv, KillsCounted, Count
<1>2. \A c \in Case : (c \in Held(gstore) <=> kill[c] > 0) /\ (c \in Held(gstore) <=> vkill[c] > 0)
  BY DEF PolicyIInv, StoredAreKillers
<1>3. Fails[p] \subseteq Case /\ Case \subseteq Nat /\ EditLocation[p] \in Location
  BY CandidateFacts
<1>4. Blocked(p) <=> \E c \in Fails[p] : c \in Held(gstore)
  BY SameBlocks, SameCases DEF Blocks
<1>5. CASE Fails[p] = {}
  <2>1. UNCHANGED <<kill, vkill, killAt>>
    BY <1>5 DEF SuiteRound
  <2>2. hit = None
    BY <1>5, HitFacts
  <2> QED  BY <1>2, <2>1, <2>2
<1>6. CASE Fails[p] # {}
  <2> DEFINE q == QiHit(p)
             v == VenugopalHit(p)
             l == EditLocation[p]
  <2>1. /\ q \in Fails[p] /\ \A d \in Fails[p] \ {q} : ByKills(kill, q, d)
        /\ v \in Fails[p] /\ \A d \in Fails[p] \ {v} : VenugopalEarlier(l, v, d)
    BY <1>6, QiHitIsFirst, VenugopalHitIsFirst
  <2>2. kill' = [kill EXCEPT ![q] = @ + 1] /\ vkill' = [vkill EXCEPT ![v] = @ + 1]
    BY <1>6 DEF SuiteRound
  <2>3. hit \in Fails[p] /\ (\A d \in Fails[p] : hit <= d) /\ hit # None
    <3>1. hit \in Fails[p] /\ \A d \in Fails[p] : hit <= d
      BY <1>6, HitFacts
    <3> QED  BY <1>3, <3>1, CandidateFacts
  <2> HIDE DEF q, v, l
  <2>4. \A c \in Case : /\ kill'[c] > 0 <=> c = q \/ kill[c] > 0
                        /\ vkill'[c] > 0 <=> c = v \/ vkill[c] > 0
    BY <1>1, <1>3, <2>1, <2>2
  <2>5. CASE Blocked(p)
    <3>1. PICK c \in Fails[p] : c \in Held(gstore)
      BY <1>4, <2>5
    <3>2. kill[c] > 0 /\ vkill[c] > 0 /\ c \in Case /\ q \in Case /\ v \in Case
      BY <1>2, <1>3, <2>1, <3>1
    <3>3. kill[q] > 0
      BY <1>1, <2>1, <3>1, <3>2 DEF ByKills
    <3>4. vkill[v] > 0
      <4>1. CASE v = c
        BY <3>2, <4>1
      <4>2. CASE killAt[l][v] > 0
        BY <1>1, <1>3, <3>2, <4>2 DEF l
      <4>3. CASE v # c /\ ~(killAt[l][v] > 0)
        <5>1. VenugopalEarlier(l, v, c)
          BY <2>1, <3>1, <4>3
        <5>2. killAt[l][v] \in Nat /\ killAt[l][c] \in Nat
          BY <1>1, <1>3, <3>2 DEF l
        <5>3. ByKills(vkill, v, c)
          BY <4>3, <5>1, <5>2 DEF VenugopalEarlier
        <5> QED  BY <1>1, <3>2, <5>3 DEF ByKills
      <4> QED  BY <4>1, <4>2, <4>3
    <3>5. Held(gstore') = Held(gstore)
      BY <2>5
    <3> QED  BY <1>2, <2>4, <3>3, <3>4, <3>5
  <2>6. CASE ~Blocked(p)
    <3>1. \A c \in Fails[p] : kill[c] = 0 /\ vkill[c] = 0 /\ killAt[l][c] = 0
      <4> TAKE c \in Fails[p]
      <4>1. c \in Case /\ ~(kill[c] > 0) /\ ~(vkill[c] > 0)
        BY <1>2, <1>3, <1>4, <2>6
      <4>2. ~(killAt[l][c] > 0)
        BY <1>1, <1>3, <4>1 DEF l
      <4>3. kill[c] \in Nat /\ vkill[c] \in Nat /\ killAt[l][c] \in Nat
        BY <1>1, <1>3, <4>1 DEF l
      <4>4. \A x \in Nat : ~(x > 0) => x = 0
        OBVIOUS
      <4> QED  BY <4>1, <4>2, <4>3, <4>4
    <3>2. q = hit
      <4> SUFFICES ASSUME q # hit PROVE FALSE
        OBVIOUS
      <4>1. ByKills(kill, q, hit)
        BY <2>1, <2>3
      <4>2. hit <= q /\ q \in Nat /\ hit \in Nat
        BY <1>3, <2>1, <2>3
      <4>3. kill[q] = 0 /\ kill[hit] = 0
        BY <2>1, <2>3, <3>1
      <4> QED  BY <4>1, <4>2, <4>3 DEF ByKills
    <3>3. v = hit
      <4> SUFFICES ASSUME v # hit PROVE FALSE
        OBVIOUS
      <4>1. VenugopalEarlier(l, v, hit)
        BY <2>1, <2>3
      <4>2. hit <= v /\ v \in Nat /\ hit \in Nat
        BY <1>3, <2>1, <2>3
      <4>3. vkill[v] = 0 /\ vkill[hit] = 0 /\ killAt[l][v] = 0 /\ killAt[l][hit] = 0
        BY <2>1, <2>3, <3>1
      <4> QED  BY <4>1, <4>2, <4>3 DEF VenugopalEarlier, ByKills
    <3>4. Held(gstore') = Held(gstore) \cup {hit}
      BY <2>3, <2>6
    <3> QED  BY <1>2, <2>4, <3>2, <3>3, <3>4
  <2> QED  BY <2>5, <2>6
<1> QED  BY <1>5, <1>6

-----------------------------------------------------------------------------
LEMMA PolicyFresh == FreshPolicies /\ MemInit /\ rounds = 0 => PolicyIInv
<1> SUFFICES ASSUME FreshPolicies, MemInit, rounds = 0 PROVE PolicyIInv
  OBVIOUS
<1>1. MemIInv
  BY MemInitIInv
<1>2. Held(<<>>) = {} /\ <<>> \in Seq(Case) /\ Refuted = {}
  BY DEF Held, MemInit, Refuted
<1>3. Follows(history, <<>>, {})
  BY <1>2 DEF Follows
<1>4. StoresFollow
  BY <1>2, <1>3 DEF StoresFollow, FreshPolicies, MemInit
<1>5. KillsCounted
  BY PolicyAssumption DEF KillsCounted, Count, FreshPolicies
<1>6. StoredAreKillers
  BY <1>2 DEF StoredAreKillers, FreshPolicies
<1> QED  BY <1>1, <1>4, <1>5, <1>6 DEF PolicyIInv

LEMMA PolicyFreshNext == (FreshPolicies /\ MemInit /\ rounds = 0)' => PolicyIInv'
  BY PolicyFresh, PTL

LEMMA PolicyStepIInv == PolicyIInv /\ [PolicyNext]_studyVars => PolicyIInv'
<1> SUFFICES ASSUME PolicyIInv, [PolicyNext]_studyVars PROVE PolicyIInv'
  OBVIOUS
<1>1. ASSUME UNCHANGED <<depth, rounds, policies, memVars>>
      PROVE  PolicyIInv'
  <2>1. MemIInv' /\ Refuted' = Refuted
    BY <1>1, MemNextIInv DEF PolicyIInv, memVars, Refuted
  <2> QED  BY <1>1, <2>1 DEF PolicyIInv, StoresFollow, KillsCounted, StoredAreKillers, Count, WholePool,
              policies, memVars
<1>2. ASSUME ReplayRound
      PROVE  PolicyIInv'
  <2>1. PICK p \in Patch, S \in PolicyDraws : \E hit \in Hits(p, S) :
          DedupRound(p, hit) /\ GuardRound(p, hit) /\ SuiteRound(p) /\ MemoryRound(p, hit)
    BY <1>2 DEF ReplayRound
  <2> PICK hit \in Hits(p, S) :
          DedupRound(p, hit) /\ GuardRound(p, hit) /\ SuiteRound(p) /\ MemoryRound(p, hit)
    BY <2>1
  <2>2. rounds < MaxRounds /\ rounds' = rounds + 1 /\ UNCHANGED depth
    BY <1>2 DEF ReplayRound
  <2>3. /\ MemIInv' /\ StoresFollow'
        /\ Held(gstore') = IF Blocked(p) \/ hit = None THEN Held(gstore)
                           ELSE Held(gstore) \cup {hit}
    BY <2>1, RoundStores
  <2>4. KillsCounted'
    BY <2>1, <2>2, SuiteRoundCounts
  <2>5. StoredAreKillers'
    BY <2>1, <2>2, <2>3, RoundKillers
  <2> QED  BY <2>3, <2>4, <2>5 DEF PolicyIInv
<1>3. ASSUME EndReplay
      PROVE  PolicyIInv'
  <2>1. FreshPolicies' /\ MemInit' /\ rounds' = 0
    BY <1>3 DEF EndReplay, FreshPolicies, MemInit
  <2> QED  BY <2>1, PolicyFreshNext
<1>4. CASE Build(MatrixNext) \/ StartReplay \/ UNCHANGED studyVars
  BY <1>1, <1>4 DEF Build, StartReplay, studyVars, policyVars
<1> QED  BY <1>2, <1>3, <1>4 DEF PolicyNext

THEOREM PoliciesInvariant == PolicySpec => []PolicyIInv
<1>1. PolicyInit => PolicyIInv
  BY PolicyFresh DEF PolicyInit
<1> QED  BY <1>1, PolicyStepIInv, PTL DEF PolicySpec

(* cegmem-guard, which keeps lists of cases per location, is the memory's  *)
(* guard, which keeps attempts: it blocks the same candidates, for as many *)
(* runs, whatever was stored twice under several locations.                *)
THEOREM ReplayedGuardIsTheGuard == PolicySpec => []OfflineGuardIsGuard
  BY OfflineGuardHolds, PoliciesInvariant, PTL

(* Every policy learns from the same evidence: the index changes what a    *)
(* block costs and nothing else, and on the whole pool the cases the two   *)
(* orders of the literature have seen kill are those the guards store.     *)
THEOREM PoliciesLearnTheSame == PolicySpec => []SameEvidence
  BY SameEvidenceHolds, PoliciesInvariant, PTL

-----------------------------------------------------------------------------
(* What kills leave of the matrix the policies replay.                     *)
MatrixTypes ==
  /\ rows \in [Candidate -> {"none", "blank", "judged"}]
  /\ lists \in [MatrixTask -> {"none", "empty", "full"}]
  /\ known \in [MatrixTask -> {"none", "empty", "full"}]

(* Nothing was judged or listed with cases before they were unpacked.      *)
NothingTooEarly ==
  /\ \A c \in Candidate : rows[c] = "judged" => unpacked /\ TaskOf[c] \in Answered
  /\ \A t \in MatrixTask : lists[t] = "full" \/ known[t] = "full" => unpacked /\ t \in Answered

(* A candidate is run once the lists of its task are written, which no     *)
(* later writing takes back: a build rewrites the file from what it read.  *)
ListedFirst ==
  /\ ~building => busy = {} /\ answers = {}
  /\ \A c \in busy : TaskOf[c] \in answers
  /\ broken => interrupted
  /\ ~interrupted =>
       /\ building => known = lists
       /\ unpacked => \A t \in answers \cap Answered : lists[t] = "full"
       /\ \A c \in Candidate : rows[c] = "judged" => lists[TaskOf[c]] = "full"

(* The last line may lack its newline.  What is read of it, if it is all   *)
(* there, is one row, and the next row that is appended takes it back.     *)
LinesBehind ==
  /\ lines \in [Candidate -> {"none", "blank", "judged"}]
  /\ ~torn => lines = rows
  /\ \A c \in Candidate : lines[c] = "judged" => rows[c] = "judged"
  /\ \A c, d \in Candidate : lines[c] # rows[c] /\ lines[d] # rows[d] => c = d

MatrixIInv == MatrixTypes /\ NothingTooEarly /\ ListedFirst /\ LinesBehind

(* What is judged can be replayed, unless a kill fell into the writing of  *)
(* the case lists: simulate_policies.py then finds a list for every task   *)
(* whose candidates the build says are done.                               *)
JudgedIsReplayable ==
  ~interrupted =>
    \A t \in Answered :
      (\A c \in Candidate : TaskOf[c] = t => rows[c] = "judged") => Replayable(t)

(* "A killed job costs one candidate, not the whole matrix": a row that    *)
(* was judged on a line with its newline is judged for good, and no build, *)
(* kill or torn line takes back more than one other.                       *)
OneJudgedRowLost ==
  /\ \A c \in Candidate : lines[c] = "judged" => lines'[c] = "judged" /\ rows'[c] = "judged"
  /\ \A c, d \in Candidate :
       /\ rows[c] = "judged" /\ rows'[c] # "judged"
       /\ rows[d] = "judged" /\ rows'[d] # "judged"
       => c = d

JudgedRowsStay == [][OneJudgedRowLost]_studyVars

LEMMA MatrixInitIInv == MatrixInit => MatrixIInv
  BY DEF MatrixInit, MatrixIInv, MatrixTypes, NothingTooEarly, ListedFirst, LinesBehind

LEMMA TakeKeepsMatrix ==
  ASSUME MatrixIInv, Take
  PROVE  MatrixIInv'
<1> DEFINE t == TaskOf[Head(queue)]
<1>1. /\ building /\ WriteLists(t) /\ busy' = busy \cup {Head(queue)}
      /\ UNCHANGED <<unpacked, rows, torn, lines, building, interrupted>>
  BY DEF Take
<1>2. CASE t \in answers
  <2>1. UNCHANGED <<answers, known, lists, broken>>
    BY <1>1, <1>2 DEF WriteLists
  <2> QED
    BY <1>1, <1>2, <2>1 DEF MatrixIInv, MatrixTypes, NothingTooEarly, ListedFirst, LinesBehind
<1>3. CASE t \notin answers
  <2>1. /\ answers' = answers \cup {t} /\ known' = Learnt(t) /\ lists' = Learnt(t)
        /\ broken' = FALSE
    BY <1>1, <1>3 DEF WriteLists
  <2>2. Learnt(t) \in [MatrixTask -> {"none", "empty", "full"}]
    BY DEF Learnt, MatrixIInv, MatrixTypes
  <2>3. \A s \in MatrixTask :
          Learnt(t)[s] = IF s = t THEN IF unpacked /\ t \in Answered THEN "full" ELSE "empty"
                         ELSE known[s]
    BY DEF Learnt, MatrixIInv, MatrixTypes
  <2> HIDE DEF t
  <2>4. MatrixTypes'
    BY <1>1, <2>1, <2>2 DEF MatrixIInv, MatrixTypes
  <2>5. NothingTooEarly'
    BY <1>1, <2>1, <2>3 DEF MatrixIInv, NothingTooEarly
  <2>6. ASSUME ~interrupted'
        PROVE  /\ unpacked' => \A s \in answers' \cap Answered : lists'[s] = "full"
               /\ \A c \in Candidate : rows'[c] = "judged" => lists'[TaskOf[c]] = "full"
    <3>1. ~interrupted /\ known = lists
      BY <1>1, <2>6 DEF MatrixIInv, ListedFirst
    <3>2. \A s \in MatrixTask : lists[s] = "full" => lists'[s] = "full"
      BY <2>1, <2>3, <3>1 DEF MatrixIInv, NothingTooEarly
    <3>3. Answered \subseteq MatrixTask /\ \A c \in Candidate : TaskOf[c] \in MatrixTask
      BY MatrixAssumption DEF MatrixTask
    <3>4. unpacked /\ t \in Answered => lists'[t] = "full"
      BY <2>1, <2>3, <3>3
    <3> QED  BY <1>1, <2>1, <3>1, <3>2, <3>3, <3>4 DEF MatrixIInv, ListedFirst
  <2>7. ListedFirst'
    BY <1>1, <2>1, <2>6 DEF MatrixIInv, ListedFirst, t
  <2>8. LinesBehind'
    BY <1>1 DEF MatrixIInv, LinesBehind
  <2> QED  BY <2>4, <2>5, <2>7, <2>8 DEF MatrixIInv
<1> QED  BY <1>2, <1>3

(* What is read once a row was appended, or cut only of its newline.       *)
LEMMA AppendFacts ==
  ASSUME MatrixIInv, NEW c \in Candidate, c \in busy
  PROVE  /\ Appended(c) \in [Candidate -> {"none", "blank", "judged"}]
         /\ \A d \in Candidate :
              /\ Appended(c)[d] # lines[d] => d = c
              /\ lines[d] = "judged" => Appended(c)[d] = "judged"
              /\ Appended(c)[d] = "judged" =>
                   /\ unpacked /\ TaskOf[d] \in Answered
                   /\ ~interrupted => lists[TaskOf[d]] = "full"
<1>1. /\ Verdict(c) \in {"blank", "judged"}
      /\ Verdict(c) = "judged" <=> unpacked /\ TaskOf[c] \in Answered
  BY DEF Verdict
<1>2. \A d \in Candidate : Appended(c)[d] = lines[d] \/ (d = c /\ Appended(c)[d] = Verdict(c))
  BY DEF Appended, MatrixIInv, MatrixTypes, LinesBehind
<1>3. Appended(c) \in [Candidate -> {"none", "blank", "judged"}]
  BY <1>1 DEF Appended, MatrixIInv, MatrixTypes, LinesBehind
<1>4. \A d \in Candidate : lines[d] = "judged" =>
        /\ unpacked /\ TaskOf[d] \in Answered
        /\ ~interrupted => lists[TaskOf[d]] = "full"
  BY DEF MatrixIInv, NothingTooEarly, ListedFirst, LinesBehind
<1>5. unpacked /\ TaskOf[c] \in Answered /\ ~interrupted => lists[TaskOf[c]] = "full"
  BY DEF MatrixIInv, ListedFirst
<1> QED  BY <1>1, <1>2, <1>3, <1>4, <1>5

(* Only the row without its newline is ever taken back.                    *)
LEMMA LostIsTheLastLine ==
  ASSUME MatrixIInv,
         \A d \in Candidate : lines[d] = "judged" => lines'[d] = "judged" /\ rows'[d] = "judged"
  PROVE  OneJudgedRowLost
  BY DEF MatrixIInv, LinesBehind, OneJudgedRowLost

LEMMA LandKeepsMatrix ==
  ASSUME MatrixIInv, NEW c \in Candidate, Land(c)
  PROVE  MatrixIInv' /\ OneJudgedRowLost
<1>1. /\ c \in busy /\ busy' = busy \ {c}
      /\ rows' = Appended(c) /\ lines' = Appended(c) /\ torn' = FALSE
      /\ UNCHANGED <<unpacked, lists, broken, building, answers, known, interrupted>>
  BY DEF Land
<1>2. MatrixTypes' /\ NothingTooEarly' /\ ListedFirst'
  BY <1>1, AppendFacts DEF MatrixIInv, MatrixTypes, NothingTooEarly, ListedFirst
<1>3. LinesBehind'
  BY <1>1, AppendFacts DEF LinesBehind
<1>4. OneJudgedRowLost
  BY <1>1, AppendFacts, LostIsTheLastLine
<1> QED  BY <1>2, <1>3, <1>4 DEF MatrixIInv

LEMMA KillKeepsMatrix ==
  ASSUME MatrixIInv, KillBuild
  PROVE  MatrixIInv' /\ OneJudgedRowLost
<1>1. /\ StopBuild
      /\ UNCHANGED <<broken, interrupted>> \/ (broken' /\ interrupted')
      /\ UNCHANGED <<unpacked, lists>>
  BY DEF KillBuild
<1>2. CASE UNCHANGED <<rows, torn, lines>>
  <2>1. MatrixIInv'
    BY <1>1, <1>2
       DEF StopBuild, MatrixIInv, MatrixTypes, NothingTooEarly, ListedFirst, LinesBehind
  <2>2. OneJudgedRowLost
    BY <1>2, LostIsTheLastLine DEF MatrixIInv, LinesBehind
  <2> QED  BY <2>1, <2>2
<1>3. CASE CutRow
  <2>1. lines' = lines /\ torn'
    BY <1>3 DEF CutRow, MatrixIInv, LinesBehind
  <2>2. rows' = lines \/ \E c \in busy : rows' = Appended(c)
    BY <1>3, <2>1 DEF CutRow
  <2>3. CASE rows' = lines
    <3>1. MatrixIInv'
      BY <1>1, <2>1, <2>3
         DEF StopBuild, MatrixIInv, MatrixTypes, NothingTooEarly, ListedFirst, LinesBehind
    <3>2. OneJudgedRowLost
      BY <2>1, <2>3, LostIsTheLastLine
    <3> QED  BY <3>1, <3>2
  <2>4. ASSUME NEW c \in Candidate, c \in busy, rows' = Appended(c)
        PROVE  MatrixIInv' /\ OneJudgedRowLost
    <3>1. MatrixTypes' /\ NothingTooEarly' /\ ListedFirst'
      BY <1>1, <2>4, AppendFacts
         DEF StopBuild, MatrixIInv, MatrixTypes, NothingTooEarly, ListedFirst
    <3>2. LinesBehind'
      BY <2>1, <2>4, AppendFacts DEF MatrixIInv, LinesBehind
    <3>3. OneJudgedRowLost
      BY <2>1, <2>4, AppendFacts, LostIsTheLastLine
    <3> QED  BY <3>1, <3>2, <3>3 DEF MatrixIInv
  <2>5. \A c \in busy : c \in Candidate \/ Appended(c) = lines
    BY DEF Appended, MatrixIInv, MatrixTypes, LinesBehind
  <2> QED  BY <2>2, <2>3, <2>4, <2>5
<1> QED  BY <1>2, <1>3 DEF KillBuild

LEMMA MatrixStep ==
  ASSUME MatrixIInv, MatrixNext \/ UNCHANGED matrixVars
  PROVE  MatrixIInv' /\ OneJudgedRowLost
<1>1. ASSUME UNCHANGED <<rows, lines>> PROVE OneJudgedRowLost
  BY <1>1, LostIsTheLastLine DEF MatrixIInv, LinesBehind
<1> USE DEF MatrixIInv, MatrixTypes, NothingTooEarly, ListedFirst, LinesBehind
<1>2. ASSUME NEW allowEmpty \in BOOLEAN, StartBuild(allowEmpty)
      PROVE  MatrixIInv' /\ UNCHANGED <<rows, lines>>
  <2>1. /\ ~building /\ known' = ListsRead /\ answers' = {}
        /\ UNCHANGED <<unpacked, rows, torn, lines, lists, broken, busy, interrupted>>
    BY <1>2 DEF StartBuild, fileVars
  <2>2. ListsRead \in [MatrixTask -> {"none", "empty", "full"}]
        /\ (\A t \in MatrixTask : ListsRead[t] = "full" => lists[t] = "full")
        /\ (~broken => ListsRead = lists)
    BY DEF ListsRead
  <2> QED  BY <2>1, <2>2
<1>3. CASE Take
  BY <1>1, <1>3, TakeKeepsMatrix DEF Take
<1>4. CASE NextGroup
  BY <1>1, <1>4 DEF NextGroup, fileVars
<1>5. CASE FinishBuild
  BY <1>1, <1>5 DEF FinishBuild, StopBuild, fileVars
<1>6. CASE KillBuild
  BY <1>6, KillKeepsMatrix
<1>7. CASE UnpackTests
  BY <1>1, <1>7 DEF UnpackTests, fileVars, buildVars
<1>8. ASSUME NEW c \in Candidate, Land(c)
      PROVE  MatrixIInv' /\ OneJudgedRowLost
  BY <1>8, LandKeepsMatrix
<1>9. CASE UNCHANGED matrixVars
  BY <1>1, <1>9 DEF matrixVars, fileVars, buildVars
<1> QED  BY <1>1, <1>2, <1>3, <1>4, <1>5, <1>6, <1>7, <1>8, <1>9 DEF MatrixNext

LEMMA MatrixStudyStep ==
  ASSUME MatrixIInv, [PolicyNext]_studyVars
  PROVE  MatrixIInv' /\ OneJudgedRowLost
<1>1. MatrixNext \/ UNCHANGED matrixVars
  BY DEF PolicyNext, Build, StartReplay, ReplayRound, EndReplay, studyVars
<1> QED  BY <1>1, MatrixStep

LEMMA MatrixInvariant == PolicySpec => []MatrixIInv
<1>1. PolicyInit => MatrixIInv
  BY MatrixInitIInv DEF PolicyInit
<1>2. MatrixIInv /\ [PolicyNext]_studyVars => MatrixIInv'
  BY MatrixStudyStep
<1> QED  BY <1>1, <1>2, PTL DEF PolicySpec

(* However often a build is killed and started again, what it has judged   *)
(* can be replayed, unless a kill fell into the writing of the case lists. *)
THEOREM WhatIsJudgedIsReplayable == PolicySpec => []JudgedIsReplayable
<1>1. MatrixIInv => JudgedIsReplayable
  <2> SUFFICES ASSUME MatrixIInv, ~interrupted, NEW t \in Answered,
                      \A c \in Candidate : TaskOf[c] = t => rows[c] = "judged"
               PROVE  Replayable(t)
    BY DEF JudgedIsReplayable
  <2>1. PICK c \in Candidate : TaskOf[c] = t
    BY MatrixAssumption DEF MatrixTask
  <2>2. rows[c] = "judged"
    BY <2>1
  <2> QED  BY <2>1, <2>2 DEF MatrixIInv, ListedFirst, Replayable
<1> QED  BY <1>1, MatrixInvariant, PTL

(* A row that was judged is judged for good, but for one that a kill cut   *)
(* exactly of its newline: the row appended next takes that one with it.   *)
THEOREM NoJudgedRowIsLost == PolicySpec => JudgedRowsStay
<1>1. MatrixIInv /\ [PolicyNext]_studyVars => [OneJudgedRowLost]_studyVars
  BY MatrixStudyStep
<1> QED  BY <1>1, MatrixInvariant, PTL DEF PolicySpec, JudgedRowsStay

=============================================================================
