------------------------------ MODULE Policies -------------------------------
(***************************************************************************)
(* scripts/simulate_policies.py: validation policies replayed, offline,    *)
(* over one cell of the no_memory log (one task, one seed).  The matrix    *)
(* answers for the sandbox, so every policy sees the same candidates and,  *)
(* where it draws, the same cases.                                         *)
(*                                                                         *)
(* Beside the policies the module drives the memory of Memory.tla through  *)
(* the same rounds: the guard the study ran, which cegmem-guard is to be.  *)
(***************************************************************************)
EXTENDS Memory, VerdictMatrix

CONSTANTS
  Studied,  \* the task of the cell
  Depths,   \* the oracle depths a log may hold
  MaxRounds \* bound on the rounds of a cell

VARIABLES
  cell,    \* "waiting", "replaying" or "replayed"
  depth,   \* --depth
  rounds,  \* rounds replayed
  store,   \* dedup-guard: the cases found so far, in order
  gstore,  \* cegmem-guard: the same
  buckets, \* cegmem-guard: the cases found per edit location, in order
  kill,    \* qi13: how often a case has killed a candidate
  vkill,   \* venugopal20: the same
  killAt   \* venugopal20: the same per edit location

policies == <<store, gstore, buckets, kill, vkill, killAt>>
policyVars == <<cell, depth, rounds, policies>>
studyVars == <<policyVars, memVars, matrixVars>>

ASSUME PolicyAssumption ==
  /\ Patch \subseteq Candidate /\ Studied \in Answered
  /\ \A p \in Patch : TaskOf[p] = Studied
  /\ Depths \subseteq Nat \ {0} /\ MaxRounds \in Nat
  /\ Mode = "typed" /\ Typing = "ideal" /\ GuardFallback /\ Granularity = "fine"

-----------------------------------------------------------------------------
(* Policy.draw: the oracle's own seeded draw at this depth.  The case that *)
(* separates first is the first in pool order when the pool is drawn       *)
(* whole, any failing one otherwise; None when there is none.              *)
WholePool == depth >= Cardinality(Case)

Hits(p, S) ==
  LET failed == Fails[p] \cap S
  IN  IF failed = {} THEN {None}
      ELSE IF WholePool THEN {c \in failed : \A d \in failed : c <= d} ELSE failed

PolicyDraws ==
  IF WholePool THEN {Case} ELSE {S \in SUBSET Case : Cardinality(S) = depth}

(* qi13 and venugopal20 order the whole usable suite, by kills first.      *)
ByKills(k, c, d) == k[c] > k[d] \/ (k[c] = k[d] /\ c < d)

QiEarlier(c, d) == ByKills(kill, c, d)

VenugopalEarlier(l, c, d) ==
  \/ killAt[l][c] > killAt[l][d]
  \/ killAt[l][c] = killAt[l][d] /\ ByKills(vkill, c, d)

(* _walk over such an order: the failing case that comes first.            *)
QiHit(p) ==
  IF Fails[p] = {} THEN None
  ELSE CHOOSE c \in Fails[p] : \A d \in Fails[p] \ {c} : QiEarlier(c, d)

VenugopalHit(p) ==
  IF Fails[p] = {} THEN None
  ELSE CHOOSE c \in Fails[p] : \A d \in Fails[p] \ {c} : VenugopalEarlier(EditLocation[p], c, d)

(* DedupGuard.consult and CEGMemGuard.consult: the stored cases, in the    *)
(* order they were found, with the index the bucket's own before the rest. *)
(* No case is stored twice, so an order of the cases is an order of runs.  *)
Held(s) == {s[i] : i \in DOMAIN s}

Earlier(s, c, d) == \E i, j \in DOMAIN s : i < j /\ s[i] = c /\ s[j] = d

DedupConsult == Held(store)

GuardConsult(p) == Held(buckets[EditLocation[p]]) \cup Held(gstore)

GuardEarlier_StoreFirst(p, c, d) == Earlier(gstore, c, d) \* mutant: the bucket is not consulted first
GuardEarlier(p, c, d) ==
  LET bucket == buckets[EditLocation[p]]
  IN  \/ c \in Held(bucket) /\ d \notin Held(bucket)
      \/ Earlier(bucket, c, d)
      \/ c \notin Held(bucket) /\ d \notin Held(bucket) /\ Earlier(gstore, c, d)

Blocks(S, p) == S \cap Fails[p] # {}

(* Stored cases run before the guard blocks, or before the oracle is paid. *)
GuardRuns(p) ==
  Cardinality({c \in GuardConsult(p) :
                 \A d \in GuardConsult(p) \cap Fails[p] : ~GuardEarlier(p, d, c)})

Added(s, c) == IF c \in Held(s) THEN s ELSE Append(s, c)

(* DedupGuard.round: a block remembers nothing.                            *)
DedupRound(p, hit) ==
  store' = IF Blocks(DedupConsult, p) \/ hit = None THEN store ELSE Added(store, hit)

(* CEGMemGuard.remember files the case under the candidate's location too. *)
GuardRound_Global(p, hit) == \* mutant: a block is remembered under the new location
  IF hit = None THEN UNCHANGED <<gstore, buckets>>
  ELSE /\ gstore' = Added(gstore, hit)
       /\ buckets' = [buckets EXCEPT ![EditLocation[p]] = Added(@, hit)]

GuardRound(p, hit) ==
  IF Blocks(GuardConsult(p), p) \/ hit = None THEN UNCHANGED <<gstore, buckets>>
  ELSE /\ gstore' = Added(gstore, hit)
       /\ buckets' = [buckets EXCEPT ![EditLocation[p]] = Added(@, hit)]

SuiteRound(p) ==
  IF Fails[p] = {} THEN UNCHANGED <<kill, vkill, killAt>>
  ELSE /\ kill' = [kill EXCEPT ![QiHit(p)] = @ + 1]
       /\ vkill' = [vkill EXCEPT ![VenugopalHit(p)] = @ + 1]
       /\ killAt' = [killAt EXCEPT ![EditLocation[p]][VenugopalHit(p)] = @ + 1]

(* src/loop.py on the same draw: what its guard lets through is judged and *)
(* stored.                                                                 *)
MemoryRound(p, hit) ==
  CASE Blocked(p)                 -> UNCHANGED memVars
    [] ~Blocked(p) /\ hit = None  -> StoreAccepted(p)
    [] ~Blocked(p) /\ hit # None  -> StoreRefuted(p, hit)

-----------------------------------------------------------------------------
FreshPolicies ==
  /\ store = <<>> /\ gstore = <<>>
  /\ buckets = [l \in Location |-> <<>>]
  /\ kill = [c \in Case |-> 0] /\ vkill = [c \in Case |-> 0]
  /\ killAt = [l \in Location |-> [c \in Case |-> 0]]

PolicyInit ==
  /\ MatrixInit /\ MemInit /\ FreshPolicies
  /\ cell = "waiting" /\ depth \in Depths /\ rounds = 0

(* main: a cell is replayed only if its task has a case list and each of   *)
(* its candidates a row; otherwise it is skipped.                          *)
StartReplay ==
  /\ cell = "waiting" /\ ~building /\ Replayable(Studied)
  /\ cell' = "replaying"
  /\ UNCHANGED <<depth, rounds, policies, memVars, matrixVars>>

ReplayRound ==
  /\ cell = "replaying" /\ rounds < MaxRounds
  /\ rounds' = rounds + 1
  /\ \E p \in Patch, S \in PolicyDraws : \E hit \in Hits(p, S) :
       DedupRound(p, hit) /\ GuardRound(p, hit) /\ SuiteRound(p) /\ MemoryRound(p, hit)
  /\ UNCHANGED <<cell, depth, matrixVars>>

(* The next cell gets new Policy objects.                                  *)
EndReplay ==
  /\ cell = "replaying" /\ rounds = MaxRounds
  /\ cell' = "replayed" /\ rounds' = 0
  /\ store' = <<>> /\ gstore' = <<>>
  /\ buckets' = [l \in Location |-> <<>>]
  /\ kill' = [c \in Case |-> 0] /\ vkill' = [c \in Case |-> 0]
  /\ killAt' = [l \in Location |-> [c \in Case |-> 0]]
  /\ history' = <<>> /\ seen' = {}
  /\ byLocation' = [l \in Location |-> {}]
  /\ UNCHANGED <<depth, matrixVars>>

Build(A) == A /\ cell # "replaying" /\ UNCHANGED <<policyVars, memVars>>

PolicyNext == Build(MatrixNext) \/ StartReplay \/ ReplayRound \/ EndReplay

PolicySpec == PolicyInit /\ [][PolicyNext]_studyVars

(* The process runs while nobody kills it, the replay too, and an operator *)
(* unpacks the tests and gives the same command again until it has nothing *)
(* left to do.                                                             *)
FairPolicySpec ==
  /\ PolicySpec
  /\ WF_studyVars(Build(StartBuild(FALSE))) /\ SF_studyVars(Build(UnpackTests))
  /\ WF_studyVars(Build(Take)) /\ WF_studyVars(Build(NextGroup)) /\ WF_studyVars(Build(FinishBuild))
  /\ WF_studyVars(Build(\E c \in Candidate : Land(c)))
  /\ WF_studyVars(ReplayRound) /\ WF_studyVars(EndReplay)

-----------------------------------------------------------------------------
(* cegmem-guard is "src.memory.TypedMemory.guard, offline": after any      *)
(* rounds, on any candidate, it blocks when the guard blocks, having run   *)
(* exactly as many stored cases.                                           *)
OfflineGuardIsGuard ==
  \A p \in Patch :
    /\ Blocks(GuardConsult(p), p) <=> Blocked(p)
    /\ GuardRuns(p) = Evaluations(p)

(* The comparison is "exact": the policies learn the same from the same    *)
(* candidates.  The index changes what a block costs, never what the store *)
(* holds; and where the draw is the whole pool, the cases the classical    *)
(* orders have seen kill are the cases the guards have stored.             *)
SameEvidence ==
  /\ store = gstore
  /\ WholePool =>
       /\ \A c \in Case : c \in Held(store) <=> kill[c] > 0
       /\ \A c \in Case : c \in Held(store) <=> vkill[c] > 0
=============================================================================
