------------------------------- MODULE Memory -------------------------------
(***************************************************************************)
(* src/memory.py: the memory of refuted attempts, in its three modes.      *)
(*                                                                         *)
(* The memory keeps every attempt in order.  The typed memory also files   *)
(* each refuted attempt in the bucket of an edit location, and may file it *)
(* under a wrong one on purpose (typing noise, the study's coherence c).   *)
(* Before a candidate pays for the oracle, guard re-runs stored            *)
(* counterexamples against it.                                             *)
(*                                                                         *)
(* An attempt object is identified by its position in history, so a bucket *)
(* (a list in store order) is a set of positions.                          *)
(***************************************************************************)
EXTENDS Oracle, Sequences

CONSTANTS
  Location,      \* edit locations
  EditLocation,  \* EditLocation[p]: where patch p edits the faulty program
  WholeProgram,  \* the one location of the coarse granularity
  Mode,          \* "no_memory", "untyped" or "typed"
  Granularity,   \* "coarse" or "fine"
  Typing,        \* how a refutation is filed: "ideal", "noisy", "never", "random"
  GuardFallback  \* does a typed guard go on to the rest of memory

ASSUME MemoryAssumption ==
  /\ EditLocation \in [Patch -> Location]
  /\ WholeProgram \in Location
  /\ Mode \in {"no_memory", "untyped", "typed"}
  /\ Granularity \in {"coarse", "fine"}
  /\ Typing \in {"ideal", "noisy", "never", "random"}
  /\ GuardFallback \in BOOLEAN
  /\ None \notin Location

VARIABLES
  history,     \* every attempt stored, in order
  byLocation,  \* the buckets of the typed memory
  seen         \* the locations a refutation has been filed under

memVars == <<history, byLocation, seen>>

(* src/proposer.py Attempt, as filed: location is the location half of the *)
(* stored failure type, mistyped the true one when it was replaced.        *)
Attempt ==
  [patch : Patch, accept : BOOLEAN, case : Case \cup {None},
   location : Location \cup {None}, mistyped : Location \cup {None}]

Refuted == {i \in DOMAIN history : ~history[i].accept}

(* theta's location, and the guess guard makes from a pure diff.           *)
TrueLocation(p) == IF Granularity = "coarse" THEN WholeProgram ELSE EditLocation[p]

-----------------------------------------------------------------------------
MemInit ==
  /\ history = <<>>
  /\ byLocation = [l \in Location |-> {}]
  /\ seen = {}

(* Where store may file a refutation whose true location is l.             *)
Elsewhere_Anywhere(l) == Location \ {l} \* mutant: not restricted to seen
Elsewhere(l) == IF seen \ {l} = {} THEN {l} ELSE seen \ {l}

FilingLocations(l) ==
  CASE Typing = "ideal"  -> {l}                   \* c = 1
    [] Typing = "noisy"  -> {l} \cup Elsewhere(l) \* 0 < c < 1: the coin decides
    [] Typing = "never"  -> Elsewhere(l)          \* c = 0: the coin always loses
    [] Typing = "random" -> seen \cup {l}         \* typing_random

(* Mutants of Filed: the type is left alone and only the bucket noised; or *)
(* the replaced type loses its location.                                   *)
Filed_BucketOnly(p, c, l) ==
  [patch |-> p, accept |-> FALSE, case |-> c, location |-> TrueLocation(p), mistyped |-> None]

Filed_NoLocation(p, c, l) ==
  [patch |-> p, accept |-> FALSE, case |-> c, location |-> None, mistyped |-> TrueLocation(p)]

Filed(p, c, l) ==
  [patch |-> p, accept |-> FALSE, case |-> c, location |-> l,
   mistyped |-> IF l = TrueLocation(p) THEN None ELSE TrueLocation(p)]

StoreRefuted(p, c) ==
  \/ /\ Mode = "typed"
     /\ \E l \in FilingLocations(TrueLocation(p)) :
          /\ history' = Append(history, Filed(p, c, l))
          /\ byLocation' = [byLocation EXCEPT ![l] = @ \cup {Len(history) + 1}]
          /\ seen' = seen \cup {l}
  \/ /\ Mode # "typed"
     /\ history' = Append(history, Filed(p, c, TrueLocation(p)))
     /\ UNCHANGED <<byLocation, seen>>

StoreAccepted_Dropped(p) == UNCHANGED memVars \* mutant: only refutations are kept

StoreAccepted(p) ==
  /\ history' = Append(history, [patch |-> p, accept |-> TRUE, case |-> None,
                                 location |-> None, mistyped |-> None])
  /\ UNCHANGED <<byLocation, seen>>

-----------------------------------------------------------------------------
(* guard: which stored counterexamples are consulted, in which order, and  *)
(* which one fires.  untyped scans all of history; typed starts with the   *)
(* bucket of the guessed location, then the rest, one run per case.        *)
Bucket(p) == IF Mode = "typed" THEN byLocation[TrueLocation(p)] ELSE {}

Searched_BucketOnly(p) == Bucket(p) \* mutant: the partition taken for an index

Searched(p) ==
  CASE Mode = "no_memory" -> {}
    [] Mode = "untyped"   -> Refuted
    [] Mode = "typed"     -> Bucket(p) \cup (IF GuardFallback THEN Refuted ELSE {})

Before(p, i, j) ==
  \/ i \in Bucket(p) /\ j \notin Bucket(p)
  \/ (i \in Bucket(p) <=> j \in Bucket(p)) /\ i < j

(* _case_key: a case already run in this call is not run again (typed).    *)
Consulted_PerClass(p) == \* mutant: one representative per location, not per case
  {i \in Searched(p) :
     \A j \in Searched(p) : Before(p, j, i) => history[j].location # history[i].location}

Consulted(p) ==
  {i \in Searched(p) : Mode = "typed" =>
     \A j \in Searched(p) : Before(p, j, i) => history[j].case # history[i].case}

(* _still_refutes re-runs the stored case on the new candidate.            *)
StillRefutes_SameClass(i, p) == history[i].location = TrueLocation(p) \* mutant: a type match blocks
StillRefutes(i, p) == history[i].case \in Fails[p]

Blockers(p) ==
  {i \in Consulted(p) : /\ StillRefutes(i, p)
                        /\ \A j \in Consulted(p) :
                             Before(p, j, i) => ~StillRefutes(j, p)}

Blocked(p) == Blockers(p) # {}

Evaluations(p) ==
  Cardinality({i \in Consulted(p) : \A b \in Blockers(p) : ~Before(p, b, i)})

BucketHit(p) == Bucket(p) # {}

BucketHitRefuted_Any(p) == Blocked(p) \* mutant: phase 2 counts as a bucket refutation
BucketHitRefuted(p) == Blockers(p) \cap Bucket(p) # {}

-----------------------------------------------------------------------------
(* The memory on its own: any sequence of attempts the oracle can produce. *)
MemNext ==
  \E p \in Patch :
    \/ \E c \in Fails[p] : StoreRefuted(p, c)
    \/ StoreAccepted(p)

MemSpec == MemInit /\ [][MemNext]_memVars

-----------------------------------------------------------------------------
(* Types of the memory's state.  A refuted attempt always carries the      *)
(* usable case that refuted it.                                            *)
MemTypeOK ==
  /\ history \in Seq(Attempt)
  /\ byLocation \in [Location -> SUBSET Nat]
  /\ seen \subseteq Location
  /\ \A i \in Refuted : history[i].case \in Fails[history[i].patch]
                       /\ history[i].location \in Location

(* store: "Both steer ... and guard ... must see the *same* mistyping".    *)
(* The proposer reads the location out of history, the guard reads the     *)
(* buckets: a refuted attempt is in the bucket of the location history     *)
(* shows for it, in no other, and nothing else is in any bucket.           *)
SteerAndGuardAgree ==
  Mode = "typed" =>
    \A l \in Location : byLocation[l] = {i \in Refuted : history[i].location = l}

(* mistyped_from: however an attempt was filed, its true location can be   *)
(* read back from it, and it is marked exactly when memory is wrong.       *)
TruthRecoverable ==
  \A i \in Refuted :
    LET a == history[i] t == TrueLocation(a.patch)
    IN  IF a.mistyped = None THEN a.location = t
                             ELSE a.mistyped = t /\ a.location # t

(* guard: the index says where to look first, never where to stop.  With   *)
(* the fallback, a guarding memory blocks a candidate exactly when some    *)
(* stored counterexample refutes it, whatever bucket it was filed in and   *)
(* whatever duplicates were skipped.                                       *)
GuardRecall ==
  Mode # "no_memory" /\ (Mode = "typed" => GuardFallback) =>
    \A p \in Patch :
      Blocked(p) <=> \E i \in Refuted : history[i].case \in Fails[p]

(* The in-situ coherence measure: bucket_hit / bucket_hit_refuted answer   *)
(* for the failure classes the proposer is shown, not only for the index.  *)
CoherenceMeasured ==
  Mode = "typed" =>
    \A p \in Patch :
      LET sameClass == {i \in Refuted : history[i].location = TrueLocation(p)}
      IN  /\ BucketHit(p) <=> sameClass # {}
          /\ BucketHitRefuted(p) <=>
                \E i \in sameClass : history[i].case \in Fails[p]

(* c = 0 is "a lower bound on the damage, not a null": the first location  *)
(* filed swallows every later refutation, so the typed memory has one      *)
(* bucket and its index tells nothing apart.                               *)
CoherenceZeroIsOneBucket ==
  Mode = "typed" /\ Typing = "never" =>
    \A i, j \in Refuted : history[i].location = history[j].location

=============================================================================
