--------------------------------- MODULE Gate ---------------------------------
(***************************************************************************)
(* The oracle gate that freezes the candidate pool:                        *)
(* scripts/oracle_gate.sh, scripts/validate_oracle.py and                  *)
(* scripts/refreeze_pool.py.                                               *)
(*                                                                         *)
(* The walk takes the candidates a batch at a time, checks a batch in      *)
(* parallel, folds the results in candidate order, and stops when the      *)
(* corpus is full.  What stage 1 and the judge of the mutants say of a     *)
(* candidate is its profile: a verdict is assumed not to depend on load.   *)
(***************************************************************************)
EXTENDS Integers, Sequences, FiniteSets, Functions

CONSTANTS
  Candidate,      \* the candidates, by their places in the seeded order
  Task, Rating,   \* the coding task of a candidate, the rating of a task
  Profiles,       \* what can be found out about a candidate
  Floor,          \* --hard-floor
  Sizes, AutoSize,    \* values of --corpus-size
  Modes,          \* --select, or "programs" for a given list
  JobCounts,
  TopUp,          \* not --no-top-up
  CapFactor,      \* examined candidates per slot, 12 in the program
  MutantsPerTask,
  Absent          \* no rating, no walk, no file, not refrozen

Strata == 1..3    \* easy, medium, hard; without strata there is one band, 1

ASSUME GateAssumption ==
  /\ Candidate \subseteq Nat \ {0} /\ IsFiniteSet(Candidate)
  /\ Task \in [Candidate -> DOMAIN Rating]
  /\ \A t \in DOMAIN Rating : Rating[t] = Absent \/ Rating[t] \in Nat
  /\ AutoSize \notin Nat /\ Absent \notin Nat
  /\ Sizes \subseteq (Nat \ {0}) \cup {AutoSize} /\ Modes \subseteq {"programs", "hard", "none", "terciles"}
  /\ JobCounts \subseteq Nat \ {0} /\ TopUp \in BOOLEAN
  /\ {Floor, CapFactor, MutantsPerTask} \subseteq Nat

VARIABLES
  profile,
  walk,       \* the walk in progress, Absent between walks
  validation, \* oracle_validation.json
  pool        \* pool/tasks.json

gateVars == <<profile, walk, validation, pool>>

-----------------------------------------------------------------------------
(* Stage 1: the reference answers the shipped cases in time, at least one  *)
(* of them can be checked, and the faulty version is exposed.              *)
ReferenceOk(p) ==
  /\ "agrees" \in Range(p.reference)
  /\ Range(p.reference) \subseteq {"agrees", "nothing_shipped"}

Usable(c) == ReferenceOk(profile[c]) /\ profile[c].exposed

Eligible(c) == Usable(c) /\ profile[c].siblings # <<>>

(* Stage 2: of the mutants the whole pool can refute the sample refutes    *)
(* two thirds.                                                             *)
Verdict(m) ==
  IF m.sampled = "refuted" THEN "caught"
  ELSE IF "error" \in {m.sampled, m.full} THEN "inconclusive"
  ELSE IF m.full = "refuted" THEN "missed" ELSE "equivalent"

Mutants(c, verdicts) ==
  Cardinality({i \in DOMAIN profile[c].siblings : i <= MutantsPerTask /\ Verdict(profile[c].siblings[i]) \in verdicts})

Passes(c) ==
  LET caught == Mutants(c, {"caught"})
      scored == Mutants(c, {"caught", "missed"})
  IN  scored > 0 /\ 3 * caught >= 2 * scored

-----------------------------------------------------------------------------
(* The candidates a walk is given and the strata they fall into.           *)
Rated(t) == Rating[t] # Absent

Kept(mode, c) ==
  /\ mode = "hard" => Rated(Task[c]) /\ Rating[Task[c]] >= Floor
  /\ mode # "programs" => profile[c].siblings # <<>>
  /\ mode = "terciles" => Rated(Task[c])

Listed(mode) == {c \in Candidate : Kept(mode, c)}

(* Terciles of the ratings of the tasks there are.                         *)
Cut(tasks, i) ==
  LET below(t) == Cardinality({u \in tasks : Rating[u] < Rating[t]})
      same(t) == Cardinality({u \in tasks : Rating[u] = Rating[t]})
      at == (Cardinality(tasks) * i) \div 3
  IN  CHOOSE r \in {Rating[t] : t \in tasks} :
        \E t \in tasks : Rating[t] = r /\ below(t) <= at /\ at < below(t) + same(t)

Banding(mode) ==
  LET listed == Listed(mode)
      easy == Cut({Task[c] : c \in listed}, 1)
      medium == Cut({Task[c] : c \in listed}, 2)
  IN  [c \in listed |-> IF mode # "terciles" \/ Rating[Task[c]] < easy THEN 1
                         ELSE IF Rating[Task[c]] < medium THEN 2 ELSE 3]

(* The strata take turns, each in its own order.                           *)
Turn(band, c) == 3 * Cardinality({d \in DOMAIN band : band[d] = band[c] /\ d < c}) + band[c]

(* The place of each candidate in the walk, from 1 up to what main caps it *)
(* to.                                                                     *)
Places(mode, size) ==
  LET band == Banding(mode)
      place(c) == Cardinality({d \in DOMAIN band : Turn(band, d) < Turn(band, c)}) + 1
  IN  [c \in {x \in DOMAIN band : mode = "programs" \/ size = AutoSize \/ place(x) <= CapFactor * size}
         |-> place(c)]

Bands(mode) == IF mode = "terciles" THEN Strata ELSE {1}
Share(mode, size) == IF mode = "terciles" THEN size \div 3 ELSE size

(* main refuses a size the strata cannot share, or a hard pool too small.  *)
Accepted(mode, size) ==
  /\ mode = "terciles" =>
       /\ size # AutoSize
       /\ size % 3 = 0
       /\ Cardinality({Task[c] : c \in Listed(mode)}) >= 3
  /\ mode = "hard" /\ size # AutoSize =>
       2 * Cardinality({Task[c] : c \in DOMAIN Places(mode, size)}) >= 3 * size

-----------------------------------------------------------------------------
(* Lists are in the order of the walk, a band at a time.                   *)
First(w, S, n) ==
  IF n = AutoSize THEN S ELSE {c \in S : Cardinality({d \in S : w.place[d] < w.place[c]}) < n}

In(w, S, b) == {c \in S : w.band[c] = b}

Cohort(w, b) == First(w, In(w, w.seated, b), Share(w.mode, w.size))
Passing(w, b) == {c \in In(w, w.seated, b) : Passes(c)}

BandFull(w, b) ==
  /\ Share(w.mode, w.size) # AutoSize
  /\ Cardinality(Cohort(w, b)) >= Share(w.mode, w.size)
  /\ TopUp => Cardinality(Passing(w, b)) >= Share(w.mode, w.size)

Done(w) ==
  \/ \A c \in DOMAIN w.place : w.place[c] < w.at
  \/ \A b \in Bands(w.mode) : BandFull(w, b)

(* Of the batch, who goes on to stage 2 and claims its coding task.        *)
Seats_PerBatch(w, batch) == \* mutant: a task is only claimed between batches
  {c \in batch : Eligible(c) /\ \A x \in w.seated : Task[x] # Task[c]}

Seats(w, batch) ==
  {c \in batch :
     /\ Eligible(c)
     /\ \A x \in w.seated : Task[x] # Task[c]
     /\ \A x \in batch : Eligible(x) /\ w.place[x] < w.place[c] => Task[x] # Task[c]}

Threshold(size) == (3 * size + 3) \div 4

Chosen(w, b) == First(w, Passing(w, b), Share(w.mode, w.size))

AllCohort(w) == UNION {Cohort(w, b) : b \in Bands(w.mode)}
AllChosen(w) == UNION {Chosen(w, b) : b \in Bands(w.mode)}

-----------------------------------------------------------------------------
GateInit == profile \in [Candidate -> Profiles] /\ walk = Absent /\ validation = Absent /\ pool = Absent

Start(mode, size, jobs, force) ==
  /\ walk = Absent
  /\ pool # Absent => ~pool.frozen \/ force
  /\ Accepted(mode, size)
  /\ walk' = [mode |-> mode, size |-> size, jobs |-> jobs, at |-> 1, seated |-> {},
              place |-> Places(mode, size), band |-> Banding(mode)]
  /\ UNCHANGED <<profile, validation, pool>>

(* A batch: three candidates a job, of bands that have room.               *)
Batch ==
  /\ walk # Absent /\ ~Done(walk)
  /\ LET end == walk.at + 3 * walk.jobs
         batch == {c \in DOMAIN walk.place : /\ walk.at <= walk.place[c] /\ walk.place[c] < end
                                             /\ ~BandFull(walk, walk.band[c])}
     IN  walk' = [walk EXCEPT !.at = end, !.seated = @ \cup Seats(walk, batch)]
  /\ UNCHANGED <<profile, validation, pool>>

(* Nothing is written before the walk has ended.                           *)
GateOk(cohort, size) ==
  /\ Cardinality({c \in cohort : Passes(c)}) >= Threshold(size)
  /\ Cardinality(cohort) = size

Freeze ==
  /\ walk # Absent /\ Done(walk)
  /\ LET cohort == AllCohort(walk)
         size == IF walk.size = AutoSize THEN Cardinality(cohort) ELSE walk.size
     IN  /\ validation' = [mode |-> walk.mode, asked |-> walk.size, place |-> walk.place, band |-> walk.band,
                           cohort |-> cohort, seated |-> walk.seated,
                           ok |-> GateOk(cohort, size), refrozen |-> Absent]
         /\ pool' = [tasks |-> AllChosen(walk), frozen |-> GateOk(cohort, size) /\ AllChosen(walk) # {}]
  /\ walk' = Absent
  /\ UNCHANGED profile

Kill == walk # Absent /\ walk' = Absent /\ UNCHANGED <<profile, validation, pool>>

(* refreeze_pool.py: the report is written, then write_tasks_json is       *)
(* called with a keyword it does not take, and tasks.json stays as it was. *)
Ahead(c, d) ==
  LET v == validation
  IN  v.band[c] < v.band[d] \/ (v.band[c] = v.band[d] /\ v.place[c] < v.place[d])

RefrozenCohort(n) ==
  {c \in validation.cohort : Cardinality({d \in validation.cohort : Ahead(d, c)}) < n}

RefrozenTasks_OfCohort(n) == {c \in RefrozenCohort(n) : Passes(c)} \* mutant: not topped up
RefrozenTasks(n) == First(validation, {c \in validation.seated : Passes(c)}, n)

Refreeze(n) ==
  /\ walk = Absent /\ validation # Absent
  /\ n \in 1..Cardinality(validation.cohort)
  /\ GateOk(RefrozenCohort(n), n) /\ RefrozenTasks(n) # {}
  /\ validation' = [validation EXCEPT !.cohort = RefrozenCohort(n), !.ok = TRUE, !.refrozen = n]
  /\ UNCHANGED <<profile, walk, pool>>

GateNext ==
  \/ \E mode \in Modes, size \in Sizes, jobs \in JobCounts, force \in BOOLEAN : Start(mode, size, jobs, force)
  \/ Batch \/ Freeze \/ Kill
  \/ \E n \in 1..Cardinality(Candidate) : Refreeze(n)

GateSpec == GateInit /\ [][GateNext]_gateVars

-----------------------------------------------------------------------------
(* What the seeded order alone determines: the first eligible candidate of *)
(* each coding task, and of those the first ones of each band.             *)
Claimants(place) ==
  {c \in DOMAIN place :
     /\ Eligible(c)
     /\ \A x \in DOMAIN place : Eligible(x) /\ place[x] < place[c] => Task[x] # Task[c]}

Serial(mode, size) ==
  LET place == Places(mode, size)
  IN  [mode |-> mode, size |-> size, seated |-> Claimants(place), place |-> place, band |-> Banding(mode)]

(* "Which faults reach the cohort and the corpus is a function of the      *)
(* seeded candidate order alone, exactly as at jobs=1": batches that       *)
(* overrun a full band, or hold two faults of one task, change nothing.    *)
(* Of the corpus this asks for the top-up: without it, --no-top-up, what   *)
(* the last batch of a full band adds to the corpus depends on its width.  *)
JobsDoNotMatter ==
  validation # Absent =>
    LET serial == Serial(validation.mode, validation.asked)
    IN  /\ validation.refrozen = Absent => validation.cohort = AllCohort(serial)
        /\ TopUp => pool.tasks = AllChosen(serial)

(* "Exactly what the walk would have held with --corpus-size": cutting a   *)
(* finished report to n gives the corpus a walk for n would have frozen.   *)
RefreezeIsAWalk ==
  validation # Absent =>
    (validation.mode = "programs" =>
       \A n \in 1..Cardinality(validation.cohort) :
         /\ RefrozenCohort(n) = AllCohort(Serial("programs", n))
         /\ TopUp => RefrozenTasks(n) = AllChosen(Serial("programs", n)))

-----------------------------------------------------------------------------
(* What the repository's text claims and the code does not keep.           *)

(* --no-top-up is to "freeze only the passing members of the cohort, do    *)
(* not look further": what the last batch seated past it is frozen too.    *)
OnlyTheCohort ==
  validation # Absent =>
    (~TopUp /\ validation.refrozen = Absent => pool.tasks = {c \in validation.cohort : Passes(c)})

(* refreeze_pool.py "recomputes the two conditions at a smaller N and      *)
(* re-emits tasks.json": the pool of a refrozen report is frozen.          *)
RefrozenPoolIsFrozen == validation # Absent => (validation.refrozen # Absent => pool.frozen)
=============================================================================
