-------------------------------- MODULE Corpus --------------------------------
(***************************************************************************)
(* The corpus: scripts/select_corpus.py walks the gated pool, puts each    *)
(* task into the band its screen measured, and freezes a tasks.json.       *)
(* A later run selects its own corpus, either from a newer merged screen   *)
(* with the corpus before it pinned, so that paid episodes are not lost,   *)
(* or by inheriting the pinned tasks the gate left.                        *)
(***************************************************************************)
EXTENDS Screens

CONSTANTS
  Quota,      \* Quota[b]: how many tasks band b takes
  MinCalls,   \* --min-calls
  MinPerBand, \* --min-per-band
  Pins        \* is the corpus before pinned (not where it is overwritten)

Thresholds == \* in ten-thousandths
  [dead |-> <<0, 200>>, hard |-> <<200, 800>>, medium |-> <<800, 1800>>,
   easy |-> <<1800, 3501>>, too_easy |-> <<3501, 10100>>]

Band == DOMAIN Thresholds

ASSUME CorpusAssumption ==
  /\ Quota \in [Band -> Nat] /\ MinPerBand \in Nat
  /\ MinCalls \in Nat \ {0} /\ Pins \in BOOLEAN

VARIABLE corpus \* the corpus selected last: its tasks with their frozen bands

corpusVars == <<screenVars, corpus>>

BandOf(rec) ==
  CHOOSE b \in Band : /\ Thresholds[b][1] * rec.calls <= 10000 * rec.successes
                      /\ 10000 * rec.successes < Thresholds[b][2] * rec.calls

-----------------------------------------------------------------------------
(* The walk: pinned tasks first, then the rest, each in pool order, as     *)
(* long as the band has room.                                              *)
Placed == {n \in Range(Pool) \cap DOMAIN merged : merged[n].calls >= MinCalls}
InBand(b) == {n \in Placed : BandOf(merged[n]) = b}
At(n) == CHOOSE i \in DOMAIN Pool : Pool[i] = n

Before_PoolOrder(n, x, pinned) == \* mutant: a single pass
  At(n) < At(x)

Before_PinnedLast(n, x, pinned) == \* mutant: the two passes swapped
  \/ n \notin pinned /\ x \in pinned
  \/ (n \in pinned <=> x \in pinned) /\ At(n) < At(x)

Before(n, x, pinned) ==
  \/ n \in pinned /\ x \notin pinned
  \/ (n \in pinned <=> x \in pinned) /\ At(n) < At(x)

Taken(b, pinned) ==
  {x \in InBand(b) : Cardinality({n \in InBand(b) : Before(n, x, pinned)}) < Quota[b]}

Selected(pinned) ==
  LET taken == UNION {Taken(b, pinned) : b \in Band}
  IN  [n \in taken |-> BandOf(merged[n])]

(* Pinned tasks a full band evicted: the one loss that is an error.        *)
Recoverable(pinned) == (pinned \cap Placed) \ DOMAIN Selected(pinned)

Thin(tasks) == \E b \in Band : Cardinality({n \in DOMAIN tasks : tasks[n] = b}) < MinPerBand

(* No screen: the pinned tasks still in the pool, with their frozen bands. *)
Inherited(pin) == [n \in DOMAIN pin \cap Range(Pool) |-> pin[n]]

-----------------------------------------------------------------------------
CorpusInit == ScreensInit /\ corpus = None

Pinned == IF Pins /\ corpus # None THEN DOMAIN corpus ELSE {}

Select(allow) ==
  /\ merged # None
  /\ Recoverable(Pinned) = {} \/ allow
  /\ ~Thin(Selected(Pinned))
  /\ corpus' = Selected(Pinned)
  /\ UNCHANGED screenVars

Inherit ==
  /\ Pinned # {}
  /\ ~Thin(Inherited(corpus))
  /\ corpus' = Inherited(corpus)
  /\ UNCHANGED screenVars

(* The default pattern screen*.json also finds the screening.json of a     *)
(* selection, which is no report: from then on the reports must be named.  *)
MergeScreens(listed) ==
  /\ corpus # None => listed
  /\ Merge /\ UNCHANGED corpus

ShardStep(m) ==
  /\ \/ ScreenTask(m)
     \/ \E r \in ShardRange, k \in Calls : StartScreen(m, r, k)
     \/ \E k \in StopAfter, recorded \in BOOLEAN : Stop(m, k, recorded)
  /\ UNCHANGED corpus

CorpusNext ==
  \/ \E m \in Machine : ShardStep(m) \/ (Update(m) /\ UNCHANGED corpus)
  \/ \E listed \in BOOLEAN : MergeScreens(listed)
  \/ \E allow \in BOOLEAN : Select(allow)
  \/ Inherit

CorpusSpec == CorpusInit /\ [][CorpusNext]_corpusVars

(* Machines get the current pool, started shards run, what the audit asks  *)
(* for is screened again, and the reports are merged by name.              *)
FairCorpusSpec ==
  /\ CorpusSpec
  /\ \A m \in Machine : SF_corpusVars(Update(m) /\ UNCHANGED corpus) /\ WF_corpusVars(ScreenTask(m) /\ UNCHANGED corpus)
  /\ WF_corpusVars(\E m \in Machine, r \in ShardRange : Asked(r) /\ StartScreen(m, r, Depth) /\ UNCHANGED corpus)
  /\ WF_corpusVars(MergeScreens(TRUE))

-----------------------------------------------------------------------------
(* Shards that die, stop at their cap, replace fuller reports or hold an   *)
(* older pool only delay the screen: in the end the merged screen holds    *)
(* every task of the pool at full depth, for good.                         *)
EventuallyCovered ==
  <>[](merged # None /\ \A n \in Range(Pool) : n \in DOMAIN merged /\ merged[n].calls = Depth)

(* "which is the one loss this pin exists to prevent": a pinned task finds *)
(* its band full only if the new screen moved another pinned task into it, *)
(* never because a task without paid episodes was there first.             *)
EvictedOnlyByMoves ==
  merged # None => \A n \in Recoverable(Pinned) :
    \E x \in Pinned \cap InBand(BandOf(merged[n])) : corpus[x] # BandOf(merged[x])

(* Whatever later pools, screens and selections do, a pinned task that is  *)
(* still in the pool and deep enough screened loses its place only to      *)
(* pinned tasks.                                                           *)
PaidTasksKept ==
  [][Pinned # {} /\ corpus' # corpus =>
       \A n \in (Pinned \cap Placed) \ DOMAIN corpus' :
         \A x \in DOMAIN corpus' : corpus'[x] = BandOf(merged[n]) => x \in Pinned]_corpusVars

-----------------------------------------------------------------------------
(* What the repository's text claims and the code does not keep.           *)

(* The hint of a corpus that is short: "screen more candidates and re-run; *)
(* the walk is deterministic, so already-selected tasks keep their places",*)
(* here for tasks whose own band did not change.                           *)
PlacesKept ==
  [][corpus # None /\ corpus' # corpus =>
       \A n \in DOMAIN corpus \cap Placed : BandOf(merged[n]) = corpus[n] => n \in DOMAIN corpus']_corpusVars
=============================================================================
