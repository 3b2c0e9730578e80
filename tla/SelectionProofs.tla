--------------------------- MODULE SelectionProofs ---------------------------
(***************************************************************************)
(* Theorems about the selection of the study's faults.  The corpus: for    *)
(* every pool, shards, depths, quotas and machines, whatever is screened,  *)
(* merged, selected and inherited.  The oracle gate: for every seeded      *)
(* order, tasks, ratings and findings, whatever the batch width.           *)
(***************************************************************************)
EXTENDS Corpus, Gate, FiniteSetTheorems, NaturalsInduction, WellFoundedInduction, TLAPS

(* Every non-empty set of naturals has a least element, and a bounded one  *)
(* a greatest.                                                             *)
LEMMA LeastNumber ==
  ASSUME NEW T, T \subseteq Nat, T # {}
  PROVE  \E m \in T : \A n \in T : m <= n
<1> DEFINE Less == {ss \in Nat \X Nat : ss[1] < ss[2]}
<1>1. IsWellFoundedOn(Less, Nat)
  BY NatLessThanWellFounded DEF OpToRel
<1>2. \E m \in T : \A n \in T : ~(<<n, m>> \in Less)
  <2> HIDE DEF Less
  <2> QED  BY <1>1, WFMin
<1>3. \A m, n \in Nat : ~(<<n, m>> \in Less) => m <= n
  OBVIOUS
<1> QED  BY <1>2, <1>3

LEMMA GreatestNumber ==
  ASSUME NEW T, T \subseteq Nat, T # {}, NEW bound \in Nat, \A n \in T : n <= bound
  PROVE  \E m \in T : \A n \in T : n <= m
<1> DEFINE Gaps == {k \in Nat : \E n \in T : k = bound - n}
<1>1. PICK n \in T : TRUE
  OBVIOUS
<1>2. bound - n \in Gaps
  OBVIOUS
<1>3. PICK k \in Gaps : \A j \in Gaps : k <= j
  <2> Gaps \subseteq Nat /\ Gaps # {}
    BY <1>2
  <2> HIDE DEF Gaps
  <2> QED  BY LeastNumber
<1>4. PICK m \in T : k = bound - m
  OBVIOUS
<1>5. ASSUME NEW j \in T PROVE j <= m
  <2>1. bound - j \in Gaps
    OBVIOUS
  <2>2. k <= bound - j
    BY <1>3, <2>1
  <2> QED  BY <1>4, <2>2
<1> QED  BY <1>5

-----------------------------------------------------------------------------
(* What is frozen before a selection fits its bands, and what the reports  *)
(* say of a task is a count of draws and of accepted ones.                 *)
Measured(rec) == rec.calls \in Nat /\ rec.calls <= Depth /\ rec.successes \in 0..rec.calls

Frozen(b, tasks) == {x \in DOMAIN tasks : tasks[x] = b}

Fits(tasks) ==
  \A b \in Band : IsFiniteSet(Frozen(b, tasks)) /\ Cardinality(Frozen(b, tasks)) <= Quota[b]

CorpusIInv ==
  /\ \A m \in Machine : running[m] # None => running[m].calls \in Calls
  /\ running = [m \in Machine |-> running[m]]
  /\ report = [f \in Report |-> report[f]]
  /\ \A f \in Report : \A n \in DOMAIN report[f] : Measured(report[f][n])
  /\ merged # None => \A n \in DOMAIN merged : Measured(merged[n])
  /\ corpus # None => Fits(corpus)

-----------------------------------------------------------------------------
(* The pool holds finitely many tasks, each at a place of its own.         *)
LEMMA PoolIsASequence == Pool \in Seq(Name) /\ Len(Pool) \in Nat
<1>1. Len(Pools) \in 1..Len(Pools)
  BY ScreensAssumption DEF ScreensAssumption
<1>2. Pools[Len(Pools)] \in Seq(Name)
  BY <1>1, ScreensAssumption DEF ScreensAssumption
<1> QED  BY <1>2 DEF Pool

LEMMA PoolPlaces ==
  ASSUME NEW n \in Range(Pool)
  PROVE  At(n) \in 1..Len(Pool) /\ Pool[At(n)] = n
<1>1. DOMAIN Pool = 1..Len(Pool)
  BY PoolIsASequence
<1>2. \E i \in DOMAIN Pool : Pool[i] = n
  BY DEF Range
<1> QED  BY <1>1, <1>2 DEF At

LEMMA PoolIsFinite == IsFiniteSet(Range(Pool))
<1> DEFINE Place == [n \in Range(Pool) |-> At(n)]
<1>1. Place \in Injection(Range(Pool), 1..Len(Pool))
  BY PoolPlaces DEF Injection, IsInjective
<1>2. IsFiniteSet(1..Len(Pool))
  BY PoolIsASequence, FS_Interval
<1> QED  BY <1>1, <1>2, FS_Injection

(* The walk is an order of the tasks: of those of a band, one is last.     *)
LEMMA WalkIsAnOrder ==
  ASSUME NEW x \in Range(Pool), NEW y \in Range(Pool), NEW pinned, x # y
  PROVE  ~Before(x, x, pinned) /\ (Before(x, y, pinned) <=> ~Before(y, x, pinned))
<1>1. At(x) \in Nat /\ At(y) \in Nat /\ At(x) # At(y)
  BY PoolPlaces, PoolIsASequence
<1> QED  BY <1>1 DEF Before

LEMMA LastOfAWalk ==
  ASSUME NEW S, S \subseteq Range(Pool), S # {}, NEW pinned
  PROVE  \E x \in S : \A y \in S \ {x} : Before(y, x, pinned)
<1> DEFINE Rank(n) == IF n \in pinned THEN At(n) ELSE Len(Pool) + At(n)
           Ranks == {k \in 0..2 * Len(Pool) : \E n \in S : k = Rank(n)}
<1>1. \A n \in S : At(n) \in 1..Len(Pool) /\ Rank(n) \in Ranks
  BY PoolPlaces, PoolIsASequence
<1>2. Ranks \subseteq Nat /\ Ranks # {} /\ 2 * Len(Pool) \in Nat /\ \A k \in Ranks : k <= 2 * Len(Pool)
  BY <1>1, PoolIsASequence
<1>3. PICK k \in Ranks : \A j \in Ranks : j <= k
  <2> HIDE DEF Ranks
  <2> QED  BY <1>2, GreatestNumber
<1>4. PICK x \in S : k = Rank(x)
  OBVIOUS
<1>5. ASSUME NEW y \in S \ {x}
      PROVE  Before(y, x, pinned)
  <2>1. Rank(y) <= Rank(x)
    BY <1>1, <1>3, <1>4
  <2>2. At(y) # At(x)
    BY PoolPlaces
  <2>3. At(x) \in 1..Len(Pool) /\ At(y) \in 1..Len(Pool) /\ Len(Pool) \in Nat
    BY <1>1, PoolIsASequence
  <2> QED  BY <2>1, <2>2, <2>3 DEF Before
<1> QED  BY <1>5

-----------------------------------------------------------------------------
(* A band takes no more tasks than it has room for.                        *)
LEMMA BandsAreFinite ==
  ASSUME NEW b
  PROVE  InBand(b) \subseteq Range(Pool) /\ IsFiniteSet(InBand(b))
<1>1. InBand(b) \in SUBSET Range(Pool)
  BY DEF InBand, Placed
<1> QED  BY <1>1, PoolIsFinite, FS_Subset

LEMMA TakenFits ==
  ASSUME NEW b \in Band, NEW pinned
  PROVE  IsFiniteSet(Taken(b, pinned)) /\ Cardinality(Taken(b, pinned)) <= Quota[b]
<1> DEFINE T == Taken(b, pinned)
<1>1. T \in SUBSET InBand(b) /\ IsFiniteSet(T) /\ Cardinality(T) \in Nat
  <2>1. T \in SUBSET InBand(b)
    BY DEF Taken
  <2>2. IsFiniteSet(T)
    BY <2>1, BandsAreFinite, FS_Subset
  <2> QED  BY <2>1, <2>2, FS_CardinalityType
<1>2. Quota[b] \in Nat
  BY CorpusAssumption DEF CorpusAssumption
<1>3. CASE T = {}
  <2>1. Cardinality(T) = 0
    BY <1>3, FS_EmptySet
  <2> QED  BY <1>1, <1>2, <2>1
<1>4. CASE T # {}
  <2>1. PICK x \in T : \A y \in T \ {x} : Before(y, x, pinned)
    <3>1. T \subseteq Range(Pool)
      BY <1>1, BandsAreFinite
    <3> HIDE DEF T
    <3> QED  BY <1>4, <3>1, LastOfAWalk
  <2> DEFINE A == {n \in InBand(b) : Before(n, x, pinned)}
  <2>2. Cardinality(A) < Quota[b] /\ IsFiniteSet(A) /\ Cardinality(A) \in Nat
    <3>1. Cardinality(A) < Quota[b]
      BY <2>1 DEF Taken
    <3>2. A \in SUBSET InBand(b)
      OBVIOUS
    <3>3. IsFiniteSet(A)
      BY <3>2, BandsAreFinite, FS_Subset
    <3> QED  BY <3>1, <3>3, FS_CardinalityType
  <2>3. T \ {x} \in SUBSET A
    BY <1>1, <2>1
  <2>4. Cardinality(T \ {x}) <= Cardinality(A)
    BY <2>2, <2>3, FS_Subset
  <2>5. Cardinality(T \ {x}) = Cardinality(T) - 1
    BY <1>1, <2>1, FS_RemoveElement
  <2> QED  BY <1>1, <1>2, <2>2, <2>4, <2>5
<1> QED  BY <1>1, <1>3, <1>4

LEMMA SelectedTasks ==
  ASSUME NEW pinned, NEW x \in DOMAIN Selected(pinned)
  PROVE  Selected(pinned)[x] \in Band /\ x \in Taken(Selected(pinned)[x], pinned)
<1>1. PICK b \in Band : x \in Taken(b, pinned)
  BY DEF Selected
<1>2. BandOf(merged[x]) = b
  BY <1>1 DEF Taken, InBand
<1>3. Selected(pinned)[x] = BandOf(merged[x])
  BY DEF Selected
<1> QED  BY <1>1, <1>2, <1>3

LEMMA SelectionFits ==
  ASSUME NEW pinned
  PROVE  Fits(Selected(pinned))
<1> SUFFICES ASSUME NEW b \in Band
             PROVE  /\ IsFiniteSet(Frozen(b, Selected(pinned)))
                    /\ Cardinality(Frozen(b, Selected(pinned))) <= Quota[b]
  BY DEF Fits
<1>1. Frozen(b, Selected(pinned)) \in SUBSET Taken(b, pinned)
  BY SelectedTasks DEF Frozen
<1>2. /\ IsFiniteSet(Taken(b, pinned)) /\ Cardinality(Taken(b, pinned)) <= Quota[b]
      /\ Cardinality(Taken(b, pinned)) \in Nat
  BY TakenFits, FS_CardinalityType
<1>3. /\ IsFiniteSet(Frozen(b, Selected(pinned)))
      /\ Cardinality(Frozen(b, Selected(pinned))) <= Cardinality(Taken(b, pinned))
  BY <1>1, <1>2, FS_Subset
<1>4. Cardinality(Frozen(b, Selected(pinned))) \in Nat /\ Quota[b] \in Nat
  BY <1>3, FS_CardinalityType, CorpusAssumption DEF CorpusAssumption
<1> QED  BY <1>2, <1>3, <1>4

LEMMA InheritanceFits ==
  ASSUME NEW pin, Fits(pin)
  PROVE  Fits(Inherited(pin))
<1> SUFFICES ASSUME NEW b \in Band
             PROVE  /\ IsFiniteSet(Frozen(b, Inherited(pin)))
                    /\ Cardinality(Frozen(b, Inherited(pin))) <= Quota[b]
  BY DEF Fits
<1>1. Frozen(b, Inherited(pin)) \in SUBSET Frozen(b, pin)
  BY DEF Frozen, Inherited
<1>2. /\ IsFiniteSet(Frozen(b, pin)) /\ Cardinality(Frozen(b, pin)) <= Quota[b]
      /\ Cardinality(Frozen(b, pin)) \in Nat
  BY FS_CardinalityType DEF Fits
<1>3. /\ IsFiniteSet(Frozen(b, Inherited(pin)))
      /\ Cardinality(Frozen(b, Inherited(pin))) <= Cardinality(Frozen(b, pin))
  BY <1>1, <1>2, FS_Subset
<1>4. Cardinality(Frozen(b, Inherited(pin))) \in Nat /\ Quota[b] \in Nat
  BY <1>3, FS_CardinalityType, CorpusAssumption DEF CorpusAssumption
<1> QED  BY <1>2, <1>3, <1>4


-----------------------------------------------------------------------------
(* A record is what some draws came out as.                                *)
LEMMA Between ==
  ASSUME NEW w \in Nat, NEW c \in Nat, NEW k \in Nat, c <= k, NEW s \in w..c
  PROVE  s \in 0..k
OBVIOUS

LEMMA RecordsAreMeasured ==
  ASSUME NEW n, NEW k \in Nat, k <= Depth, NEW rec \in Records(n, k)
  PROVE  Measured(rec)
<1> DEFINE S == {i \in 1..k : TRUE \in Judged[n][i]}
           W == {i \in 1..k : Judged[n][i] = {TRUE}}
<1>1. IsFiniteSet(1..k) /\ Cardinality(1..k) = k
  BY FS_Interval
<1>2. S \in SUBSET (1..k) /\ W \in SUBSET (1..k)
  OBVIOUS
<1>3. IsFiniteSet(S) /\ Cardinality(S) <= k /\ IsFiniteSet(W)
  <2> HIDE DEF S, W
  <2> QED  BY <1>1, <1>2, FS_Subset
<1>4. Cardinality(S) \in Nat /\ Cardinality(W) \in Nat
  <2> HIDE DEF S, W
  <2> QED  BY <1>3, FS_CardinalityType
<1>5. Accepts(n, k, TRUE) = Cardinality(W) /\ Accepts(n, k, FALSE) = Cardinality(S)
  BY DEF Accepts
<1>6. PICK s \in Accepts(n, k, TRUE)..Accepts(n, k, FALSE) : rec = [calls |-> k, successes |-> s]
  BY DEF Records
<1>7. s \in 0..k
  <2> HIDE DEF S, W
  <2>1. PICK w \in Nat, c \in Nat : w = Accepts(n, k, TRUE) /\ c = Accepts(n, k, FALSE) /\ c <= k
    BY <1>3, <1>4, <1>5
  <2>2. s \in w..c
    BY <2>1
  <2> QED  BY <2>1, <2>2, Between
<1> QED  BY <1>6, <1>7 DEF Measured

LEMMA DepthIsANumber == Depth \in Nat /\ \A k \in Calls : k \in Nat /\ k <= Depth
BY ScreensAssumption DEF ScreensAssumption

(* The reports that hold a task have a winner among them: the deepest, and *)
(* of those the first in the order of the files.                           *)
LEMMA LeastOf ==
  ASSUME NEW S, S # {}, NEW g, \A x \in S : g[x] \in Nat
  PROVE  \E x \in S : \A y \in S : g[x] <= g[y]
<1> DEFINE T == {k \in Nat : \E x \in S : k = g[x]}
<1>1. \A x \in S : g[x] \in T
  OBVIOUS
<1>2. PICK k \in T : \A j \in T : k <= j
  <2> T \subseteq Nat /\ T # {}
    BY <1>1
  <2> HIDE DEF T
  <2> QED  BY LeastNumber
<1>3. PICK x \in S : k = g[x]
  OBVIOUS
<1> QED  BY <1>1, <1>2, <1>3

LEMMA WinnerExists ==
  ASSUME CorpusIInv, NEW n, Holders(n) # {}
  PROVE  Winner(n, Holders(n)) \in Holders(n)
<1> DEFINE H == Holders(n)
           Lack == [f \in H |-> Depth - report[f][n].calls]
<1>1. \A f \in H : f \in Report /\ n \in DOMAIN report[f] /\ Measured(report[f][n])
  BY DEF Holders, CorpusIInv
<1>2. \A f \in H : Lack[f] \in Nat /\ report[f][n].calls \in Nat
  BY <1>1, DepthIsANumber DEF Measured
<1>3. \A f \in H : f.range[1] \in Nat /\ f.range[2] \in Nat /\ f.machine \in Nat
  <2> SUFFICES ASSUME NEW f \in H PROVE f.range[1] \in Nat /\ f.range[2] \in Nat /\ f.machine \in Nat
    OBVIOUS
  <2>1. f.range \in ShardRange /\ f.machine \in Machine
    BY <1>1 DEF Report
  <2>2. f.range \in (1..Len(Pool)) \X (1..Len(Pool)) /\ f.machine \in Nat
    BY <2>1, ScreensAssumption DEF ScreensAssumption
  <2> QED  BY <2>2, PoolIsASequence
<1>4. PICK f1 \in H : \A g \in H : Lack[f1] <= Lack[g]
  <2> HIDE DEF H, Lack
  <2> QED  BY <1>2, LeastOf DEF H
<1> DEFINE H1 == {f \in H : report[f][n].calls = report[f1][n].calls}
           Lowest == [f \in H1 |-> f.range[1]]
<1>5. PICK f2 \in H1 : \A g \in H1 : Lowest[f2] <= Lowest[g]
  <2>1. H1 # {} /\ \A f \in H1 : Lowest[f] \in Nat
    BY <1>3
  <2> HIDE DEF H1, Lowest
  <2> QED  BY <2>1, LeastOf
<1> DEFINE H2 == {f \in H1 : f.range[1] = f2.range[1]}
           Last == [f \in H2 |-> f.range[2]]
<1>6. PICK f3 \in H2 : \A g \in H2 : Last[f3] <= Last[g]
  <2>1. H2 # {} /\ \A f \in H2 : Last[f] \in Nat
    BY <1>3
  <2> HIDE DEF H2, Last
  <2> QED  BY <2>1, LeastOf
<1> DEFINE H3 == {f \in H2 : f.range[2] = f3.range[2]}
           Where == [f \in H3 |-> f.machine]
<1>7. PICK f4 \in H3 : \A g \in H3 : Where[f4] <= Where[g]
  <2>1. H3 # {} /\ \A f \in H3 : Where[f] \in Nat
    BY <1>3
  <2> HIDE DEF H3, Where
  <2> QED  BY <2>1, LeastOf
<1>8. ASSUME NEW g \in H \ {f4}
      PROVE  Wins(f4, g, n)
  <2>1. f4 \in H /\ report[f4][n].calls = report[f1][n].calls
        /\ f4.range[1] = f2.range[1] /\ f4.range[2] = f3.range[2]
    OBVIOUS
  <2>2. report[g][n].calls <= report[f4][n].calls
    <3>1. Lack[f1] <= Lack[g] /\ Lack[f1] = Depth - report[f1][n].calls /\ Lack[g] = Depth - report[g][n].calls
      BY <1>4
    <3>2. report[f1][n].calls \in Nat /\ report[g][n].calls \in Nat
      BY <1>2
    <3> QED  BY <2>1, <3>1, <3>2, DepthIsANumber
  <2>3. CASE g \notin H1
    <3>1. report[g][n].calls # report[f4][n].calls
      BY <2>1, <2>3
    <3>2. report[f4][n].calls \in Nat /\ report[g][n].calls \in Nat
      BY <1>2, <2>1
    <3> QED  BY <2>2, <3>1, <3>2 DEF Wins
  <2>4. CASE g \in H1 \ H2
    <3>1. f4.range[1] <= g.range[1] /\ f4.range[1] # g.range[1]
      BY <1>5, <2>1, <2>4
    <3>2. f4.range[1] < g.range[1]
      BY <1>3, <2>1, <3>1
    <3> QED  BY <2>1, <2>4, <3>2 DEF Wins, FileBefore
  <2>5. CASE g \in H2 \ H3
    <3>1. f4.range[2] <= g.range[2] /\ f4.range[2] # g.range[2] /\ f4.range[1] = g.range[1]
      BY <1>6, <2>1, <2>5
    <3>2. f4.range[2] < g.range[2]
      BY <1>3, <2>1, <3>1
    <3> QED  BY <2>1, <2>5, <3>1, <3>2 DEF Wins, FileBefore
  <2>6. CASE g \in H3
    <3>1. f4.machine <= g.machine
      BY <1>7, <2>6
    <3>2. f4.range[1] = g.range[1] /\ f4.range[2] = g.range[2]
      BY <2>1, <2>6
    <3>3. f4.range = g.range
      <4>1. f4.range \in Nat \X Nat /\ g.range \in Nat \X Nat
        BY <1>1, <2>1, PoolIsASequence, ScreensAssumption DEF ScreensAssumption, Report
      <4> QED  BY <3>2, <4>1
    <3>4. f4.machine # g.machine
      <4>1. f4 \in Report /\ g \in Report /\ f4 # g
        BY <1>1, <2>1
      <4> QED  BY <3>3, <4>1 DEF Report
    <3>5. f4.machine < g.machine
      BY <1>3, <2>1, <3>1, <3>4
    <3> QED  BY <2>1, <2>6, <3>3, <3>5 DEF Wins, FileBefore
  <2> QED  BY <2>3, <2>4, <2>5, <2>6
<1>9. \E f \in H : \A g \in H \ {f} : Wins(f, g, n)
  <2>1. f4 \in H
    OBVIOUS
  <2> QED  BY <1>8, <2>1
<1> QED  BY <1>9 DEF Winner

LEMMA MergedIsMeasured ==
  ASSUME CorpusIInv, NEW n \in DOMAIN Merged
  PROVE  Measured(Merged[n])
<1>1. PICK f \in Report : n \in DOMAIN report[f]
  BY DEF Merged
<1>2. Holders(n) # {}
  BY <1>1 DEF Holders
<1>3. Winner(n, Holders(n)) \in Holders(n)
  BY <1>2, WinnerExists
<1>4. Measured(report[Winner(n, Holders(n))][n])
  BY <1>3 DEF Holders, CorpusIInv
<1> QED  BY <1>4 DEF Merged

(* The bands cover every rate a screen can measure.                        *)
LEMMA EveryRateHasABand ==
  ASSUME NEW rec, Measured(rec), rec.calls >= MinCalls
  PROVE  BandOf(rec) \in Band
<1>1. rec.calls \in Nat /\ rec.calls > 0 /\ rec.successes \in Nat /\ rec.successes <= rec.calls
  BY CorpusAssumption DEF CorpusAssumption, Measured
<1>2. Band = {"dead", "hard", "medium", "easy", "too_easy"}
  BY DEF Band, Thresholds
<1>3. /\ Thresholds["dead"] = <<0, 200>> /\ Thresholds["hard"] = <<200, 800>>
      /\ Thresholds["medium"] = <<800, 1800>> /\ Thresholds["easy"] = <<1800, 3501>>
      /\ Thresholds["too_easy"] = <<3501, 10100>>
  BY DEF Thresholds
<1>4. PICK c \in Nat, s \in Nat : c = rec.calls /\ s = rec.successes /\ c > 0 /\ s <= c
  BY <1>1
<1>5. \/ 0 * c <= 10000 * s /\ 10000 * s < 200 * c
      \/ 200 * c <= 10000 * s /\ 10000 * s < 800 * c
      \/ 800 * c <= 10000 * s /\ 10000 * s < 1800 * c
      \/ 1800 * c <= 10000 * s /\ 10000 * s < 3501 * c
      \/ 3501 * c <= 10000 * s /\ 10000 * s < 10100 * c
  BY <1>4
<1>6. \E b \in Band : Thresholds[b][1] * c <= 10000 * s /\ 10000 * s < Thresholds[b][2] * c
  BY <1>2, <1>3, <1>5
<1> QED  BY <1>4, <1>6 DEF BandOf


-----------------------------------------------------------------------------
LEMMA CorpusInitial == CorpusInit => CorpusIInv
<1> SUFFICES ASSUME CorpusInit PROVE CorpusIInv
  OBVIOUS
<1>1. /\ running = [m \in Machine |-> None] /\ report = [f \in Report |-> Empty]
      /\ merged = None /\ corpus = None
  BY DEF CorpusInit, ScreensInit
<1>2. \A f \in Report : DOMAIN report[f] = {}
  BY <1>1 DEF Empty
<1> QED  BY <1>1, <1>2 DEF CorpusIInv

(* The report of a shard holds what it held before, and a measured record. *)
LEMMA CheckpointIsMeasured ==
  ASSUME CorpusIInv, NEW run, NEW rec, Measured(rec), report' = Checkpoint(run, rec)
  PROVE  /\ report' = [f \in Report |-> report'[f]]
         /\ \A f \in Report : \A n \in DOMAIN report'[f] : Measured(report'[f][n])
<1>1. report' = [report EXCEPT ![run.file] = With(IF run.first THEN Empty ELSE @, Head(run.todo), rec)]
  BY DEF Checkpoint
<1>2. report = [f \in Report |-> report[f]]
  BY DEF CorpusIInv
<1>3. report' = [f \in Report |-> report'[f]]
  BY <1>1, <1>2
<1>4. ASSUME NEW held, \A n \in DOMAIN held : Measured(held[n]),
             NEW n \in DOMAIN With(held, Head(run.todo), rec)
      PROVE  Measured(With(held, Head(run.todo), rec)[n])
  BY <1>4 DEF With
<1>5. ASSUME NEW f \in Report, NEW n \in DOMAIN report'[f]
      PROVE  Measured(report'[f][n])
  <2>1. \A x \in DOMAIN report[f] : Measured(report[f][x])
    BY DEF CorpusIInv
  <2>2. \A x \in DOMAIN Empty : Measured(Empty[x])
    BY DEF Empty
  <2>3. CASE f # run.file
    <3>1. report'[f] = report[f]
      BY <1>1, <1>2, <2>3
    <3> QED  BY <1>5, <2>1, <3>1
  <2>4. CASE f = run.file
    <3>1. \/ report'[f] = With(Empty, Head(run.todo), rec)
          \/ report'[f] = With(report[f], Head(run.todo), rec)
      BY <1>1, <1>2, <2>4
    <3> QED  BY <1>4, <1>5, <2>1, <2>2, <3>1
  <2> QED  BY <2>3, <2>4
<1> QED  BY <1>3, <1>5

LEMMA ShardStepKeeps ==
  ASSUME CorpusIInv, NEW m \in Machine, ShardStep(m) \/ (Update(m) /\ UNCHANGED corpus)
  PROVE  CorpusIInv'
<1>1. UNCHANGED <<merged, corpus>>
  BY DEF ShardStep, ScreenTask, StartScreen, Stop, Update
<1>2. SUFFICES /\ \A x \in Machine : running'[x] # None => running'[x].calls \in Calls
               /\ running' = [x \in Machine |-> running'[x]]
               /\ report' = [f \in Report |-> report'[f]]
               /\ \A f \in Report : \A n \in DOMAIN report'[f] : Measured(report'[f][n])
  BY <1>1 DEF CorpusIInv, Fits, Frozen
<1>3. ASSUME NEW r \in ShardRange, NEW k \in Calls, StartScreen(m, r, k)
      PROVE  /\ \A x \in Machine : running'[x] # None => running'[x].calls \in Calls
             /\ running' = [x \in Machine |-> running'[x]] /\ report' = report
  BY <1>3 DEF StartScreen, CorpusIInv
<1>4. CASE Update(m)
  BY <1>4 DEF Update, CorpusIInv
<1>5. CASE ScreenTask(m)
  <2>1. running[m] # None /\ running[m].calls \in Calls
    BY <1>5 DEF ScreenTask, CorpusIInv
  <2>2. PICK rec \in Records(Head(running[m].todo), running[m].calls) : report' = Checkpoint(running[m], rec)
    BY <1>5 DEF ScreenTask
  <2>3. Measured(rec)
    BY <2>1, DepthIsANumber, RecordsAreMeasured
  <2>4. \/ running' = [running EXCEPT ![m] = None]
        \/ running' = [running EXCEPT ![m] = [running[m] EXCEPT !.todo = Tail(@), !.first = FALSE]]
    BY <1>5 DEF ScreenTask
  <2>5. [running[m] EXCEPT !.todo = Tail(@), !.first = FALSE].calls = running[m].calls
    OBVIOUS
  <2>6. /\ \A x \in Machine : running'[x] # None => running'[x].calls \in Calls
        /\ running' = [x \in Machine |-> running'[x]]
    BY <2>1, <2>4, <2>5 DEF CorpusIInv
  <2> QED  BY <2>2, <2>3, <2>6, CheckpointIsMeasured
<1>6. ASSUME NEW k \in StopAfter, NEW recorded \in BOOLEAN, Stop(m, k, recorded)
      PROVE  /\ \A x \in Machine : running'[x] # None => running'[x].calls \in Calls
             /\ running' = [x \in Machine |-> running'[x]]
             /\ report' = [f \in Report |-> report'[f]]
             /\ \A f \in Report : \A n \in DOMAIN report'[f] : Measured(report'[f][n])
  <2>1. k \in Nat /\ k <= Depth
    BY DepthIsANumber, ScreensAssumption DEF ScreensAssumption
  <2>2. /\ \A x \in Machine : running'[x] # None => running'[x].calls \in Calls
        /\ running' = [x \in Machine |-> running'[x]]
    BY <1>6 DEF Stop, CorpusIInv
  <2>3. CASE report' = report
    BY <2>2, <2>3 DEF CorpusIInv
  <2>4. ASSUME NEW rec \in Records(Head(running[m].todo), k), report' = Checkpoint(running[m], rec)
        PROVE  /\ report' = [f \in Report |-> report'[f]]
               /\ \A f \in Report : \A n \in DOMAIN report'[f] : Measured(report'[f][n])
    BY <2>1, <2>4, RecordsAreMeasured, CheckpointIsMeasured
  <2>5. \/ report' = report
        \/ \E rec \in Records(Head(running[m].todo), k) : report' = Checkpoint(running[m], rec)
    BY <1>6 DEF Stop
  <2> QED  BY <2>2, <2>3, <2>4, <2>5
<1>7. ASSUME report' = report
      PROVE  /\ report' = [f \in Report |-> report'[f]]
             /\ \A f \in Report : \A n \in DOMAIN report'[f] : Measured(report'[f][n])
  BY <1>7 DEF CorpusIInv
<1> QED  BY <1>3, <1>4, <1>5, <1>6, <1>7 DEF ShardStep

LEMMA CorpusKeeps ==
  ASSUME CorpusIInv, [CorpusNext]_corpusVars
  PROVE  CorpusIInv'
<1>1. ASSUME NEW m \in Machine, ShardStep(m) \/ (Update(m) /\ UNCHANGED corpus)
      PROVE  CorpusIInv'
  BY <1>1, ShardStepKeeps
<1>2. ASSUME NEW listed \in BOOLEAN, MergeScreens(listed)
      PROVE  CorpusIInv'
  <2>1. merged' = Merged /\ UNCHANGED <<running, report, corpus>>
    BY <1>2 DEF MergeScreens, Merge
  <2>2. \A n \in DOMAIN merged' : Measured(merged'[n])
    BY <2>1, MergedIsMeasured
  <2> QED  BY <2>1, <2>2 DEF CorpusIInv, Fits, Frozen
<1>3. ASSUME UNCHANGED screenVars, corpus' # None => Fits(corpus')
      PROVE  CorpusIInv'
  BY <1>3 DEF screenVars, CorpusIInv, Fits, Frozen
<1>4. ASSUME NEW allow \in BOOLEAN, Select(allow)
      PROVE  CorpusIInv'
  <2>1. corpus' = Selected(Pinned) /\ UNCHANGED screenVars
    BY <1>4 DEF Select
  <2>2. Fits(corpus')
    BY <2>1, SelectionFits
  <2> QED  BY <1>3, <2>1, <2>2
<1>5. CASE Inherit
  <2>1. corpus # None /\ corpus' = Inherited(corpus) /\ UNCHANGED screenVars
    BY <1>5 DEF Inherit, Pinned
  <2>2. Fits(corpus')
    BY <2>1, InheritanceFits DEF CorpusIInv
  <2> QED  BY <1>3, <2>1, <2>2
<1>6. CASE UNCHANGED corpusVars
  BY <1>3, <1>6 DEF corpusVars, CorpusIInv
<1> QED  BY <1>1, <1>2, <1>4, <1>5, <1>6 DEF CorpusNext

-----------------------------------------------------------------------------
(* What keeps a pinned task out of its band are pinned tasks before it.    *)
LEMMA OutOfBand ==
  ASSUME NEW b \in Band, NEW pinned, NEW n \in pinned, n \in InBand(b), n \notin Taken(b, pinned)
  PROVE  LET A == {x \in InBand(b) : Before(x, n, pinned)}
         IN  /\ A \subseteq pinned /\ n \notin A
             /\ IsFiniteSet(A) /\ Cardinality(A) \in Nat /\ Cardinality(A) >= Quota[b]
<1> DEFINE A == {x \in InBand(b) : Before(x, n, pinned)}
<1>1. A \subseteq pinned
  BY DEF Before
<1>2. n \notin A
  <2>1. n \in Range(Pool)
    BY BandsAreFinite
  <2>2. At(n) \in Nat
    BY <2>1, PoolPlaces, PoolIsASequence
  <2> QED  BY <2>2 DEF Before
<1>3. IsFiniteSet(A) /\ Cardinality(A) \in Nat
  <2>1. A \in SUBSET InBand(b)
    OBVIOUS
  <2> HIDE DEF A
  <2>2. IsFiniteSet(A)
    BY <2>1, BandsAreFinite, FS_Subset
  <2> QED  BY <2>2, FS_CardinalityType
<1>4. ~(Cardinality(A) < Quota[b])
  BY DEF Taken
<1>5. Quota[b] \in Nat
  BY CorpusAssumption DEF CorpusAssumption
<1>6. Cardinality(A) >= Quota[b]
  <2> HIDE DEF A
  <2> QED  BY <1>3, <1>4, <1>5
<1> QED  BY <1>1, <1>2, <1>3, <1>6

LEMMA EvictionNeedsAMove ==
  ASSUME CorpusIInv
  PROVE  EvictedOnlyByMoves
<1> SUFFICES ASSUME merged # None, NEW n \in Recoverable(Pinned),
                    \A x \in Pinned \cap InBand(BandOf(merged[n])) : corpus[x] = BandOf(merged[x])
             PROVE  FALSE
  BY DEF EvictedOnlyByMoves
<1> DEFINE b == BandOf(merged[n])
           A == {x \in InBand(b) : Before(x, n, Pinned)}
<1>1. n \in Pinned /\ n \in Placed /\ n \notin DOMAIN Selected(Pinned)
  BY DEF Recoverable
<1>2. corpus # None /\ Pinned = DOMAIN corpus
  BY <1>1 DEF Pinned
<1>3. b \in Band
  <2>1. n \in DOMAIN merged /\ merged[n].calls >= MinCalls
    BY <1>1 DEF Placed
  <2> QED  BY <2>1, EveryRateHasABand DEF CorpusIInv
<1>4. n \in InBand(b) /\ n \notin Taken(b, Pinned)
  <2>1. n \notin UNION {Taken(c, Pinned) : c \in Band}
    BY <1>1 DEF Selected
  <2> QED  BY <1>1, <1>3, <2>1 DEF InBand
<1>5. /\ A \subseteq Pinned /\ n \notin A
      /\ IsFiniteSet(A) /\ Cardinality(A) \in Nat /\ Cardinality(A) >= Quota[b]
  <2> HIDE DEF b
  <2> QED  BY <1>1, <1>3, <1>4, OutOfBand
<1>6. IsFiniteSet(A \cup {n}) /\ Cardinality(A \cup {n}) = Cardinality(A) + 1
  <2> HIDE DEF A
  <2> QED  BY <1>5, FS_AddElement
<1>7. A \cup {n} \in SUBSET Frozen(b, corpus)
  <2> SUFFICES ASSUME NEW x \in A \cup {n} PROVE x \in Frozen(b, corpus)
    OBVIOUS
  <2>1. x \in Pinned /\ x \in InBand(b)
    BY <1>1, <1>4, <1>5
  <2>2. BandOf(merged[x]) = b
    BY <2>1 DEF InBand
  <2> QED  BY <1>2, <2>1, <2>2 DEF Frozen
<1>8. IsFiniteSet(Frozen(b, corpus)) /\ Cardinality(Frozen(b, corpus)) <= Quota[b]
  BY <1>2, <1>3 DEF CorpusIInv, Fits
<1>9. Cardinality(A \cup {n}) <= Cardinality(Frozen(b, corpus))
  <2> HIDE DEF A, b
  <2> QED  BY <1>7, <1>8, FS_Subset
<1>10. Quota[b] \in Nat /\ Cardinality(Frozen(b, corpus)) \in Nat
  BY <1>3, <1>8, FS_CardinalityType, CorpusAssumption DEF CorpusAssumption
<1> HIDE DEF A, b
<1> QED  BY <1>5, <1>6, <1>8, <1>9, <1>10

(* A step that costs a pinned task its place gave it to pinned tasks.      *)
LEMMA PlacesGoToPaidTasks ==
  ASSUME CorpusIInv, CorpusNext, Pinned # {}, corpus' # corpus,
         NEW n \in (Pinned \cap Placed) \ DOMAIN corpus',
         NEW x \in DOMAIN corpus', corpus'[x] = BandOf(merged[n])
  PROVE  x \in Pinned
<1>1. CASE \E allow \in BOOLEAN : Select(allow)
  <2> DEFINE b == BandOf(merged[n])
             A == {y \in InBand(b) : Before(y, n, Pinned)}
             B == {y \in InBand(b) : Before(y, x, Pinned)}
  <2>1. corpus' = Selected(Pinned)
    BY <1>1 DEF Select
  <2>2. b \in Band /\ x \in Taken(b, Pinned)
    BY <2>1, SelectedTasks
  <2>3. n \in InBand(b) /\ n \in Pinned /\ n \notin Taken(b, Pinned)
    <3>1. n \notin UNION {Taken(c, Pinned) : c \in Band}
      BY <2>1 DEF Selected
    <3> QED  BY <2>2, <3>1 DEF InBand
  <2>4. /\ A \subseteq Pinned /\ IsFiniteSet(A)
        /\ Cardinality(A) \in Nat /\ Cardinality(A) >= Quota[b]
    <3> HIDE DEF b
    <3> QED  BY <2>2, <2>3, OutOfBand
  <2>5. Cardinality(B) < Quota[b] /\ IsFiniteSet(B) /\ Cardinality(B) \in Nat
    <3>1. Cardinality(B) < Quota[b]
      BY <2>2 DEF Taken
    <3>2. B \in SUBSET InBand(b)
      OBVIOUS
    <3> HIDE DEF B
    <3>3. IsFiniteSet(B)
      BY <3>2, BandsAreFinite, FS_Subset
    <3> QED  BY <3>1, <3>3, FS_CardinalityType
  <2>6. ASSUME x \notin Pinned PROVE FALSE
    <3>1. A \in SUBSET B
      BY <2>4, <2>6 DEF Before
    <3>2. Cardinality(A) <= Cardinality(B)
      <4> HIDE DEF A, B
      <4> QED  BY <2>5, <3>1, FS_Subset
    <3>3. Quota[b] \in Nat
      BY <2>2, CorpusAssumption DEF CorpusAssumption
    <3> HIDE DEF A, B, b
    <3> QED  BY <2>4, <2>5, <3>2, <3>3
  <2> QED  BY <2>6
<1>2. CASE Inherit
  BY <1>2 DEF Inherit, Inherited, Pinned
<1>3. \/ \E allow \in BOOLEAN : Select(allow)
      \/ Inherit
  BY DEF CorpusNext, ShardStep, MergeScreens
<1> QED  BY <1>1, <1>2, <1>3

-----------------------------------------------------------------------------
(* The pin prevents the loss it is there for: a pinned task finds its band *)
(* full only if the new screen moved another pinned task into it.          *)
THEOREM PinsAreEvictedOnlyByMoves == CorpusSpec => []EvictedOnlyByMoves
<1>1. CorpusInit => CorpusIInv
  BY CorpusInitial
<1>2. CorpusIInv /\ [CorpusNext]_corpusVars => CorpusIInv'
  BY CorpusKeeps
<1>3. CorpusIInv => EvictedOnlyByMoves
  BY EvictionNeedsAMove
<1> QED  BY <1>1, <1>2, <1>3, PTL DEF CorpusSpec

(* Whatever later pools, screens and selections do, a place a pinned task  *)
(* loses goes to pinned tasks.                                             *)
THEOREM PaidTasksKeepTheirPlaces == CorpusSpec => PaidTasksKept
<1>1. CorpusInit => CorpusIInv
  BY CorpusInitial
<1>2. CorpusIInv /\ [CorpusNext]_corpusVars => CorpusIInv'
  BY CorpusKeeps
<1>3. CorpusIInv /\ [CorpusNext]_corpusVars =>
        [Pinned # {} /\ corpus' # corpus =>
           \A n \in (Pinned \cap Placed) \ DOMAIN corpus' :
             \A x \in DOMAIN corpus' : corpus'[x] = BandOf(merged[n]) => x \in Pinned]_corpusVars
  <2> SUFFICES ASSUME CorpusIInv, CorpusNext, Pinned # {}, corpus' # corpus,
                      NEW n \in (Pinned \cap Placed) \ DOMAIN corpus',
                      NEW x \in DOMAIN corpus', corpus'[x] = BandOf(merged[n])
               PROVE  x \in Pinned
    BY DEF corpusVars
  <2> QED  BY PlacesGoToPaidTasks
<1> QED  BY <1>1, <1>2, <1>3, PTL DEF CorpusSpec, PaidTasksKept

-----------------------------------------------------------------------------
(* The oracle gate.                                                        *)

(* Until a band is full its seats are the claimants met so far; then they  *)
(* are those met before a place where the band was full already.           *)
SeatedBefore(w, b, m) ==
  In(w, w.seated, b) = {c \in In(w, Claimants(w.place), b) : w.place[c] < m}

WalkOk(w) ==
  /\ DOMAIN w = {"mode", "size", "jobs", "at", "seated", "place", "band"}
  /\ w.mode \in Modes /\ w.size \in Sizes /\ w.jobs \in JobCounts /\ w.at \in Nat
  /\ w.mode = "terciles" => w.size # AutoSize
  /\ w.place = Places(w.mode, w.size) /\ w.band = Banding(w.mode)
  /\ w.seated \subseteq Claimants(w.place)
  /\ \A b \in Bands(w.mode) :
       \E m \in Nat : SeatedBefore(w, b, m) /\ m <= w.at /\ (m = w.at \/ BandFull(w, b))

(* A report holds what the seeded order alone determines; a given list is  *)
(* cut to its first ones, and its seats suffice to fill every cut.         *)
ReportOk(v, tasks) ==
  LET s == Serial(v.mode, v.asked)
  IN  /\ DOMAIN v = {"mode", "asked", "place", "band", "cohort", "seated", "ok", "refrozen"}
      /\ v.mode \in Modes /\ v.asked \in Sizes
      /\ v.place = s.place /\ v.band = s.band
      /\ v.refrozen = Absent => v.cohort = AllCohort(s)
      /\ TopUp => tasks = AllChosen(s)

ListOk(v) ==
  LET s == Serial(v.mode, v.asked)
  IN  /\ \E k \in Nat \cup {AutoSize} : v.cohort = First(s, s.seated, k)
      /\ \E m \in Nat : v.seated = {c \in s.seated : s.place[c] < m}
      /\ \/ v.seated = s.seated
         \/ TopUp => Cardinality({c \in v.seated : Passes(c)}) >= Cardinality(v.cohort)

GateIInv ==
  /\ walk # Absent => WalkOk(walk)
  /\ validation # Absent => ReportOk(validation, pool.tasks)
  /\ validation # Absent => (validation.mode = "programs" => ListOk(validation))

-----------------------------------------------------------------------------
(* The first n of a finite set by their places.                            *)
LEMMA AutoIsNoNumber == AutoSize \notin Nat /\ Absent \notin Nat
  BY GateAssumption

LEMMA FirstAll == ASSUME NEW w, NEW C PROVE First(w, C, AutoSize) = C
  BY DEF First

LEMMA FirstFew ==
  ASSUME NEW w, NEW C, NEW n \in Nat
  PROVE  First(w, C, n) = {c \in C : Cardinality({d \in C : w.place[d] < w.place[c]}) < n}
<1>1. n # AutoSize
  BY AutoIsNoNumber
<1> QED  BY <1>1 DEF First

LEMMA CountBelow ==
  ASSUME NEW w, NEW C, IsFiniteSet(C), NEW n
  PROVE  /\ IsFiniteSet({d \in C : w.place[d] < n})
         /\ Cardinality({d \in C : w.place[d] < n}) \in Nat
         /\ Cardinality({d \in C : w.place[d] < n}) <= Cardinality(C)
  BY FS_Subset, FS_CardinalityType

LEMMA CountOrder ==
  ASSUME NEW S, NEW T, S \subseteq T, IsFiniteSet(T)
  PROVE  IsFiniteSet(S) /\ Cardinality(S) \in Nat /\ Cardinality(T) \in Nat /\ Cardinality(S) <= Cardinality(T)
  BY FS_Subset, FS_CardinalityType

(* Who comes later has more before him.                                    *)
LEMMA LaterHasMore ==
  ASSUME NEW f, NEW C, IsFiniteSet(C), \A c \in C : f[c] \in Int,
         NEW c \in C, NEW d \in C, f[c] < f[d]
  PROVE  Cardinality({x \in C : f[x] < f[c]}) < Cardinality({x \in C : f[x] < f[d]})
<1> DEFINE below(y) == {x \in C : f[x] < f[y]}
<1>1. below(c) \cup {c} \subseteq below(d)
  OBVIOUS
<1>2. c \notin below(c)
  OBVIOUS
<1>3. IsFiniteSet(below(d)) /\ IsFiniteSet(below(c)) /\ Cardinality(below(c)) \in Nat
  BY CountOrder
<1>4. Cardinality(below(c) \cup {c}) = Cardinality(below(c)) + 1
  <2> HIDE DEF below
  <2> QED  BY <1>2, <1>3, FS_AddElement
<1>5. Cardinality(below(c) \cup {c}) <= Cardinality(below(d)) /\ Cardinality(below(d)) \in Nat
  <2> HIDE DEF below
  <2> QED  BY <1>1, <1>3, CountOrder
<1> QED
  <2> HIDE DEF below
  <2>1. Cardinality(below(c)) < Cardinality(below(d))
    BY <1>3, <1>4, <1>5
  <2> QED  BY <2>1 DEF below

(* An initial part of at least n members has the same first n.             *)
LEMMA FirstOfInitialPart ==
  ASSUME NEW w, NEW C, IsFiniteSet(C), \A c \in C : w.place[c] \in Nat, NEW m \in Nat, NEW n \in Nat,
         Cardinality({c \in C : w.place[c] < m}) >= n
  PROVE  First(w, {c \in C : w.place[c] < m}, n) = First(w, C, n)
<1> DEFINE A == {c \in C : w.place[c] < m}
<1>1. ASSUME NEW c \in A
      PROVE  {d \in A : w.place[d] < w.place[c]} = {d \in C : w.place[d] < w.place[c]}
  OBVIOUS
<1>2. ASSUME NEW c \in C, Cardinality({d \in C : w.place[d] < w.place[c]}) < n
      PROVE  c \in A
  <2> SUFFICES ASSUME c \notin A PROVE FALSE
    OBVIOUS
  <2>1. A \subseteq {d \in C : w.place[d] < w.place[c]}
    OBVIOUS
  <2>2. Cardinality(A) <= Cardinality({d \in C : w.place[d] < w.place[c]}) /\ Cardinality(A) \in Nat
        /\ Cardinality({d \in C : w.place[d] < w.place[c]}) \in Nat
    <3> HIDE DEF A
    <3> QED  BY <2>1, CountBelow, CountOrder
  <2> QED  BY <1>2, <2>2
<1>3. First(w, A, n) = {c \in A : Cardinality({d \in C : w.place[d] < w.place[c]}) < n}
  <2>1. First(w, A, n) = {c \in A : Cardinality({d \in A : w.place[d] < w.place[c]}) < n}
    <3> HIDE DEF A
    <3> QED  BY FirstFew
  <2>2. \A c \in A : Cardinality({d \in A : w.place[d] < w.place[c]}) = Cardinality({d \in C : w.place[d] < w.place[c]})
    <3> HIDE DEF A
    <3> QED  BY <1>1
  <2> HIDE DEF A
  <2> QED  BY <2>1, <2>2
<1>4. A \subseteq C
  OBVIOUS
<1> HIDE DEF A
<1>5. First(w, A, n) = First(w, C, n)
  BY <1>2, <1>3, <1>4, FirstFew
<1> QED  BY <1>5 DEF A

(* The first n of the first k are the first n.                             *)
LEMMA FirstOfFirst ==
  ASSUME NEW w, NEW C, IsFiniteSet(C), \A c \in C : w.place[c] \in Nat,
         NEW k \in Nat \cup {AutoSize}, NEW n \in Nat, n <= Cardinality(First(w, C, k))
  PROVE  First(w, First(w, C, k), n) = First(w, C, n)
<1>1. CASE k = AutoSize
  BY <1>1, FirstAll
<1>2. CASE k \in Nat
  <2> DEFINE below(c) == {d \in C : w.place[d] < w.place[c]}
             F == {c \in C : Cardinality(below(c)) < k}
  <2>0. First(w, C, k) = F
    BY <1>2, FirstFew
  <2>1. \A c \in C : IsFiniteSet(below(c)) /\ Cardinality(below(c)) \in Nat
    BY CountBelow
  <2>2. ASSUME NEW c \in F, NEW d \in C, w.place[d] <= w.place[c]
        PROVE  d \in F
    <3>1. below(d) \subseteq below(c)
      BY <2>2
    <3>2. Cardinality(below(d)) <= Cardinality(below(c))
      <4> HIDE DEF below
      <4> QED  BY <3>1, <2>1, CountOrder
    <3>3. Cardinality(below(c)) < k /\ Cardinality(below(d)) \in Nat /\ Cardinality(below(c)) \in Nat
      BY <2>1, <2>2
    <3>4. Cardinality(below(d)) < k
      <4> HIDE DEF below
      <4> QED  BY <3>2, <3>3, <1>2
    <3> QED  BY <3>4
  <2>3. ASSUME NEW c \in F PROVE {d \in F : w.place[d] < w.place[c]} = below(c)
    <3>1. \A d \in below(c) : d \in F
      <4> SUFFICES ASSUME NEW d \in below(c) PROVE d \in F
        OBVIOUS
      <4>1. d \in C /\ w.place[d] <= w.place[c]
        OBVIOUS
      <4> QED
        <5> HIDE DEF F, below
        <5> QED  BY <2>2, <2>3, <4>1
    <3>2. F \subseteq C
      OBVIOUS
    <3> HIDE DEF F
    <3> QED  BY <3>1, <3>2
  <2>4. ASSUME NEW c \in C, Cardinality(below(c)) < n PROVE c \in F
    <3> SUFFICES ASSUME c \notin F PROVE FALSE
      OBVIOUS
    <3>1. F \subseteq below(c)
      <4> SUFFICES ASSUME NEW d \in F, d \notin below(c) PROVE FALSE
        OBVIOUS
      <4>1. w.place[c] <= w.place[d] /\ d \in C
        OBVIOUS
      <4> QED
        <5> HIDE DEF F, below
        <5> QED  BY <2>2, <4>1
    <3>2. Cardinality(F) <= Cardinality(below(c)) /\ Cardinality(F) \in Nat /\ Cardinality(below(c)) \in Nat
      <4> HIDE DEF F, below
      <4> QED  BY <3>1, <2>1, CountOrder
    <3>3. n <= Cardinality(F)
      <4> HIDE DEF F
      <4> QED  BY <2>0
    <3> HIDE DEF F, below
    <3> QED  BY <3>2, <3>3, <2>4
  <2>5. F \subseteq C
    OBVIOUS
  <2>6. First(w, F, n) = {c \in F : Cardinality(below(c)) < n}
    <3>1. First(w, F, n) = {c \in F : Cardinality({d \in F : w.place[d] < w.place[c]}) < n}
      <4> HIDE DEF F
      <4> QED  BY FirstFew
    <3> HIDE DEF F, below
    <3> QED  BY <3>1, <2>3
  <2>7. First(w, C, n) = {c \in C : Cardinality(below(c)) < n}
    BY FirstFew
  <2> HIDE DEF F, below
  <2> QED  BY <2>0, <2>4, <2>5, <2>6, <2>7
<1> QED  BY <1>1, <1>2

(* Candidates at different places: the first n are at most n.              *)
LEMMA FirstIsBounded ==
  ASSUME NEW w, NEW C, IsFiniteSet(C), \A c \in C : w.place[c] \in Nat,
         \A c, d \in C : w.place[c] = w.place[d] => c = d, NEW n \in Nat
  PROVE  IsFiniteSet(First(w, C, n)) /\ Cardinality(First(w, C, n)) <= n
<1> DEFINE rank(c) == Cardinality({d \in C : w.place[d] < w.place[c]})
           F == {c \in C : rank(c) < n}
           f == [c \in F |-> rank(c)]
<1>0. First(w, C, n) = F
  BY FirstFew
<1>1. \A c \in C : rank(c) \in Nat
  BY CountBelow
<1>2. \A c, d \in C : rank(c) = rank(d) => c = d
  <2> SUFFICES ASSUME NEW c \in C, NEW d \in C, rank(c) = rank(d), c # d PROVE FALSE
    OBVIOUS
  <2>1. w.place[c] < w.place[d] \/ w.place[d] < w.place[c]
    OBVIOUS
  <2>2. ASSUME NEW x \in C, NEW y \in C, w.place[x] < w.place[y] PROVE rank(x) < rank(y)
    <3>1. \A z \in C : w.place[z] \in Int
      OBVIOUS
    <3> QED  BY <2>2, <3>1, LaterHasMore
  <2>3. rank(c) < rank(d) \/ rank(d) < rank(c)
    <3> HIDE DEF rank
    <3> QED  BY <2>1, <2>2
  <2> HIDE DEF rank
  <2> QED  BY <2>3, <1>1
<1>3. f \in Injection(F, 0..n - 1)
  <2>1. f \in [F -> 0..n - 1]
    <3> HIDE DEF rank
    <3> QED  BY <1>1
  <2>2. \A a, b \in F : f[a] = f[b] => a = b
    <3> HIDE DEF rank
    <3> QED  BY <1>2
  <2> HIDE DEF f, F
  <2> QED  BY <2>1, <2>2 DEF Injection, IsInjective
<1>4. IsFiniteSet(0..n - 1) /\ Cardinality(0..n - 1) = n
  BY FS_Interval
<1> HIDE DEF f, F
<1>5. IsFiniteSet(F) /\ Cardinality(F) <= n
  BY <1>3, <1>4, FS_Injection
<1> QED  BY <1>0, <1>5
-----------------------------------------------------------------------------
(* Strata and places: the faults of a task share a stratum, and each       *)
(* candidate has a place of its own.                                       *)
LEMMA Listing ==
  ASSUME NEW mode
  PROVE  /\ DOMAIN Banding(mode) = Listed(mode)
         /\ Listed(mode) \subseteq Candidate
         /\ IsFiniteSet(Listed(mode))
         /\ \A c \in Listed(mode) : c \in Nat
<1>1. Candidate \subseteq Nat /\ IsFiniteSet(Candidate)
  BY GateAssumption
<1>2. DOMAIN Banding(mode) = Listed(mode)
  BY DEF Banding
<1>3. Listed(mode) \subseteq Candidate
  BY DEF Listed
<1> QED  BY <1>1, <1>2, <1>3, FS_Subset

LEMMA Banded ==
  ASSUME NEW mode
  PROVE  /\ \A c \in Listed(mode) : Banding(mode)[c] \in Bands(mode) /\ Banding(mode)[c] \in 1..3
         /\ \A c, d \in Listed(mode) : Task[c] = Task[d] => Banding(mode)[c] = Banding(mode)[d]
<1> DEFINE easy == Cut({Task[c] : c \in Listed(mode)}, 1)
           medium == Cut({Task[c] : c \in Listed(mode)}, 2)
           stratum(t) == IF mode # "terciles" \/ Rating[t] < easy THEN 1
                         ELSE IF Rating[t] < medium THEN 2 ELSE 3
<1>1. \A c \in Listed(mode) : Banding(mode)[c] = stratum(Task[c])
  BY DEF Banding
<1>2. \A t : stratum(t) \in Bands(mode) /\ stratum(t) \in 1..3
  BY DEF Bands, Strata
<1> HIDE DEF stratum
<1> QED  BY <1>1, <1>2

LEMMA TurnsDiffer ==
  ASSUME NEW mode, NEW c \in Listed(mode), NEW d \in Listed(mode)
  PROVE  /\ Turn(Banding(mode), c) \in Nat
         /\ Turn(Banding(mode), c) = Turn(Banding(mode), d) => c = d
<1> DEFINE band == Banding(mode)
           row(x) == Cardinality({y \in DOMAIN band : band[y] = band[x] /\ y < x})
<1>1. IsFiniteSet(DOMAIN band) /\ DOMAIN band = Listed(mode) /\ \A x \in DOMAIN band : x \in Int
  BY Listing
<1>2. \A x \in DOMAIN band : row(x) \in Nat
  <2> SUFFICES ASSUME NEW x \in DOMAIN band PROVE row(x) \in Nat
    OBVIOUS
  <2>1. {y \in DOMAIN band : band[y] = band[x] /\ y < x} \subseteq DOMAIN band
    OBVIOUS
  <2> QED  BY <1>1, <2>1, CountOrder
<1>3. ASSUME NEW x \in DOMAIN band, NEW y \in DOMAIN band, band[x] = band[y], x < y
      PROVE  row(x) < row(y)
  <2> DEFINE S == {z \in DOMAIN band : band[z] = band[x]}
             f == [z \in S |-> z]
  <2>1. IsFiniteSet(S)
    BY <1>1, FS_Subset
  <2>2. Cardinality({z \in S : f[z] < f[x]}) < Cardinality({z \in S : f[z] < f[y]})
    <3>1. \A z \in S : f[z] \in Int
      BY <1>1
    <3>2. x \in S /\ y \in S /\ f[x] < f[y]
      BY <1>3
    <3> HIDE DEF S, f
    <3> QED  BY <2>1, <3>1, <3>2, LaterHasMore
  <2>3. {z \in S : f[z] < f[x]} = {z \in DOMAIN band : band[z] = band[x] /\ z < x}
    BY <1>3
  <2>4. {z \in S : f[z] < f[y]} = {z \in DOMAIN band : band[z] = band[y] /\ z < y}
    BY <1>3
  <2> HIDE DEF S, f
  <2> QED  BY <2>2, <2>3, <2>4
<1>4. \A x \in DOMAIN band : band[x] \in 1..3
  BY <1>1, Banded
<1>5. \A x \in DOMAIN band : Turn(band, x) = 3 * row(x) + band[x]
  BY DEF Turn
<1> HIDE DEF band, row
<1>6. Turn(band, c) \in Nat
  BY <1>1, <1>2, <1>4, <1>5
<1>7. ASSUME Turn(band, c) = Turn(band, d) PROVE c = d
  <2>1. band[c] = band[d] /\ row(c) = row(d)
    BY <1>1, <1>2, <1>4, <1>5, <1>7
  <2>2. ~(c < d) /\ ~(d < c)
    BY <1>1, <1>2, <1>3, <2>1
  <2> QED  BY <1>1, <2>2
<1> QED  BY <1>6, <1>7 DEF band

LEMMA PlacesDiffer ==
  ASSUME NEW mode, NEW size
  PROVE  /\ DOMAIN Places(mode, size) \subseteq Listed(mode)
         /\ IsFiniteSet(DOMAIN Places(mode, size))
         /\ \A c \in DOMAIN Places(mode, size) : Places(mode, size)[c] \in Nat
         /\ \A c, d \in DOMAIN Places(mode, size) : Places(mode, size)[c] = Places(mode, size)[d] => c = d
<1> DEFINE D == Listed(mode)
           f == [c \in D |-> Turn(Banding(mode), c)]
           rank(c) == Cardinality({d \in D : f[d] < f[c]})
           place == Places(mode, size)
<1>1. IsFiniteSet(D) /\ DOMAIN Banding(mode) = D
  BY Listing
<1>2. DOMAIN place \subseteq D
  BY <1>1 DEF Places
<1>3. \A c \in DOMAIN place : place[c] = rank(c) + 1
  <2>1. \A c \in DOMAIN place :
          place[c] = Cardinality({d \in DOMAIN Banding(mode) : Turn(Banding(mode), d) < Turn(Banding(mode), c)}) + 1
    BY DEF Places
  <2>2. \A c \in D : {d \in DOMAIN Banding(mode) : Turn(Banding(mode), d) < Turn(Banding(mode), c)}
                       = {d \in D : f[d] < f[c]}
    BY <1>1
  <2> HIDE DEF place, f, D
  <2> QED  BY <1>2, <2>1, <2>2
<1>4. \A c \in D : rank(c) \in Nat
  <2> HIDE DEF f, D
  <2>1. \A c \in D : {d \in D : f[d] < f[c]} \subseteq D
    OBVIOUS
  <2> QED  BY <1>1, <2>1, CountOrder
<1>5. \A c \in D : f[c] \in Int
  BY TurnsDiffer
<1>6. \A c, d \in D : f[c] = f[d] => c = d
  BY TurnsDiffer
<1>7. \A c, d \in D : f[c] < f[d] => rank(c) < rank(d)
  <2> HIDE DEF f, D
  <2> QED  BY <1>1, <1>5, LaterHasMore
<1>8. IsFiniteSet(DOMAIN place)
  BY <1>1, <1>2, FS_Subset
<1> HIDE DEF f, D, rank
<1>9. \A c \in DOMAIN place : place[c] \in Nat
  <2> HIDE DEF place
  <2> QED  BY <1>2, <1>3, <1>4
<1>10. \A c, d \in DOMAIN place : place[c] = place[d] => c = d
  <2> HIDE DEF place
  <2>1. SUFFICES ASSUME NEW c \in DOMAIN place, NEW d \in DOMAIN place, place[c] = place[d] PROVE c = d
    OBVIOUS
  <2>2. c \in D /\ d \in D /\ rank(c) = rank(d)
    BY <1>2, <1>3, <1>4, <2>1
  <2>3. ~(f[c] < f[d]) /\ ~(f[d] < f[c])
    BY <1>4, <1>7, <2>2
  <2> QED  BY <1>5, <1>6, <2>2, <2>3
<1> QED  BY <1>2, <1>8, <1>9, <1>10 DEF D

-----------------------------------------------------------------------------
(* Claims: of the eligible faults of a task exactly the first has a seat.  *)
LEMMA FirstOfTask ==
  ASSUME NEW place, \A c \in DOMAIN place : place[c] \in Nat,
         NEW c \in DOMAIN place, Eligible(c)
  PROVE  \E d \in Claimants(place) : Task[d] = Task[c] /\ place[d] <= place[c]
<1> DEFINE same == {d \in DOMAIN place : Eligible(d) /\ Task[d] = Task[c]}
           T == {place[d] : d \in same}
<1>1. T \subseteq Nat /\ T # {} /\ place[c] \in T
  OBVIOUS
<1>2. PICK m \in T : \A n \in T : m <= n
  <2> HIDE DEF T
  <2> QED  BY <1>1, LeastNumber
<1>3. PICK d \in same : place[d] = m
  OBVIOUS
<1>4. \A x \in DOMAIN place : Eligible(x) /\ place[x] < place[d] => Task[x] # Task[d]
  <2> SUFFICES ASSUME NEW x \in DOMAIN place, Eligible(x), place[x] < place[d], Task[x] = Task[d]
               PROVE  FALSE
    OBVIOUS
  <2>1. place[x] \in T
    BY <1>3
  <2> QED
    <3> HIDE DEF T
    <3>1. m <= place[x] /\ place[x] \in Nat /\ place[d] \in Nat
      BY <1>1, <1>2, <1>3, <2>1
    <3> QED  BY <3>1, <1>3
<1>5. d \in Claimants(place)
  BY <1>3, <1>4 DEF Claimants
<1>6. m <= place[c]
  <2> HIDE DEF T
  <2> QED  BY <1>1, <1>2
<1> QED  BY <1>3, <1>5, <1>6
LEMMA WalkFacts ==
  ASSUME NEW w, WalkOk(w)
  PROVE  /\ IsFiniteSet(DOMAIN w.place)
         /\ \A c \in DOMAIN w.place : w.place[c] \in Nat /\ w.band[c] \in Bands(w.mode)
         /\ \A c, d \in DOMAIN w.place : Task[c] = Task[d] => w.band[c] = w.band[d]
         /\ \A c, d \in DOMAIN w.place : w.place[c] = w.place[d] => c = d
         /\ Claimants(w.place) \subseteq DOMAIN w.place
<1>1. w.place = Places(w.mode, w.size) /\ w.band = Banding(w.mode)
  BY DEF WalkOk
<1>2. DOMAIN w.place \subseteq Listed(w.mode)
  BY <1>1, PlacesDiffer
<1>3. Claimants(w.place) \subseteq DOMAIN w.place
  BY DEF Claimants
<1> QED  BY <1>1, <1>2, <1>3, PlacesDiffer, Banded

(* A batch gives the bands that have room the claimants it meets, and the  *)
(* full ones nobody.                                                       *)
BatchOf(w, end) ==
  {c \in DOMAIN w.place : /\ w.at <= w.place[c] /\ w.place[c] < end
                          /\ ~BandFull(w, w.band[c])}

LEMMA SeatsOfFullBand ==
  ASSUME NEW w, NEW b, BandFull(w, b), NEW end
  PROVE  In(w, w.seated \cup Seats(w, BatchOf(w, end)), b) = In(w, w.seated, b)
<1>1. \A c \in Seats(w, BatchOf(w, end)) : ~BandFull(w, w.band[c])
  BY DEF Seats, BatchOf
<1> QED  BY <1>1 DEF In

LEMMA SeatsOfOpenBand ==
  ASSUME NEW w, WalkOk(w), NEW b \in Bands(w.mode), ~BandFull(w, b), NEW end \in Nat, w.at <= end
  PROVE  In(w, w.seated \cup Seats(w, BatchOf(w, end)), b) = {c \in In(w, Claimants(w.place), b) : w.place[c] < end}
<1> DEFINE place == w.place
           batch == BatchOf(w, end)
<1>1. /\ \A c \in DOMAIN place : place[c] \in Nat
      /\ \A c, d \in DOMAIN place : Task[c] = Task[d] => w.band[c] = w.band[d]
      /\ Claimants(place) \subseteq DOMAIN place
      /\ w.seated \subseteq Claimants(place) /\ w.at \in Nat
  BY WalkFacts DEF WalkOk
<1>2. In(w, w.seated, b) = {c \in In(w, Claimants(place), b) : place[c] < w.at}
  BY DEF WalkOk, SeatedBefore
<1>3. ASSUME NEW c \in Seats(w, batch), w.band[c] = b
      PROVE  c \in Claimants(place) /\ place[c] < end
  <2>1. /\ c \in DOMAIN place /\ Eligible(c) /\ w.at <= place[c] /\ place[c] < end
        /\ \A x \in w.seated : Task[x] # Task[c]
        /\ \A x \in batch : Eligible(x) /\ place[x] < place[c] => Task[x] # Task[c]
    BY DEF Seats, BatchOf
  <2>2. ASSUME NEW x \in DOMAIN place, Eligible(x), place[x] < place[c], Task[x] = Task[c]
        PROVE  FALSE
    <3>1. w.band[x] = b
      BY <1>1, <1>3, <2>1, <2>2
    <3>2. CASE w.at <= place[x]
      <4>1. x \in batch
        BY <1>1, <2>1, <2>2, <3>1, <3>2 DEF BatchOf
      <4> QED  BY <2>1, <2>2, <4>1
    <3>3. CASE place[x] < w.at
      <4>1. PICK y \in Claimants(place) : Task[y] = Task[x] /\ place[y] <= place[x]
        BY <1>1, <2>2, FirstOfTask
      <4>2. y \in DOMAIN place /\ w.band[y] = b /\ place[y] < w.at
        BY <1>1, <2>2, <3>1, <3>3, <4>1
      <4>3. y \in w.seated
        BY <1>2, <4>1, <4>2 DEF In
      <4> QED  BY <2>1, <2>2, <4>1, <4>3
    <3> QED  BY <1>1, <2>2, <3>2, <3>3
  <2> QED  BY <2>1, <2>2 DEF Claimants
<1>4. ASSUME NEW c \in Claimants(place), w.band[c] = b, place[c] < end, c \notin w.seated
      PROVE  c \in Seats(w, batch)
  <2>1. c \in DOMAIN place /\ Eligible(c)
        /\ \A x \in DOMAIN place : Eligible(x) /\ place[x] < place[c] => Task[x] # Task[c]
    BY DEF Claimants
  <2>2. w.at <= place[c]
    BY <1>1, <1>2, <1>4, <2>1 DEF In
  <2>3. c \in batch
    BY <1>4, <2>1, <2>2 DEF BatchOf
  <2>4. ASSUME NEW x \in w.seated, Task[x] = Task[c] PROVE FALSE
    <3>1. x \in DOMAIN place /\ Eligible(x) /\ w.band[x] = b
      BY <1>1, <1>4, <2>1, <2>4 DEF Claimants
    <3>2. place[x] < w.at
      BY <1>2, <3>1 DEF In
    <3>3. place[x] < place[c]
      BY <1>1, <2>1, <2>2, <3>1, <3>2
    <3> QED  BY <2>1, <2>4, <3>1, <3>3
  <2>5. \A x \in batch : x \in DOMAIN place
    BY DEF BatchOf
  <2> QED  BY <2>1, <2>3, <2>4, <2>5 DEF Seats
<1>5. ASSUME NEW c \in In(w, w.seated, b)
      PROVE  c \in In(w, Claimants(place), b) /\ place[c] < end
  <2>1. c \in In(w, Claimants(place), b) /\ place[c] < w.at
    BY <1>2, <1>5
  <2>2. place[c] \in Nat
    BY <1>1, <2>1 DEF In
  <2> QED  BY <1>1, <2>1, <2>2
<1> HIDE DEF place, batch
<1>6. \A c \in In(w, w.seated \cup Seats(w, batch), b) : c \in In(w, Claimants(place), b) /\ place[c] < end
  BY <1>3, <1>5 DEF In
<1>7. \A c \in In(w, Claimants(place), b) : place[c] < end => c \in In(w, w.seated \cup Seats(w, batch), b)
  BY <1>4 DEF In
<1>8. In(w, w.seated \cup Seats(w, batch), b) = {c \in In(w, Claimants(place), b) : place[c] < end}
  BY <1>6, <1>7
<1> QED  BY <1>8 DEF place, batch

(* Whether a band is full is settled by its seats.                         *)
LEMMA SameSeatsSameBand ==
  ASSUME NEW v, NEW w, NEW b, v.mode = w.mode, v.size = w.size, v.place = w.place,
         In(v, v.seated, b) = In(w, w.seated, b)
  PROVE  BandFull(v, b) <=> BandFull(w, b)
<1>1. \A S, n : First(v, S, n) = First(w, S, n)
  BY DEF First
<1>2. Cohort(v, b) = Cohort(w, b) /\ Passing(v, b) = Passing(w, b)
  BY <1>1 DEF Cohort, Passing
<1> QED  BY <1>2 DEF BandFull

LEMMA BatchKeepsWalk ==
  ASSUME NEW w, WalkOk(w), NEW v,
         v = [w EXCEPT !.at = w.at + 3 * w.jobs,
                       !.seated = w.seated \cup Seats(w, BatchOf(w, w.at + 3 * w.jobs))]
  PROVE  WalkOk(v)
<1> DEFINE end == w.at + 3 * w.jobs
           seats == Seats(w, BatchOf(w, end))
<1>0. JobCounts \subseteq Nat
  BY GateAssumption
<1>1. end \in Nat /\ w.at \in Nat /\ w.at <= end
  BY <1>0 DEF WalkOk
<1>2. /\ v.mode = w.mode /\ v.size = w.size /\ v.jobs = w.jobs /\ v.place = w.place /\ v.band = w.band
      /\ v.at = end /\ v.seated = w.seated \cup seats /\ DOMAIN v = DOMAIN w
  <2> HIDE DEF seats
  <2> QED  BY DEF WalkOk, seats
<1> HIDE DEF end
<1>3. \A S, b : In(v, S, b) = In(w, S, b)
  BY <1>2 DEF In
<1>4. ASSUME NEW b \in Bands(w.mode)
      PROVE  \E m \in Nat : SeatedBefore(v, b, m) /\ m <= v.at /\ (m = v.at \/ BandFull(v, b))
  <2>1. CASE BandFull(w, b)
    <3>1. In(v, v.seated, b) = In(w, w.seated, b)
      BY <1>2, <1>3, <2>1, SeatsOfFullBand
    <3>2. PICK m \in Nat : SeatedBefore(w, b, m) /\ m <= w.at
      BY DEF WalkOk
    <3>3. SeatedBefore(v, b, m)
      <4>1. In(w, w.seated, b) = {c \in In(w, Claimants(w.place), b) : w.place[c] < m}
        BY <3>2 DEF SeatedBefore
      <4>2. In(v, Claimants(v.place), b) = In(w, Claimants(w.place), b) /\ v.place = w.place
        BY <1>2, <1>3
      <4> QED  BY <3>1, <4>1, <4>2 DEF SeatedBefore
    <3>4. BandFull(v, b)
      BY <1>2, <2>1, <3>1, SameSeatsSameBand
    <3> QED  BY <1>1, <1>2, <3>2, <3>3, <3>4
  <2>2. CASE ~BandFull(w, b)
    <3>1. In(v, v.seated, b) = {c \in In(w, Claimants(w.place), b) : w.place[c] < end}
      BY <1>1, <1>2, <1>3, <2>2, SeatsOfOpenBand
    <3>2. SeatedBefore(v, b, end)
      BY <1>2, <1>3, <3>1 DEF SeatedBefore
    <3> QED  BY <1>1, <1>2, <3>2
  <2> QED  BY <2>1, <2>2
<1>5. v.seated \subseteq Claimants(v.place)
  <2> SUFFICES ASSUME NEW c \in seats, c \notin w.seated PROVE c \in Claimants(w.place)
    BY <1>2 DEF WalkOk
  <2>1. c \in DOMAIN w.place
    BY DEF Seats, BatchOf
  <2>2. ~BandFull(w, w.band[c])
    BY DEF Seats, BatchOf
  <2>3. w.band[c] \in Bands(w.mode)
    BY <2>1, WalkFacts
  <2>4. c \in In(w, w.seated \cup seats, w.band[c])
    BY DEF In
  <2>5. c \in In(w, Claimants(w.place), w.band[c])
    BY <1>1, <2>2, <2>3, <2>4, SeatsOfOpenBand
  <2> QED  BY <2>5 DEF In
<1> QED  BY <1>1, <1>2, <1>4, <1>5 DEF WalkOk

-----------------------------------------------------------------------------
(* A walk that has ended freezes what a serial one would.                  *)
LEMMA ShareOf ==
  ASSUME NEW w, WalkOk(w)
  PROVE  Share(w.mode, w.size) \in Nat \cup {AutoSize}
<1>1. Sizes \subseteq (Nat \ {0}) \cup {AutoSize}
  BY GateAssumption
<1>2. w.size \in Nat \cup {AutoSize} /\ (w.mode = "terciles" => w.size \in Nat)
  BY <1>1 DEF WalkOk
<1>3. \A k \in Nat : k \div 3 \in Nat
  OBVIOUS
<1> QED  BY <1>2, <1>3 DEF Share

LEMMA EndedBand ==
  ASSUME NEW w, WalkOk(w), Done(w), NEW b \in Bands(w.mode)
  PROVE  In(w, w.seated, b) = In(w, Claimants(w.place), b) \/ BandFull(w, b)
<1>1. PICK m \in Nat : SeatedBefore(w, b, m) /\ (m = w.at \/ BandFull(w, b))
  BY DEF WalkOk
<1>2. CASE \A c \in DOMAIN w.place : w.place[c] < w.at
  <2>1. ASSUME m = w.at PROVE In(w, w.seated, b) = In(w, Claimants(w.place), b)
    <3>1. \A c \in In(w, Claimants(w.place), b) : w.place[c] < m
      BY <1>2, <2>1, WalkFacts DEF In
    <3> QED  BY <1>1, <3>1 DEF SeatedBefore
  <2> QED  BY <1>1, <2>1
<1> QED  BY <1>2 DEF Done

(* The serial walk of the same arguments, as a record.                     *)
LEMMA SerialOf ==
  ASSUME NEW w, WalkOk(w)
  PROVE  LET s == Serial(w.mode, w.size)
         IN  /\ s.mode = w.mode /\ s.size = w.size /\ s.place = w.place /\ s.band = w.band
             /\ s.seated = Claimants(w.place)
             /\ \A S, b : In(s, S, b) = In(w, S, b)
             /\ \A S, n : First(s, S, n) = First(w, S, n)
<1> DEFINE s == Serial(w.mode, w.size)
<1>1. s.mode = w.mode /\ s.size = w.size /\ s.place = w.place /\ s.band = w.band /\ s.seated = Claimants(w.place)
  BY DEF Serial, WalkOk
<1> HIDE DEF s
<1>2. \A S, b : In(s, S, b) = In(w, S, b)
  BY <1>1 DEF In
<1>3. \A S, n : First(s, S, n) = First(w, S, n)
  BY <1>1 DEF First
<1> QED  BY <1>1, <1>2, <1>3 DEF s

LEMMA EndedIsSerial ==
  ASSUME NEW w, WalkOk(w), Done(w)
  PROVE  /\ AllCohort(w) = AllCohort(Serial(w.mode, w.size))
         /\ TopUp => AllChosen(w) = AllChosen(Serial(w.mode, w.size))
<1> DEFINE s == Serial(w.mode, w.size)
           q == Share(w.mode, w.size)
<1>1. /\ s.mode = w.mode /\ s.size = w.size
      /\ s.seated = Claimants(w.place)
      /\ \A S, b : In(s, S, b) = In(w, S, b)
      /\ \A S, n : First(s, S, n) = First(w, S, n)
  BY SerialOf
<1> HIDE DEF s
<1>2. ASSUME NEW b \in Bands(w.mode)
      PROVE  Cohort(w, b) = Cohort(s, b) /\ (TopUp => Chosen(w, b) = Chosen(s, b))
  <2> DEFINE claims == In(w, Claimants(w.place), b)
             passing == {c \in claims : Passes(c)}
  <2>1. Cohort(s, b) = First(w, claims, q) /\ Chosen(s, b) = First(w, passing, q)
    BY <1>1 DEF Cohort, Chosen, Passing
  <2>2. Cohort(w, b) = First(w, In(w, w.seated, b), q)
        /\ Chosen(w, b) = First(w, {c \in In(w, w.seated, b) : Passes(c)}, q)
    BY DEF Cohort, Chosen, Passing
  <2>3. CASE In(w, w.seated, b) = claims
    BY <2>1, <2>2, <2>3
  <2>4. CASE BandFull(w, b)
    <3>1. q \in Nat
      BY <2>4, ShareOf DEF BandFull
    <3>2. PICK m \in Nat : In(w, w.seated, b) = {c \in claims : w.place[c] < m}
      BY DEF WalkOk, SeatedBefore
    <3>3. claims \subseteq DOMAIN w.place /\ IsFiniteSet(claims) /\ passing \subseteq claims /\ IsFiniteSet(passing)
      <4>1. claims \subseteq DOMAIN w.place
        BY WalkFacts DEF In
      <4> QED  BY <4>1, WalkFacts, FS_Subset
    <3>4. \A c \in claims : w.place[c] \in Nat
      BY <3>3, WalkFacts
    <3>5. First(w, {c \in claims : w.place[c] < m}, q) = First(w, claims, q)
      <4> DEFINE early == {c \in claims : w.place[c] < m}
      <4>1. Cardinality(First(w, early, q)) >= q
        BY <2>2, <2>4, <3>2 DEF BandFull
      <4>2. IsFiniteSet(early) /\ First(w, early, q) \subseteq early
        <5>1. early \subseteq claims
          OBVIOUS
        <5> HIDE DEF early, claims, q
        <5>2. IsFiniteSet(early)
          BY <3>3, <5>1, FS_Subset
        <5>3. First(w, early, q) \subseteq early
          <6>1. First(w, early, q) = {c \in early : Cardinality({d \in early : w.place[d] < w.place[c]}) < q}
            BY <3>1, FirstFew
          <6> QED  BY <6>1
        <5> QED  BY <5>2, <5>3
      <4>3. Cardinality(early) >= q
        <5> HIDE DEF early
        <5> QED  BY <3>1, <4>1, <4>2, CountOrder
      <4> QED
        <5> HIDE DEF claims, q
        <5> QED  BY <3>1, <3>3, <3>4, <4>3, FirstOfInitialPart DEF early
    <3>6. ASSUME TopUp
          PROVE  First(w, {c \in In(w, w.seated, b) : Passes(c)}, q) = First(w, passing, q)
      <4>1. {c \in In(w, w.seated, b) : Passes(c)} = {c \in passing : w.place[c] < m}
        BY <3>2
      <4>2. Cardinality({c \in passing : w.place[c] < m}) >= q
        BY <2>4, <3>6, <4>1 DEF BandFull, Passing
      <4>3. \A c \in passing : w.place[c] \in Nat
        BY <3>3, <3>4
      <4> HIDE DEF passing, q
      <4>4. First(w, {c \in passing : w.place[c] < m}, q) = First(w, passing, q)
        BY <3>1, <3>3, <4>2, <4>3, FirstOfInitialPart
      <4> QED  BY <4>1, <4>4
    <3> HIDE DEF claims, passing, q
    <3> QED  BY <2>1, <2>2, <3>2, <3>5, <3>6
  <2> QED  BY <2>3, <2>4, EndedBand
<1>3. AllCohort(w) = AllCohort(s)
  BY <1>1, <1>2 DEF AllCohort
<1>4. TopUp => AllChosen(w) = AllChosen(s)
  BY <1>1, <1>2 DEF AllChosen
<1> QED  BY <1>3, <1>4 DEF s

-----------------------------------------------------------------------------
(* A given list: one band, and every claimant at a place of its own.       *)
LEMMA GivenList ==
  ASSUME NEW size
  PROVE  LET s == Serial("programs", size)
         IN  /\ s.mode = "programs" /\ s.size = size /\ s.place = Places("programs", size)
             /\ s.seated = Claimants(Places("programs", size)) /\ s.band = Banding("programs")
             /\ IsFiniteSet(s.seated)
             /\ \A c \in s.seated : s.place[c] \in Nat /\ s.band[c] = 1
             /\ \A c, d \in s.seated : s.place[c] = s.place[d] => c = d
             /\ \A S : S \subseteq s.seated => In(s, S, 1) = S
             /\ Bands("programs") = {1} /\ Share("programs", size) = size
             /\ AllCohort(s) = First(s, s.seated, size)
             /\ AllChosen(s) = First(s, {c \in s.seated : Passes(c)}, size)
<1> DEFINE s == Serial("programs", size)
<1>1. /\ s.mode = "programs" /\ s.size = size /\ s.place = Places("programs", size)
      /\ s.seated = Claimants(Places("programs", size)) /\ s.band = Banding("programs")
  BY DEF Serial
<1> HIDE DEF s
<1>2. Bands("programs") = {1} /\ Share("programs", size) = size
  BY DEF Bands, Share
<1>3. s.seated \subseteq DOMAIN s.place /\ DOMAIN s.place \subseteq Listed("programs")
  BY <1>1, PlacesDiffer DEF Claimants
<1>4. IsFiniteSet(s.seated)
  <2>1. IsFiniteSet(DOMAIN s.place)
    BY <1>1, PlacesDiffer
  <2> QED  BY <1>3, <2>1, FS_Subset
<1>5. \A c \in s.seated : s.place[c] \in Nat
  BY <1>1, <1>3, PlacesDiffer
<1>6. \A c \in s.seated : s.band[c] = 1
  BY <1>1, <1>2, <1>3, Banded
<1>7. \A c, d \in s.seated : s.place[c] = s.place[d] => c = d
  <2>1. \A c, d \in DOMAIN s.place : s.place[c] = s.place[d] => c = d
    BY <1>1, PlacesDiffer
  <2> QED  BY <1>3, <2>1
<1>8. ASSUME NEW S, S \subseteq s.seated PROVE In(s, S, 1) = S
  BY <1>6, <1>8 DEF In
<1>9. Cohort(s, 1) = First(s, s.seated, size) /\ Chosen(s, 1) = First(s, {c \in s.seated : Passes(c)}, size)
  <2>1. In(s, s.seated, 1) = s.seated
    BY <1>8
  <2> QED  BY <1>1, <1>2, <2>1 DEF Cohort, Chosen, Passing
<1>10. AllCohort(s) = Cohort(s, 1) /\ AllChosen(s) = Chosen(s, 1)
  BY <1>1, <1>2 DEF AllCohort, AllChosen
<1> QED  BY <1>1, <1>2, <1>4, <1>5, <1>6, <1>7, <1>8, <1>9, <1>10 DEF s

(* Its walk is the same whatever the size.                                 *)
LEMMA OneList ==
  ASSUME NEW m, NEW n
  PROVE  LET s == Serial("programs", m)
             r == Serial("programs", n)
         IN  /\ r.place = s.place /\ r.seated = s.seated /\ r.band = s.band
             /\ \A S, k : First(r, S, k) = First(s, S, k)
<1> DEFINE s == Serial("programs", m)
           r == Serial("programs", n)
<1>1. Places("programs", m) = Places("programs", n)
  BY DEF Places
<1>2. r.place = s.place /\ r.seated = s.seated /\ r.band = s.band
  BY <1>1 DEF Serial
<1> HIDE DEF s, r
<1>3. \A S, k : First(r, S, k) = First(s, S, k)
  BY <1>2 DEF First
<1> QED  BY <1>2, <1>3 DEF s, r

(* Cutting a report of a given list takes the first of its cohort.         *)
LEMMA CutIsFirst ==
  ASSUME validation # Absent, validation.mode = "programs", ReportOk(validation, pool.tasks), ListOk(validation),
         NEW n \in Nat
  PROVE  LET s == Serial("programs", validation.asked)
         IN  /\ RefrozenCohort(n) = First(s, validation.cohort, n)
             /\ RefrozenTasks(n) = First(s, {c \in validation.seated : Passes(c)}, n)
             /\ validation.cohort \subseteq s.seated /\ validation.seated \subseteq s.seated
<1> DEFINE s == Serial("programs", validation.asked)
<1>1. /\ validation.place = s.place /\ validation.band = s.band
      /\ \E k \in Nat \cup {AutoSize} : validation.cohort = First(s, s.seated, k)
      /\ \E m \in Nat : validation.seated = {c \in s.seated : s.place[c] < m}
  BY DEF ReportOk, ListOk
<1>2. /\ \A c \in s.seated : s.place[c] \in Nat /\ s.band[c] = 1
      /\ IsFiniteSet(s.seated)
  BY GivenList
<1> HIDE DEF s
<1>3. validation.cohort \subseteq s.seated /\ validation.seated \subseteq s.seated
  BY <1>1 DEF First
<1>4. \A S : First(validation, S, n) = First(s, S, n)
  BY <1>1 DEF First
<1>5. \A c \in validation.cohort :
        {d \in validation.cohort : Ahead(d, c)} = {d \in validation.cohort : s.place[d] < s.place[c]}
  BY <1>1, <1>2, <1>3 DEF Ahead
<1>6. RefrozenCohort(n) = First(s, validation.cohort, n)
  <2>1. First(s, validation.cohort, n)
          = {c \in validation.cohort : Cardinality({d \in validation.cohort : s.place[d] < s.place[c]}) < n}
    BY FirstFew
  <2> QED  BY <1>5, <2>1 DEF RefrozenCohort
<1>7. RefrozenTasks(n) = First(s, {c \in validation.seated : Passes(c)}, n)
  BY <1>4 DEF RefrozenTasks
<1> QED  BY <1>3, <1>6, <1>7 DEF s

LEMMA CutIsAWalk ==
  ASSUME validation # Absent, validation.mode = "programs", ReportOk(validation, pool.tasks), ListOk(validation),
         NEW n \in 1..Cardinality(validation.cohort)
  PROVE  /\ RefrozenCohort(n) = AllCohort(Serial("programs", n))
         /\ TopUp => RefrozenTasks(n) = AllChosen(Serial("programs", n))
<1> DEFINE s == Serial("programs", validation.asked)
           r == Serial("programs", n)
           passing == {c \in s.seated : Passes(c)}
<1>0. n \in Nat
  OBVIOUS
<1>1. /\ RefrozenCohort(n) = First(s, validation.cohort, n)
      /\ RefrozenTasks(n) = First(s, {c \in validation.seated : Passes(c)}, n)
      /\ validation.cohort \subseteq s.seated
  BY <1>0, CutIsFirst
<1>2. /\ IsFiniteSet(s.seated)
      /\ \A c \in s.seated : s.place[c] \in Nat
  BY GivenList
<1>3. AllCohort(r) = First(s, s.seated, n) /\ AllChosen(r) = First(s, passing, n)
  <2>1. AllCohort(r) = First(r, r.seated, n) /\ AllChosen(r) = First(r, {c \in r.seated : Passes(c)}, n)
    BY GivenList
  <2>2. r.seated = s.seated /\ \A S, k : First(r, S, k) = First(s, S, k)
    BY OneList
  <2> HIDE DEF s, r
  <2> QED  BY <2>1, <2>2
<1>4. /\ \E k \in Nat \cup {AutoSize} : validation.cohort = First(s, s.seated, k)
      /\ \E m \in Nat : validation.seated = {c \in s.seated : s.place[c] < m}
      /\ \/ validation.seated = s.seated
         \/ TopUp => Cardinality({c \in validation.seated : Passes(c)}) >= Cardinality(validation.cohort)
  BY DEF ListOk
<1> HIDE DEF s, r
<1>5. IsFiniteSet(validation.cohort) /\ Cardinality(validation.cohort) \in Nat /\ n <= Cardinality(validation.cohort)
  BY <1>1, <1>2, CountOrder
<1>6. RefrozenCohort(n) = AllCohort(r)
  BY <1>0, <1>1, <1>2, <1>3, <1>4, <1>5, FirstOfFirst
<1>7. ASSUME TopUp PROVE RefrozenTasks(n) = AllChosen(r)
  <2>1. CASE validation.seated = s.seated
    BY <1>1, <1>3, <2>1
  <2>2. CASE Cardinality({c \in validation.seated : Passes(c)}) >= Cardinality(validation.cohort)
    <3>1. PICK m \in Nat : validation.seated = {c \in s.seated : s.place[c] < m}
      BY <1>4
    <3>2. {c \in validation.seated : Passes(c)} = {c \in passing : s.place[c] < m}
      BY <3>1
    <3>3. passing \subseteq s.seated /\ IsFiniteSet(passing) /\ \A c \in passing : s.place[c] \in Nat
      <4>1. passing \subseteq s.seated
        OBVIOUS
      <4> HIDE DEF passing
      <4> QED  BY <1>2, <4>1, CountOrder
    <3> HIDE DEF passing
    <3>4. IsFiniteSet({c \in passing : s.place[c] < m}) /\ Cardinality({c \in passing : s.place[c] < m}) \in Nat
      BY <3>3, CountBelow
    <3>5. Cardinality({c \in passing : s.place[c] < m}) >= n
      BY <1>0, <1>5, <2>2, <3>2, <3>4
    <3>6. First(s, {c \in passing : s.place[c] < m}, n) = First(s, passing, n)
      BY <1>0, <3>3, <3>5, FirstOfInitialPart
    <3> QED  BY <1>1, <1>3, <3>2, <3>6
  <2> QED  BY <1>4, <1>7, <2>1, <2>2
<1> QED  BY <1>6, <1>7 DEF r

-----------------------------------------------------------------------------
(* What is found out about the candidates never changes, and nor does      *)
(* anything that depends on it alone.                                      *)
LEMMA SameProfile ==
  ASSUME profile' = profile
  PROVE  /\ \A w : WalkOk(w)' <=> WalkOk(w)
         /\ \A v, tasks : ReportOk(v, tasks)' <=> ReportOk(v, tasks)
         /\ \A v : ListOk(v)' <=> ListOk(v)
<1>1. \A c : Eligible(c)' <=> Eligible(c)
  BY DEF Eligible, Usable
<1>2. \A c : Passes(c)' <=> Passes(c)
  BY DEF Passes, Mutants
<1>3. \A p : Claimants(p)' = Claimants(p)
  BY <1>1 DEF Claimants
<1>4. \A mode : Listed(mode)' = Listed(mode)
  BY DEF Listed, Kept
<1>5. \A mode : Banding(mode)' = Banding(mode)
  BY <1>4 DEF Banding
<1>6. \A mode, size : Places(mode, size)' = Places(mode, size)
  BY <1>5 DEF Places
<1>7. \A w, b : Passing(w, b)' = Passing(w, b)
  BY <1>2 DEF Passing
<1>8. \A w, b : BandFull(w, b)' <=> BandFull(w, b)
  BY <1>7 DEF BandFull
<1>9. \A w : AllCohort(w)' = AllCohort(w)
  OBVIOUS
<1>10. \A w : AllChosen(w)' = AllChosen(w)
  BY <1>7 DEF AllChosen, Chosen
<1>11. \A mode, size : Serial(mode, size)' = Serial(mode, size)
  BY <1>3, <1>5, <1>6 DEF Serial
<1>12. \A w : WalkOk(w)' <=> WalkOk(w)
  BY <1>3, <1>5, <1>6, <1>8 DEF WalkOk, SeatedBefore
<1>13. \A v, tasks : ReportOk(v, tasks)' <=> ReportOk(v, tasks)
  BY <1>9, <1>10, <1>11 DEF ReportOk
<1>14. \A v : ListOk(v)' <=> ListOk(v)
  BY <1>2, <1>11 DEF ListOk
<1> QED  BY <1>12, <1>13, <1>14

-----------------------------------------------------------------------------
(* The steps.                                                              *)
LEMMA StartedWalk ==
  ASSUME NEW mode \in Modes, NEW size \in Sizes, NEW jobs \in JobCounts, Accepted(mode, size), NEW w,
         w = [mode |-> mode, size |-> size, jobs |-> jobs, at |-> 1, seated |-> {},
              place |-> Places(mode, size), band |-> Banding(mode)]
  PROVE  WalkOk(w)
<1>1. /\ w.mode = mode /\ w.size = size /\ w.jobs = jobs /\ w.at = 1 /\ w.seated = {}
      /\ w.place = Places(mode, size) /\ w.band = Banding(mode)
      /\ DOMAIN w = {"mode", "size", "jobs", "at", "seated", "place", "band"}
  OBVIOUS
<1>2. mode = "terciles" => size # AutoSize
  BY DEF Accepted
<1>3. \A c \in DOMAIN w.place : w.place[c] \in Nat
  BY <1>1, PlacesDiffer
<1>4. \A c \in DOMAIN w.place : w.place[c] >= 1
  <2> SUFFICES ASSUME NEW c \in DOMAIN w.place PROVE w.place[c] >= 1
    OBVIOUS
  <2> DEFINE sooner == {d \in DOMAIN Banding(mode) : Turn(Banding(mode), d) < Turn(Banding(mode), c)}
  <2>1. w.place[c] = Cardinality(sooner) + 1
    BY <1>1 DEF Places
  <2>2. sooner \subseteq DOMAIN Banding(mode)
    OBVIOUS
  <2> HIDE DEF sooner
  <2>3. Cardinality(sooner) \in Nat
    BY <2>2, Listing, CountOrder
  <2> QED  BY <2>1, <2>3
<1>5. ASSUME NEW b \in Bands(w.mode)
      PROVE  SeatedBefore(w, b, 1)
  <2>1. \A c \in Claimants(w.place) : ~(w.place[c] < 1)
    BY <1>3, <1>4 DEF Claimants
  <2> QED  BY <1>1, <2>1 DEF SeatedBefore, In
<1>6. \A b \in Bands(w.mode) : \E m \in Nat : SeatedBefore(w, b, m) /\ m <= w.at /\ (m = w.at \/ BandFull(w, b))
  <2>1. 1 \in Nat /\ 1 <= w.at /\ 1 = w.at
    BY <1>1
  <2> QED  BY <1>5, <2>1
<1> HIDE DEF WalkOk
<1> QED  BY <1>1, <1>2, <1>6 DEF WalkOk

LEMMA FrozenReport ==
  ASSUME NEW w, WalkOk(w), Done(w), NEW ok, NEW v,
         v = [mode |-> w.mode, asked |-> w.size, place |-> w.place, band |-> w.band,
              cohort |-> AllCohort(w), seated |-> w.seated, ok |-> ok, refrozen |-> Absent]
  PROVE  ReportOk(v, AllChosen(w)) /\ (v.mode = "programs" => ListOk(v))
<1> DEFINE s == Serial(w.mode, w.size)
<1>1. /\ v.mode = w.mode /\ v.asked = w.size /\ v.place = w.place /\ v.band = w.band
      /\ v.cohort = AllCohort(w) /\ v.seated = w.seated /\ v.refrozen = Absent
      /\ DOMAIN v = {"mode", "asked", "place", "band", "cohort", "seated", "ok", "refrozen"}
  OBVIOUS
<1>2. /\ s.place = w.place /\ s.band = w.band /\ s.seated = Claimants(w.place)
      /\ \A S, b : In(s, S, b) = In(w, S, b)
      /\ \A S, n : First(s, S, n) = First(w, S, n)
  BY SerialOf
<1>3. AllCohort(w) = AllCohort(s) /\ (TopUp => AllChosen(w) = AllChosen(s))
  BY EndedIsSerial
<1> HIDE DEF s
<1>4. v.mode \in Modes /\ v.asked \in Sizes /\ Serial(v.mode, v.asked) = s
  BY <1>1 DEF WalkOk, s
<1>5. ReportOk(v, AllChosen(w))
  BY <1>1, <1>2, <1>3, <1>4 DEF ReportOk
<1>6. ASSUME w.mode = "programs" PROVE ListOk(v)
  <2>1. /\ IsFiniteSet(s.seated)
        /\ \A c \in s.seated : s.place[c] \in Nat
        /\ \A c, d \in s.seated : s.place[c] = s.place[d] => c = d
        /\ \A S : S \subseteq s.seated => In(s, S, 1) = S
        /\ Bands("programs") = {1} /\ Share("programs", w.size) = w.size
        /\ AllCohort(s) = First(s, s.seated, w.size)
    <3> DEFINE r == Serial("programs", w.size)
    <3>1. s = r
      BY <1>6 DEF s
    <3>2. /\ IsFiniteSet(r.seated)
          /\ \A c \in r.seated : r.place[c] \in Nat
          /\ \A c, d \in r.seated : r.place[c] = r.place[d] => c = d
          /\ \A S : S \subseteq r.seated => In(r, S, 1) = S
          /\ Bands("programs") = {1} /\ Share("programs", w.size) = w.size
          /\ AllCohort(r) = First(r, r.seated, w.size)
      BY GivenList
    <3> HIDE DEF r
    <3> QED  BY <3>1, <3>2
  <2>2. w.size \in Nat \cup {AutoSize}
    BY GateAssumption DEF WalkOk
  <2>3. w.seated \subseteq s.seated
    BY <1>2 DEF WalkOk
  <2>4. In(w, w.seated, 1) = w.seated /\ In(w, Claimants(w.place), 1) = s.seated
    BY <1>2, <2>1, <2>3
  <2>5. \E m \in Nat : v.seated = {c \in s.seated : s.place[c] < m}
    <3>1. PICK m \in Nat : SeatedBefore(w, 1, m)
      BY <1>6, <2>1 DEF WalkOk
    <3>2. w.seated = {c \in s.seated : s.place[c] < m}
      BY <1>2, <2>4, <3>1 DEF SeatedBefore
    <3> QED  BY <1>1, <3>2
  <2>6. v.seated = s.seated \/ (TopUp => Cardinality({c \in v.seated : Passes(c)}) >= Cardinality(v.cohort))
    <3>1. CASE BandFull(w, 1)
      <4>1. w.size \in Nat
        BY <1>6, <2>1, <2>2, <3>1 DEF BandFull
      <4>2. IsFiniteSet(v.cohort) /\ Cardinality(v.cohort) <= w.size
        <5>1. IsFiniteSet(First(s, s.seated, w.size)) /\ Cardinality(First(s, s.seated, w.size)) <= w.size
          BY <2>1, <4>1, FirstIsBounded
        <5>2. v.cohort = First(s, s.seated, w.size)
          BY <1>1, <1>3, <2>1
        <5> QED  BY <5>1, <5>2
      <4>3. TopUp => Cardinality({c \in v.seated : Passes(c)}) >= w.size
        BY <1>1, <1>6, <2>1, <2>4, <3>1 DEF BandFull, Passing
      <4>4. Cardinality(v.cohort) \in Nat
        BY <4>2, FS_CardinalityType
      <4>5. Cardinality({c \in v.seated : Passes(c)}) \in Nat
        <5>1. {c \in v.seated : Passes(c)} \subseteq s.seated
          BY <1>1, <2>3
        <5> QED  BY <2>1, <5>1, CountOrder
      <4> QED  BY <4>1, <4>2, <4>3, <4>4, <4>5
    <3>2. CASE ~BandFull(w, 1)
      <4>1. w.seated = s.seated
        BY <1>6, <2>1, <2>4, <3>2, EndedBand
      <4> QED  BY <1>1, <4>1
    <3> QED  BY <3>1, <3>2
  <2>7. \E k \in Nat \cup {AutoSize} : v.cohort = First(s, s.seated, k)
    BY <1>1, <1>3, <2>1, <2>2
  <2> QED  BY <1>4, <2>5, <2>6, <2>7 DEF ListOk
<1> QED  BY <1>1, <1>5, <1>6

LEMMA RefrozenReport ==
  ASSUME validation # Absent, ReportOk(validation, pool.tasks), validation.mode = "programs" => ListOk(validation),
         NEW n \in 1..Cardinality(validation.cohort), NEW v,
         v = [validation EXCEPT !.cohort = RefrozenCohort(n), !.ok = TRUE, !.refrozen = n]
  PROVE  ReportOk(v, pool.tasks) /\ (v.mode = "programs" => ListOk(v))
<1> DEFINE s == Serial(validation.mode, validation.asked)
<1>0. n \in Nat
  OBVIOUS
<1>1. /\ v.mode = validation.mode /\ v.asked = validation.asked /\ v.place = validation.place
      /\ v.band = validation.band /\ v.cohort = RefrozenCohort(n) /\ v.seated = validation.seated
      /\ v.refrozen = n /\ DOMAIN v = DOMAIN validation
  BY DEF ReportOk
<1>2. n # Absent
  BY <1>0, AutoIsNoNumber
<1>3. ReportOk(v, pool.tasks)
  BY <1>1, <1>2 DEF ReportOk
<1>4. ASSUME validation.mode = "programs" PROVE ListOk(v)
  <2>1. RefrozenCohort(n) = AllCohort(Serial("programs", n))
    BY <1>4, CutIsAWalk
  <2>2. AllCohort(Serial("programs", n)) = First(s, s.seated, n)
    <3>1. AllCohort(Serial("programs", n)) = First(Serial("programs", n), Serial("programs", n).seated, n)
      BY GivenList
    <3>2. Serial("programs", n).seated = s.seated
          /\ First(Serial("programs", n), s.seated, n) = First(s, s.seated, n)
      BY <1>4, OneList
    <3> QED  BY <3>1, <3>2
  <2>3. RefrozenCohort(n) \subseteq validation.cohort
    BY DEF RefrozenCohort
  <2>4. IsFiniteSet(validation.cohort) /\ validation.seated \subseteq s.seated /\ IsFiniteSet(s.seated)
    <3>1. IsFiniteSet(s.seated)
      BY <1>4, GivenList
    <3>2. validation.cohort \subseteq s.seated /\ validation.seated \subseteq s.seated
      BY <1>0, <1>4, CutIsFirst
    <3> QED  BY <3>1, <3>2, FS_Subset
  <2>5. {c \in validation.seated : Passes(c)} \subseteq s.seated
    BY <2>4
  <2>6. Cardinality(RefrozenCohort(n)) <= Cardinality(validation.cohort)
        /\ Cardinality(RefrozenCohort(n)) \in Nat /\ Cardinality(validation.cohort) \in Nat
    BY <2>3, <2>4, CountOrder
  <2>7. Cardinality({c \in validation.seated : Passes(c)}) \in Nat
    BY <2>4, <2>5, CountOrder
  <2>8. /\ \E m \in Nat : validation.seated = {c \in s.seated : s.place[c] < m}
        /\ \/ validation.seated = s.seated
           \/ TopUp => Cardinality({c \in validation.seated : Passes(c)}) >= Cardinality(validation.cohort)
    BY <1>4 DEF ListOk
  <2>9. s = Serial(v.mode, v.asked)
    BY <1>1
  <2> HIDE DEF s
  <2>10. \E k \in Nat \cup {AutoSize} : v.cohort = First(s, s.seated, k)
    BY <1>0, <1>1, <2>1, <2>2
  <2>11. v.seated = s.seated \/ (TopUp => Cardinality({c \in v.seated : Passes(c)}) >= Cardinality(v.cohort))
    BY <1>1, <2>6, <2>7, <2>8
  <2> QED  BY <1>1, <2>8, <2>9, <2>10, <2>11 DEF ListOk
<1> QED  BY <1>1, <1>3, <1>4

LEMMA GateInitially == GateInit => GateIInv
  BY DEF GateInit, GateIInv

LEMMA GateStep == GateIInv /\ [GateNext]_gateVars => GateIInv'
<1> SUFFICES ASSUME GateIInv, [GateNext]_gateVars PROVE GateIInv'
  OBVIOUS
<1>0. profile' = profile
  BY DEF GateNext, Start, Batch, Freeze, Kill, Refreeze, gateVars
<1>1. /\ \A w : WalkOk(w)' <=> WalkOk(w)
      /\ \A v, tasks : ReportOk(v, tasks)' <=> ReportOk(v, tasks)
      /\ \A v : ListOk(v)' <=> ListOk(v)
  BY <1>0, SameProfile
<1>2. walk # Absent => WalkOk(walk)
  BY DEF GateIInv
<1>3. validation # Absent =>
        ReportOk(validation, pool.tasks) /\ (validation.mode = "programs" => ListOk(validation))
  BY DEF GateIInv
<1>4. SUFFICES /\ walk' # Absent => WalkOk(walk')
               /\ validation' # Absent =>
                    ReportOk(validation', pool'.tasks) /\ (validation'.mode = "programs" => ListOk(validation'))
  BY <1>1 DEF GateIInv
<1>5. ASSUME NEW mode \in Modes, NEW size \in Sizes, NEW jobs \in JobCounts, NEW force \in BOOLEAN,
             Start(mode, size, jobs, force)
      PROVE  <1>4!1
  <2>1. WalkOk(walk')
    BY <1>5, StartedWalk DEF Start
  <2> QED  BY <1>3, <1>5, <2>1 DEF Start
<1>6. CASE Batch
  <2>1. WalkOk(walk')
    BY <1>2, <1>6, BatchKeepsWalk DEF Batch, BatchOf
  <2> QED  BY <1>3, <1>6, <2>1 DEF Batch
<1>7. CASE Freeze
  <2>1. WalkOk(walk) /\ Done(walk)
    BY <1>2, <1>7 DEF Freeze
  <2>2. pool'.tasks = AllChosen(walk)
    BY <1>7 DEF Freeze
  <2>3. ReportOk(validation', AllChosen(walk)) /\ (validation'.mode = "programs" => ListOk(validation'))
    BY <1>7, <2>1, FrozenReport DEF Freeze
  <2>4. walk' = Absent
    BY <1>7 DEF Freeze
  <2> QED  BY <2>2, <2>3, <2>4
<1>8. CASE Kill
  BY <1>3, <1>8 DEF Kill
<1>9. ASSUME NEW n \in 1..Cardinality(Candidate), Refreeze(n)
      PROVE  <1>4!1
  <2>1. validation # Absent /\ n \in 1..Cardinality(validation.cohort) /\ pool' = pool /\ walk' = walk
        /\ validation' = [validation EXCEPT !.cohort = RefrozenCohort(n), !.ok = TRUE, !.refrozen = n]
    BY <1>9 DEF Refreeze
  <2>2. ReportOk(validation', pool.tasks) /\ (validation'.mode = "programs" => ListOk(validation'))
    BY <1>3, <2>1, RefrozenReport
  <2> QED  BY <1>2, <2>1, <2>2
<1>10. CASE UNCHANGED gateVars
  BY <1>2, <1>3, <1>10 DEF gateVars
<1> QED  BY <1>5, <1>6, <1>7, <1>8, <1>9, <1>10 DEF GateNext

LEMMA GateHolds == GateIInv => JobsDoNotMatter /\ RefreezeIsAWalk
<1> SUFFICES ASSUME GateIInv, validation # Absent PROVE JobsDoNotMatter /\ RefreezeIsAWalk
  BY DEF JobsDoNotMatter, RefreezeIsAWalk
<1>1. ReportOk(validation, pool.tasks) /\ (validation.mode = "programs" => ListOk(validation))
  BY DEF GateIInv
<1>2. JobsDoNotMatter
  BY <1>1 DEF JobsDoNotMatter, ReportOk
<1>3. RefreezeIsAWalk
  BY <1>1, CutIsAWalk DEF RefreezeIsAWalk
<1> QED  BY <1>2, <1>3

(* The oracle gate, for every candidate order, profiles and bound: the     *)
(* seats of a walk are the first claimants of each band up to its place.   *)
THEOREM GateInvariant == GateSpec => []GateIInv
<1> QED  BY GateInitially, GateStep, PTL DEF GateSpec

(* Which faults reach the cohort, and with top-up the corpus, is a         *)
(* function of the seeded order alone: the number of jobs changes nothing. *)
THEOREM JobsChangeNothing == GateSpec => []JobsDoNotMatter
<1>1. GateIInv => JobsDoNotMatter
  BY GateHolds
<1> QED  BY <1>1, GateInvariant, PTL

(* Cutting a report of a given list to n gives what a walk for n freezes.  *)
THEOREM CuttingIsWalking == GateSpec => []RefreezeIsAWalk
<1>1. GateIInv => RefreezeIsAWalk
  BY GateHolds
<1> QED  BY <1>1, GateInvariant, PTL
==============================================================================
