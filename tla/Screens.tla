------------------------------- MODULE Screens -------------------------------
(***************************************************************************)
(* The screen that estimates every task's solve rate, run in shards on     *)
(* several machines: scripts/screen_shard.sh cuts a range out of the       *)
(* pool, scripts/measure_pi.py draws and judges, and                       *)
(* scripts/consolidate_screens.py merges the reports.                      *)
(*                                                                         *)
(* The pool may be frozen again while a machine still holds its older      *)
(* order, a shard may be killed or stopped by its dollar cap in the middle *)
(* of a task, and a range may be screened again, deeper or on another      *)
(* machine.  A draw is what the model cache of the machine answers under   *)
(* the draw's nonce, so a re-run replays it; what is not replayed is the   *)
(* verdict of the sandbox.  All shards run one protocol on one checkout.   *)
(***************************************************************************)
EXTENDS Integers, Sequences, FiniteSets, FiniteSetsExt, Functions

CONSTANTS
  Name,
  Pools,      \* the orders pool/tasks.json has had, the current one last
  ShardRange, \* the ranges <<from, to>> shards are cut by
  Calls,      \* the values --calls is given
  Machine,    \* a set of numbers: the directories' order
  Judged,     \* Judged[n][i]: the verdicts draw i of task n may get
  StopAfter,  \* the draws of a task after which a shard may be stopped
  MaxFaults,  \* bound: stops and screens nobody needed
  None

Pool == Pools[Len(Pools)]
Depth == Max(Calls)

ASSUME ScreensAssumption ==
  /\ Pools \in Seq(Seq(Name)) /\ Len(Pools) > 0
  /\ \A i \in DOMAIN Pool : \E r \in ShardRange : i \in r[1]..r[2]
  /\ ShardRange \subseteq (1..Len(Pool)) \X (1..Len(Pool))
  /\ \A r \in ShardRange : r[2] >= r[1]
  /\ Calls \subseteq Nat \ {0} /\ Depth \in Calls /\ \A k \in Calls : k <= Depth
  /\ StopAfter \subseteq 0..Depth
  /\ Judged \in [Name -> [1..Depth -> SUBSET BOOLEAN \ {{}}]]
  /\ Machine \subseteq Nat /\ MaxFaults \in Nat

VARIABLES
  version, \* version[m]: which of Pools the machine has
  running, \* running[m]: the shard it is screening
  bought,  \* bought[m][n]: the draws of n in its model cache
  report,  \* report[f]: per_program of the report file f
  merged,  \* per_program of screen_merged.json
  faults

screenVars == <<version, running, bought, report, merged, faults>>

-----------------------------------------------------------------------------
(* A report names only its range, the machine stands for its directory.    *)
Report == [machine : Machine, range : ShardRange]
Empty == [n \in {} |-> None]
With(held, n, rec) == [x \in DOMAIN held \cup {n} |-> IF x = n THEN rec ELSE held[x]]

(* What judging the first k draws of n may come out as.                    *)
Accepts(n, k, sure) ==
  Cardinality({i \in 1..k : IF sure THEN Judged[n][i] = {TRUE} ELSE TRUE \in Judged[n][i]})

Records(n, k) ==
  {[calls |-> k, successes |-> s] : s \in Accepts(n, k, TRUE)..Accepts(n, k, FALSE)}

(* merge: the deepest record wins, the first file on a tie.                *)
FileBefore(f, g) ==
  \/ f.range[1] < g.range[1]
  \/ f.range[1] = g.range[1] /\ f.range[2] < g.range[2]
  \/ f.range = g.range /\ f.machine < g.machine

Holders(n) == {f \in Report : n \in DOMAIN report[f]}

Wins(f, g, n) ==
  \/ report[f][n].calls > report[g][n].calls
  \/ report[f][n].calls = report[g][n].calls /\ FileBefore(f, g)

Winner(n, files) == CHOOSE f \in files : \A g \in files \ {f} : Wins(f, g, n)

Merged == [n \in UNION {DOMAIN report[f] : f \in Report} |-> report[Winner(n, Holders(n))][n]]

(* check_coverage: what the audit asks to be screened (again).             *)
Shallow == {i \in DOMAIN Pool : \A f \in Holders(Pool[i]) : report[f][Pool[i]].calls < Depth}
Asked(r) == \E i \in Shallow : i \in r[1]..r[2]

-----------------------------------------------------------------------------
ScreensInit ==
  /\ version \in [Machine -> DOMAIN Pools]
  /\ running = [m \in Machine |-> None]
  /\ bought = [m \in Machine |-> [n \in Name |-> 0]]
  /\ report = [f \in Report |-> Empty]
  /\ merged = None /\ faults = 0

Update(m) ==
  /\ version[m] < Len(Pools) /\ running[m] = None
  /\ version' = [version EXCEPT ![m] = @ + 1]
  /\ UNCHANGED <<running, bought, report, merged, faults>>

(* screen_shard.sh: the shard list is cut from the machine's own pool.     *)
Names_Missing(m, r) == \* mutant: the shard list is trimmed to what is missing
  SelectSeq(SubSeq(Pools[version[m]], r[1], r[2]),
            LAMBDA n : n \notin DOMAIN report[[machine |-> m, range |-> r]])

Names(m, r) == SubSeq(Pools[version[m]], r[1], r[2])

StartScreen(m, r, k) ==
  /\ running[m] = None
  /\ r[2] <= Len(Pools[version[m]]) /\ Names(m, r) # <<>>
  /\ faults' = IF Asked(r) /\ k = Depth THEN faults ELSE faults + 1
  /\ faults' <= MaxFaults
  /\ running' = [running EXCEPT ![m] =
                   [file |-> [machine |-> m, range |-> r], todo |-> Names(m, r), calls |-> k, first |-> TRUE]]
  /\ UNCHANGED <<version, bought, report, merged>>

(* The report after the current task: it holds the tasks of this run only. *)
Checkpoint(run, rec) ==
  [report EXCEPT ![run.file] = With(IF run.first THEN Empty ELSE @, Head(run.todo), rec)]

(* A task is drawn and judged, and the report is written.                  *)
ScreenTask(m) ==
  /\ running[m] # None
  /\ LET run == running[m]
     IN  /\ \E rec \in Records(Head(run.todo), run.calls) : report' = Checkpoint(run, rec)
         /\ bought' = [bought EXCEPT ![m][Head(run.todo)] = Max({@, run.calls})]
         /\ running' = [running EXCEPT ![m] =
                          IF Len(run.todo) = 1 THEN None
                          ELSE [run EXCEPT !.todo = Tail(@), !.first = FALSE]]
  /\ UNCHANGED <<version, merged, faults>>

(* The cap stops the shard before a draw its cache does not hold; the task *)
(* is recorded with the draws it got.  A kill, and an oracle that cannot   *)
(* judge, record nothing.                                                  *)
Stop(m, k, recorded) ==
  /\ running[m] # None /\ faults < MaxFaults
  /\ LET run == running[m]
         n == Head(run.todo)
     IN  /\ k \in bought[m][n]..run.calls - 1
         /\ bought' = [bought EXCEPT ![m][n] = k]
         /\ IF recorded
            THEN \E rec \in Records(n, k) : report' = Checkpoint(run, rec)
            ELSE UNCHANGED report
  /\ running' = [running EXCEPT ![m] = None]
  /\ faults' = faults + 1
  /\ UNCHANGED <<version, merged>>

(* consolidate_screens.py: disagreements are reported, and merged.         *)
Merge ==
  /\ \E f \in Report : report[f] # Empty
  /\ merged' = Merged
  /\ UNCHANGED <<version, running, bought, report, faults>>

ScreensNext ==
  \/ \E m \in Machine :
       \/ Update(m) \/ ScreenTask(m)
       \/ \E r \in ShardRange, k \in Calls : StartScreen(m, r, k)
       \/ \E k \in StopAfter, recorded \in BOOLEAN : Stop(m, k, recorded)
  \/ Merge
=============================================================================
