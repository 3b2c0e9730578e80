--------------------------------- MODULE Grid ---------------------------------
(***************************************************************************)
(* The grid of a study, collected in shards: scripts/grid_status.py says   *)
(* which cells are missing from the merged log, scripts/reproduce.sh       *)
(* (stage_grid) runs scripts/eval_shard.sh on the ranges that hold one,    *)
(* and scripts/consolidate_evals.py merges the shard logs.                 *)
(*                                                                         *)
(* One run directory.  It may move between machines from one command to    *)
(* the next, the shard count may change with it, any command may be        *)
(* killed, and shard logs may be deleted once they are merged.  A shard    *)
(* walks its cells as Sweep does; here the episode of a cell is what the   *)
(* machine's cached replies and clock make of it.  Every row of one run directory    *)
(* names one model and one granularity, so check_protocol always passes.   *)
(***************************************************************************)
EXTENDS Integers, Sequences, FiniteSets

CONSTANTS
  Presets,     \* how many presets the study has
  Tasks,       \* size of their universe
  Budget,      \* rounds of an episode
  ForceFull,   \* presets that go on after an accept (E1)
  Declared,    \* cells declared missing in grid_coverage.json
  ShardCounts, \* the values of SHARDS the study is run with
  Machine,
  AcceptAt,    \* AcceptAt[m][c]: the round m's episode of c accepts, 0 for never
  Instrument,  \* Instrument[m]: the protocol and runtime m's shards record
  Cuts,        \* where a write may be cut short: the rounds of each cell it got to
  MaxFaults,   \* bound: kills, clean stops, deletions and hand merges
  None

Cell == [preset : 1..Presets, task : 1..Tasks]

ASSUME GridAssumption ==
  /\ {Presets, Tasks, Budget} \subseteq Nat \ {0}
  /\ ForceFull \subseteq 1..Presets /\ Declared \subseteq Cell
  /\ ShardCounts \subseteq Nat \ {0}
  /\ AcceptAt \in [Machine -> [Cell -> 0..Budget]]
  /\ None \notin {Instrument[m] : m \in Machine}
  /\ Cuts \subseteq [Cell -> 0..Budget]
  /\ MaxFaults \in Nat

VARIABLES
  logs,    \* logs[f][c]: the rounds of cell c in shard log f, as load_rounds reads them
  meta,    \* meta[f]: the record eval_shard.sh wrote for f
  merged,  \* episodes.jsonl, as load_rounds reads it
  kept,    \* the rows a merge has in memory while it writes them
  torn,    \* episodes.jsonl ends in half a line, and nothing can be read of it
  stage,   \* "idle", "preset" (between shards), "shard"; while episodes.jsonl is
           \* being written "merge", or "byhand" outside a command
  machine, shards,  \* who runs the command, with which SHARDS; None while idle
  todo,    \* the shards grid_status named and reproduce.sh has not run
  shard,   \* the shard that is running
  pos,     \* the task it is at
  done,    \* its resume index
  round,   \* rounds of the current cell so far
  ended,   \* how the last command ended
  stopped, \* did a shard of this command stop early
  forced,  \* was a merge forced
  reported, \* did a merge report a round collected twice with different results
  faults

shardVars == <<todo, shard, pos, done, round>>
mergedVars == <<merged, kept, torn>>
gridVars == <<logs, meta, mergedVars, stage, machine, shards, shardVars, ended, stopped, forced, reported, faults>>

-----------------------------------------------------------------------------
(* grid_status.py: which cells are complete, which ranges have to run.     *)
RowsDone(c, rows) ==
  \/ Len(rows) >= Budget
  \/ c.preset \notin ForceFull /\ \E k \in DOMAIN rows : rows[k]

Complete(log) == {c \in Cell : RowsDone(c, log[c])}

Missing == Cell \ Complete(merged)

Undeclared(cells) == cells \ Declared

(* shard_ranges: contiguous ranges, the last may be shorter.               *)
Size(n) == IF n >= Tasks THEN 1 ELSE (Tasks + n - 1) \div n

Ranges_LastDropped(n) == \* mutant: only full ranges
  {<<lo, lo + Size(n) - 1>> : lo \in {x \in 1..Tasks : x % Size(n) = 1 /\ x + Size(n) - 1 <= Tasks}}

Ranges(n) ==
  {<<Size(n) * i + 1, IF Size(n) * (i + 1) > Tasks THEN Tasks ELSE Size(n) * (i + 1)>> :
     i \in 0..(Tasks - 1) \div Size(n)}

Shard(n) == [preset : 1..Presets, range : Ranges(n)]
File == UNION {Shard(n) : n \in ShardCounts}

ASSUME NoneIsNothing ==
  None \notin File \cup {"hit", "ran", "missing", "refused", "failed", "killed"}

Holds(f, c) == c.preset = f.preset /\ c.task \in f.range[1]..f.range[2]

(* ranges_todo: a preset with undeclared gaps runs every range with a gap. *)
RangesTodo(n) ==
  {f \in Shard(n) : /\ \E c \in Undeclared(Missing) : c.preset = f.preset
                    /\ \E c \in Missing : Holds(f, c)}

-----------------------------------------------------------------------------
(* consolidate_evals.py.  Shard logs are read in the order of their names. *)
FileBefore(f, g) ==
  \/ f.preset < g.preset
  \/ /\ f.preset = g.preset
     /\ f.range[1] < g.range[1] \/ (f.range[1] = g.range[1] /\ f.range[2] < g.range[2])

NoRows == [c \in Cell |-> <<>>]
Written(f) == logs[f] # NoRows

(* The last write of a round wins.                                         *)
Overwrite(older, newer) ==
  [c \in Cell |-> newer[c] \o SubSeq(older[c], Len(newer[c]) + 1, Len(older[c]))]

Holders(c, k) == {f \in File : k \in DOMAIN logs[f][c]}
LastFile(fs) == CHOOSE f \in fs : \A g \in fs \ {f} : FileBefore(g, f)

ShardRows ==
  [c \in Cell |-> [k \in {n \in 1..Budget : Holders(c, n) # {}} |->
                     logs[LastFile(Holders(c, k))][c][k]]]

(* The merged log itself is listed first, when it is an input.             *)
MergedFirst_NotListed == ShardRows \* mutant: it is left out
MergedFirst == Overwrite(merged, ShardRows)

(* check_conflicts: two inputs have a round with different results.        *)
Differ(a, b) ==
  \E c \in Cell : \E k \in DOMAIN a[c] \cap DOMAIN b[c] : a[c][k] # b[c][k]

Conflicting_MergedOnly(inputs) == \* mutant: each shard is compared with the merged log only
  \E a \in inputs : Differ(a, merged)

Conflicting(inputs) == \E a, b \in inputs : Differ(a, b)

ShardLogs == {logs[f] : f \in File}

(* check_shard_meta: all the records there are name one instrument.        *)
MetasAgree == Cardinality({meta[f] : f \in File} \ {None}) <= 1

(* The rounds of the merged log no shard accounts for.                     *)
Orphans == {c \in Cell : Len(merged[c]) > Len(ShardRows[c])}

-----------------------------------------------------------------------------
GridInit ==
  /\ logs = [f \in File |-> NoRows] /\ meta = [f \in File |-> None]
  /\ merged = NoRows /\ kept = NoRows /\ torn = FALSE
  /\ stage = "idle" /\ machine = None /\ shards = None
  /\ todo = {} /\ shard = None /\ pos = 1 /\ done = {} /\ round = 0
  /\ ended = None /\ stopped = FALSE /\ forced = FALSE /\ reported = FALSE /\ faults = 0

Fault == faults < MaxFaults /\ faults' = faults + 1

NoWalk == pos' = 1 /\ done' = {} /\ round' = 0
Idle == stage' = "idle" /\ machine' = None /\ shards' = None /\ todo' = {} /\ shard' = None /\ NoWalk
End(how) == Idle /\ ended' = how

(* stage_grid starts: nothing to do is a hit, and grid_status.py raises    *)
(* on a merged log it cannot parse.                                        *)
Reproduce(m, n) ==
  /\ stage = "idle"
  /\ stopped' = FALSE
  /\ \/ torn /\ End("failed")
     \/ ~torn /\ Undeclared(Missing) = {} /\ End("hit")
     \/ /\ ~torn /\ Undeclared(Missing) # {}
        /\ stage' = "preset" /\ ended' = None
        /\ machine' = m /\ shards' = n /\ todo' = RangesTodo(n)
        /\ UNCHANGED <<shard, pos, done, round>>
  /\ UNCHANGED <<logs, meta, mergedVars, forced, reported, faults>>

(* eval_shard.sh: the record is written before the first cell, whatever    *)
(* record an earlier run of the shard left; the resume index is read from  *)
(* the shard's own log and the merged one.                                 *)
NextShard(f) == f \in todo /\ \A g \in todo \ {f} : FileBefore(f, g)

ResumeIndex_Logged(f) == \* mutant: a logged cell counts as done
  {c \in Cell : logs[f][c] # <<>>} \cup Complete(merged)

ResumeIndex(f) == Complete(logs[f]) \cup Complete(merged)

RunShard(f) ==
  /\ stage = "preset" /\ NextShard(f)
  /\ shard # None => shard.preset = f.preset
  /\ stage' = "shard"
  /\ shard' = f /\ todo' = todo \ {f}
  /\ meta' = [meta EXCEPT ![f] = Instrument[machine]]
  /\ pos' = f.range[1] /\ done' = ResumeIndex(f) /\ round' = 0
  /\ UNCHANGED <<logs, mergedVars, machine, shards, ended, stopped, forced, reported, faults>>

Current == [preset |-> shard.preset, task |-> pos]
Walking == stage = "shard" /\ pos <= shard.range[2]

SkipCell ==
  /\ Walking /\ Current \in done
  /\ pos' = pos + 1
  /\ UNCHANGED <<logs, meta, mergedVars, stage, machine, shards, todo, shard, done, round, ended, stopped, forced, reported, faults>>

(* One round: append_round, and the episode's end.  A row is what the      *)
(* oracle said.                                                            *)
Accepts == AcceptAt[machine][Current] = round + 1

RunRound ==
  /\ Walking /\ Current \notin done
  /\ logs' = [logs EXCEPT ![shard][Current] =
                IF round + 1 \in DOMAIN @ THEN [@ EXCEPT ![round + 1] = Accepts] ELSE Append(@, Accepts)]
  /\ IF round + 1 = Budget \/ (Accepts /\ shard.preset \notin ForceFull)
     THEN pos' = pos + 1 /\ round' = 0
     ELSE pos' = pos /\ round' = round + 1
  /\ UNCHANGED <<meta, mergedVars, stage, machine, shards, todo, shard, done, ended, stopped, forced, reported, faults>>

(* The dollar cap or a dead server ends the shard with status 0.           *)
StopShard ==
  /\ Walking /\ Current \notin done
  /\ Fault
  /\ stage' = "preset" /\ stopped' = TRUE /\ NoWalk
  /\ UNCHANGED <<logs, meta, mergedVars, machine, shards, todo, shard, ended, forced, reported>>

ShardEnds ==
  /\ stage = "shard" /\ pos > shard.range[2]
  /\ stage' = "preset" /\ NoWalk
  /\ UNCHANGED <<logs, meta, mergedVars, machine, shards, todo, shard, ended, stopped, forced, reported, faults>>

(* merge_jsonl reads every input, then opens episodes.jsonl, which the     *)
(* write empties, and writes it in place.                                  *)
OpenMerged(how, rows) ==
  /\ stage' = how
  /\ merged' = NoRows /\ kept' = rows /\ torn' = FALSE

(* After the last shard of a preset its logs are merged, with the merged   *)
(* log listed first.  Conflicting copies are reported and merged all the   *)
(* same; records that disagree end the command.                            *)
LastOfPreset == shard # None /\ \A f \in todo : f.preset # shard.preset

Consolidate ==
  /\ stage = "preset" /\ LastOfPreset
  /\ \/ /\ \A f \in File : ~Written(f)
        /\ shard' = None
        /\ UNCHANGED <<mergedVars, stage, machine, shards, todo, pos, done, round, ended>>
     \/ /\ \E f \in File : Written(f)
        /\ MetasAgree
        /\ OpenMerged("merge", MergedFirst)
        /\ UNCHANGED <<machine, shards, shardVars, ended>>
     \/ /\ \E f \in File : Written(f)
        /\ ~MetasAgree
        /\ End("refused")
        /\ UNCHANGED mergedVars
  /\ reported' = (reported \/ Conflicting(ShardLogs \cup {merged}))
  /\ UNCHANGED <<logs, meta, stopped, forced, faults>>

FinishMerge ==
  /\ stage \in {"merge", "byhand"}
  /\ merged' = kept /\ kept' = NoRows /\ torn' = FALSE
  /\ shard' = None /\ stage' = IF stage = "merge" THEN "preset" ELSE "idle"
  /\ UNCHANGED <<logs, meta, machine, shards, todo, pos, done, round, ended, stopped, forced, reported, faults>>

(* "The re-check is the contract": nothing may still be missing.           *)
Recheck ==
  /\ stage = "preset" /\ todo = {} /\ shard = None
  /\ End(IF Undeclared(Missing) = {} THEN "ran" ELSE "missing")
  /\ UNCHANGED <<logs, meta, mergedVars, stopped, forced, reported, faults>>

Kill ==
  /\ stage \in {"preset", "shard"}
  /\ Fault
  /\ End("killed")
  /\ UNCHANGED <<logs, meta, mergedVars, stopped, forced, reported>>

(* A merge dies in its write.  Of each cell the first rounds are in the    *)
(* file; when half a line follows them, no later command can parse it.     *)
FirstRows(rows, upto) ==
  [c \in Cell |-> SubSeq(rows[c], 1, IF upto[c] <= Len(rows[c]) THEN upto[c] ELSE Len(rows[c]))]

CutMerge ==
  /\ stage \in {"merge", "byhand"}
  /\ Fault
  /\ \/ torn' = FALSE /\ \E upto \in Cuts : merged' = FirstRows(kept, upto)
     \/ torn' = TRUE /\ merged' = NoRows
  /\ kept' = NoRows
  /\ Idle /\ ended' = IF stage = "merge" THEN "killed" ELSE ended
  /\ UNCHANGED <<logs, meta, stopped, forced, reported>>

-----------------------------------------------------------------------------
(* consolidate_evals.py by hand, over the shard logs alone: refused when   *)
(* the merged log holds rounds no shard accounts for, unless forced; it    *)
(* has to be parsed for that, forced or not.                               *)
MergeByHand(force) ==
  /\ stage = "idle" /\ Fault
  /\ \E f \in File : Written(f)
  /\ MetasAgree
  /\ ~torn /\ (force \/ Orphans = {})
  /\ OpenMerged("byhand", ShardRows) /\ forced' = (forced \/ Orphans # {})
  /\ reported' = (reported \/ Conflicting(ShardLogs))
  /\ UNCHANGED <<logs, meta, machine, shards, shardVars, ended, stopped>>

(* A shard log is deleted, or the merged log alone was shipped.            *)
LoseLog(f) ==
  /\ stage = "idle" /\ Fault
  /\ Written(f)
  /\ logs' = [logs EXCEPT ![f] = NoRows]
  /\ UNCHANGED <<meta, mergedVars, stage, machine, shards, shardVars, ended, stopped, forced, reported>>

(* A started command runs, and is started again after every stop.          *)
Command ==
  \/ \E m \in Machine, n \in ShardCounts : Reproduce(m, n)
  \/ \E f \in File : RunShard(f)
  \/ SkipCell \/ RunRound \/ ShardEnds \/ Consolidate \/ FinishMerge \/ Recheck

GridNext ==
  \/ Command \/ StopShard \/ Kill \/ CutMerge
  \/ \E force \in BOOLEAN : MergeByHand(force)
  \/ \E f \in File : LoseLog(f)

GridSpec == GridInit /\ [][GridNext]_gridVars

FairGridSpec == GridSpec /\ WF_gridVars(Command)

-----------------------------------------------------------------------------
(* What the merged log holds, or is about to hold.                         *)
Log == IF stage \in {"merge", "byhand"} THEN kept ELSE merged

(* "nothing already there is lost": no merge drops a round of the merged   *)
(* log, in whatever order shard logs come and go, unless it was forced or  *)
(* dies in the middle of its write.                                        *)
RoundsKept ==
  [][forced' \/ CutMerge \/ \A c \in Cell : Len(Log'[c]) >= Len(Log[c])]_gridVars

(* The comment as it stands: a round some log holds is gone only when a    *)
(* shard log was deleted or a merge forced.  A merge that dies in its      *)
(* write breaks it, where the merged log was the only copy.                *)
Collected == Overwrite(Log, ShardRows)

NothingIsLost ==
  [][forced' \/ (\E f \in File : LoseLog(f))
       \/ \A c \in Cell : Len(Collected'[c]) >= Len(Collected[c])]_gridVars

(* "cells are still missing ... after the run" is only ever said when a    *)
(* shard of that run stopped early, or the machines were reported not to   *)
(* be interchangeable: the ranges, the resume index, the shards' logs, the *)
(* merge and the status agree on what is missing.                          *)
RecheckHolds == ended = "missing" => stopped \/ reported

(* What is merged of a complete cell is the episode of one machine, though *)
(* its rounds may come from several files, unless a merge said that the    *)
(* machines are not interchangeable.                                       *)
Episode(m, c) ==
  [k \in 1..(IF AcceptAt[m][c] = 0 \/ c.preset \in ForceFull THEN Budget ELSE AcceptAt[m][c]) |->
     k = AcceptAt[m][c]]

OneEpisodeMerged ==
  ~reported => \A c \in Complete(merged) :
    \E m \in Machine : \A k \in DOMAIN Episode(m, c) :
      k \in DOMAIN merged[c] /\ merged[c][k] = Episode(m, c)[k]

(* With finitely many faults, records that never disagree, machines that   *)
(* are interchangeable and a merged log that can be parsed, running the    *)
(* command again and again completes every undeclared cell for good.       *)
GridCompletes == [](MetasAgree /\ ~reported /\ ~torn) => <>[](Undeclared(Missing) = {})

(* The same of a merged log torn by a kill: it is never parsed again.      *)
TornCompletes == [](MetasAgree /\ ~reported) => <>[](Undeclared(Missing) = {})
=============================================================================
