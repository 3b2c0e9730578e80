-------------------------------- MODULE Sweep --------------------------------
(***************************************************************************)
(* scripts/run_eval.py run_sweep: one episode per cell, resumable.         *)
(*                                                                         *)
(* A cell is (task, arm, seed); the driver walks the cells in order, skips *)
(* those the round log shows complete, runs run_episode (RepairLoop) on    *)
(* the others, and audits accepted patches.  It stops at the dollar cap    *)
(* and when an episode gives the server up, it may be killed anywhere, and *)
(* the identical command is then run again.                                *)
(*                                                                         *)
(* Replies are cached (LlmCache, one driver): the reply to a prompt in a   *)
(* round of a cell is the same in every run.  So is the sample its oracle  *)
(* draws, which is seeded with the cell's seed and the round; it is the    *)
(* whole pool or one case, so the case that refutes is determined too.     *)
(***************************************************************************)
EXTENDS Proposer, Regression

CONSTANTS
  Cells,      \* how many cells the command names
  SampleAt,   \* SampleAt[c][k]: the sample of the oracle in round k of cell c
  CheckOverfit,    \* --check-overfit
  CheckRegression, \* --check-regression
  MaxFaults,  \* bound: kills, unreachable rounds and cap stops
  MaxRuns     \* bound: the command is not run again on a finished sweep past this

ASSUME SweepAssumption ==
  /\ Cells \in Nat \ {0} /\ MaxFaults \in Nat /\ MaxRuns \in Nat
  /\ {CheckOverfit, CheckRegression} \subseteq BOOLEAN
  /\ SampleAt \in [1..Cells -> [1..MaxDraws -> Samples]]

(* A round that is replayed is the same round: the sample leaves one case  *)
(* to refute with, and the prompt is known before the transcript restarts. *)
ASSUME ReplayAssumption == (Complete \/ MaxExamples = 1) /\ ~ChatHistory

VARIABLES
  phase,   \* "down", "walk" (between cells), "episode" or "finished"
  pos,     \* the cell the driver is at
  done,    \* the resume index, read when the driver starts
  log,     \* episodes.jsonl as load_rounds reads it: log[c][k] is round k of cell c
  audits,  \* overfit.jsonl
  drawn,   \* the cached replies
  run,     \* how often the command was started
  faults   \* faults so far

sweepVars == <<vars, phase, pos, done, log, audits, drawn, run, faults>>

Cell == 1..Cells

FreshEpisode ==
  /\ history' = <<>> /\ byLocation' = [l \in Location |-> {}] /\ seen' = {}
  /\ status' = "running" /\ round' = 0 /\ attempts' = 0 /\ unreachable' = 0
  /\ chat' = [start |-> 0, restarts |-> 0]
  /\ rows' = <<>> /\ found' = [round |-> None, patch |-> None]

SweepInit ==
  /\ Init
  /\ phase = "down" /\ pos = 1 /\ done = {}
  /\ log = [c \in Cell |-> <<>>]
  /\ audits = <<>> /\ drawn = {}
  /\ run = 0 /\ faults = 0

-----------------------------------------------------------------------------
(* _completed_cells: rounds_seen is the last round_index in the log.       *)
Accepted(logged) == \E k \in DOMAIN logged : logged[k].accept

IsDone(logged) ==
  Len(logged) >= Budget \/ (Accepted(logged) /\ ~ForceFull)

Completed_Drifted == {} \* mutant: the index is keyed differently from the driver's lookup
Completed == {c \in Cell : IsDone(log[c])}

(* append_round, as load_rounds collapses it: the last write of a round    *)
(* wins, and rounds the episode does not reach again stay.                 *)
Logged(row) ==
  [patch |-> row.patch, accept |-> row.accept, attempt |-> row.attempt, run |-> run]

Collapsed(logged, row) ==
  IF row.round \in DOMAIN logged
  THEN [logged EXCEPT ![row.round] = Logged(row)]
  ELSE Append(logged, Logged(row))

LogRow ==
  log' = IF rows' = rows THEN log
         ELSE [log EXCEPT ![pos] = Collapsed(@, rows'[Len(rows')])]

-----------------------------------------------------------------------------
Start ==
  /\ \/ phase = "down"
     \/ phase = "finished" /\ run < MaxRuns
  /\ phase' = "walk" /\ pos' = 1
  /\ done' = Completed
  /\ run' = run + 1
  /\ UNCHANGED <<vars, log, audits, drawn, faults>>

Skip ==
  /\ phase = "walk" /\ pos \in done
  /\ pos' = pos + 1
  /\ UNCHANGED <<vars, phase, done, log, audits, drawn, run, faults>>

(* Every episode starts at round 1 with an empty memory, also when an      *)
(* earlier run of it is in the log.                                        *)
FirstRound_Resumed == Len(log[pos]) \* mutant: go on after the last logged round
FirstRound == 0

Begin ==
  /\ phase = "walk" /\ pos \in Cell \ done
  /\ phase' = "episode"
  /\ round' = FirstRound
  /\ UNCHANGED <<memVars, status, attempts, unreachable, chat, rows, found,
                 pos, done, log, audits, drawn, run, faults>>

(* One draw of the episode.  The cache key covers the prompt and the       *)
(* nonce, which names cell and round.                                      *)
DrawKey == <<pos, round + 1, Prompt(chat.start)>>

Cached == \E d \in drawn : d.key = DrawKey

Receive(p) ==
  /\ phase = "episode"
  /\ Cached => [key |-> DrawKey, reply |-> p] \in drawn
  /\ drawn' = drawn \cup {[key |-> DrawKey, reply |-> p]}
  /\ IF p = None THEN ProposalUnusable ELSE PatchRound(p, SampleAt[pos][round + 1])
  /\ LogRow
  /\ UNCHANGED <<phase, pos, done, audits, run, faults>>

(* Only a miss reaches the server, and the cap.                            *)
Unavailable ==
  /\ phase = "episode" /\ ~Cached
  /\ faults < MaxFaults /\ faults' = faults + 1
  /\ BackendUnreachable \/ CapReached
  /\ LogRow
  /\ UNCHANGED <<phase, pos, done, audits, drawn, run>>

BudgetSpent ==
  /\ phase = "episode"
  /\ Exhausted
  /\ UNCHANGED <<phase, pos, done, log, audits, drawn, run, faults>>

(* run_episode has returned: an accepted patch is audited, and the driver  *)
(* goes on to the next cell.  An uncapped regression pass runs the whole   *)
(* pool and stands for is_truly_correct; a capped one does not.            *)
Verdict_AnyReport(p) == \* mutant: a capped report stands for it too
  IF CheckRegression THEN Report(p).correct ELSE TrulyCorrect(p)

Verdict(p) ==
  IF CheckRegression /\ (AuditCap = None \/ ~CheckOverfit) THEN Report(p).correct
                                                          ELSE TrulyCorrect(p)

Audited ==
  IF (CheckOverfit \/ CheckRegression) /\ found.patch # None
  THEN Append(audits, [cell |-> pos, round |-> found.round, patch |-> found.patch,
                       correct |-> Verdict(found.patch),
                       broken |-> IF CheckRegression THEN Report(found.patch).broken ELSE {}])
  ELSE audits

CellEnds ==
  /\ phase = "episode" /\ status = "returned"
  /\ audits' = Audited
  /\ phase' = "walk" /\ pos' = pos + 1
  /\ FreshEpisode
  /\ UNCHANGED <<done, log, drawn, run, faults>>

(* run_episode has raised: the sweep stops "cleanly".                      *)
StopCleanly ==
  /\ phase = "episode" /\ status = "raised"
  /\ phase' = "down"
  /\ FreshEpisode
  /\ UNCHANGED <<pos, done, log, audits, drawn, run, faults>>

Finish ==
  /\ phase = "walk" /\ pos \notin Cell
  /\ phase' = "finished"
  /\ UNCHANGED <<vars, pos, done, log, audits, drawn, run, faults>>

(* A kill, possibly after the reply was cached and before its row.         *)
Kill ==
  /\ phase \in {"walk", "episode"}
  /\ faults < MaxFaults /\ faults' = faults + 1
  /\ phase' = "down"
  /\ FreshEpisode
  /\ \/ UNCHANGED drawn
     \/ /\ phase = "episode" /\ MayDraw /\ ~Cached
        /\ \E p \in Patch \cup {None} : drawn' = drawn \cup {[key |-> DrawKey, reply |-> p]}
  /\ UNCHANGED <<pos, done, log, audits, run>>

-----------------------------------------------------------------------------
DriverStep ==
  \/ Start \/ Skip \/ Begin
  \/ \E p \in Patch \cup {None} : Receive(p)
  \/ BudgetSpent \/ CellEnds \/ StopCleanly \/ Finish

SweepNext == DriverStep \/ Unavailable \/ Kill

SweepSpec == SweepInit /\ [][SweepNext]_sweepVars

(* The driver runs, and is started again after every stop.                 *)
FairSweepSpec == SweepSpec /\ WF_sweepVars(DriverStep)

-----------------------------------------------------------------------------
(* What the analysis reads of a complete cell is one episode: its rows, up *)
(* to the first accepted one, were all written by the same run, however    *)
(* many runs died before it.                                               *)
FirstAccepted(logged) ==
  CHOOSE k \in DOMAIN logged :
    logged[k].accept /\ \A j \in 1..k - 1 : ~logged[j].accept

LastRound(logged) ==
  IF Accepted(logged) /\ ~ForceFull THEN FirstAccepted(logged) ELSE Len(logged)

OneEpisodePerCell ==
  \A c \in Completed : \A j, k \in 1..LastRound(log[c]) : log[c][j].run = log[c][k].run

(* "Every cell finished so far is in the log and is skipped on the         *)
(* identical re-run": no later run writes to a complete cell.  Where       *)
(* guarded rounds are free, a cell counts as complete while the episode    *)
(* that fills it still runs; then that episode goes on, and no other.      *)
CompleteIsFinal ==
  [][\A c \in Cell : IsDone(log[c]) =>
       \/ log'[c] = log[c]
       \/ FreeGuarded /\ \A k \in DOMAIN log[c] : log[c][k].run = run]_sweepVars

(* The overfit log speaks of the episodes the round log has: one row per   *)
(* cell at most, for the patch it accepted first; and with --check-overfit *)
(* its verdict is that of the whole pool, whatever was sampled: a patch    *)
(* called correct fails nothing, and breaks nothing that worked.           *)
AuditsMatchLog ==
  /\ \A i, j \in DOMAIN audits : audits[i].cell = audits[j].cell => i = j
  /\ \A i \in DOMAIN audits :
       LET a == audits[i] logged == log[a.cell]
       IN  /\ Accepted(logged) /\ a.round = FirstAccepted(logged)
           /\ a.patch = logged[a.round].patch
           /\ CheckOverfit => (a.correct <=> Fails[a.patch] = {})
           /\ a.correct /\ CheckOverfit => a.broken = {}

(* With finitely many faults, running the same command again completes     *)
(* every cell, and it stays complete.                                      *)
EventuallyComplete == <>[](phase = "finished" /\ Completed = Cell)

-----------------------------------------------------------------------------
(* What the repository's text claims and the code does not keep.           *)

(* _completed_cells: "Cells where run_episode would not need to do any     *)
(* more work": a cell the driver may skip has an accepted round, or an     *)
(* episode that spent its budget or used all its draws.                    *)
Charged(c) == Cardinality({k \in DOMAIN log[c] : log[c][k].attempt # None})

DoneNeedsNoWork ==
  \A c \in done :
    \/ Accepted(log[c]) /\ ~ForceFull
    \/ Charged(c) >= Budget
    \/ Len(log[c]) >= MaxDraws

(* load_rounds: "Collapsing on read is what makes that rewrite mean what   *)
(* it looks like": no round of an older run is left in a complete cell.    *)
NoStaleRounds ==
  \A c \in Completed : \A j, k \in DOMAIN log[c] : log[c][j].run = log[c][k].run

(* --check-overfit: "run is_truly_correct on every accept".                *)
EveryAcceptAudited ==
  phase = "finished" /\ CheckOverfit =>
    \A c \in Cell : Accepted(log[c]) => \E i \in DOMAIN audits : audits[i].cell = c
=============================================================================
