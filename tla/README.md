# ceg-mem in TLA+

`ceg-mem` studies program repair with a memory of refuted attempts. An *episode*
draws candidate patches for one faulty program from a language model, lets the
memory *guard* (block a candidate that a stored counterexample already refutes),
pays a differential-testing *oracle* for the rest, stores what the oracle refuted,
and stops at an accepted patch or at the end of its budget. A *sweep* runs one
episode per cell (task, arm, seed) and logs every round; sweeps over many cells are
cut into *shards*, merged, frozen, analysed and shipped. The study's numbers are
computed from these files.

The interest of a formal model is that the study compares arms. A round that is
charged twice, evidence that leaks from a failed round, a guard that blocks what the
oracle accepts, a merge that mixes two machines' rounds or a banding computed from
an older log does not crash anything: it silently moves a curve. And much of the
code is a chain of programs, each of which may be killed and started again, that
read one another's files.

This directory models the parts of the repository where that can happen, checks
them with TLC on small instances, and proves the central statements about the
memory, the loop, the paired arms, the cache, the sweep, the shards, the corpus and the release
with TLAPS for all values of the constants. Paths below are relative to the repository's root.

## 1. Inventory

| Part | Code | State it keeps | Operations | Modelled in |
|---|---|---|---|---|
| Oracle | `src/oracle.py` | none | `differential_test`, `is_truly_correct`, `split_pool`, `regression_report` | `Oracle`, `Regression` |
| Typer | `src/typer.py` | none | `theta` at two granularities | `TrueLocation` (Memory), `FineType`, `BelievedType` (Proposer) |
| Memories | `src/memory.py` | `history`, `_by_location`, `_seen_locations` | `store`, `guard` in three modes | `Memory` |
| Repair loop | `src/loop.py` | `attempts`, `round_index`, `consecutive_backend_failures`, `hist_state`, first accept, the rows written | `run_episode` | `RepairLoop`, abstractly `Search` |
| Paired arms | `proposal_nonce`, `scripts/check_consistency.py` | two episodes | common random numbers | `EpisodePair` |
| Proposer | `src/proposer.py` | none | prompt blocks, transcript, outcomes of a draw | `Proposer` |
| Model client | `src/llm.py` | cache directory, call ledger, `_spent` | `complete` | `LlmCache` |
| Round log | `src/metrics.py` | `episodes.jsonl` | `append_round`, `load_rounds`, `summarize_episode` | `Row`, `Collapsed` (Sweep), `Summary` |
| Sweep driver | `scripts/run_eval.py` | episode log, overfit log, resume index | `run_sweep`, `_completed_cells` | `Sweep` |
| Shards | `scripts/eval_shard.sh`, `consolidate_evals.py`, `grid_status.py`, `presets.py` | a log and a protocol record per shard, the merged log | cut, run, merge, re-check | `Grid` |
| Screening and corpus | `scripts/screen_shard.sh`, `measure_pi.py`, `consolidate_screens.py`, `select_corpus.py` | reports per shard, the merged screen, `tasks.json` | screen, merge, select, inherit | `Screens`, `Corpus` |
| Oracle gate | `scripts/validate_oracle.py`, `oracle_gate.sh`, `refreeze_pool.py` | report, pool | the walk, freezing, refreezing | `Gate` |
| Verdict matrix, policies | `scripts/build_verdict_matrix.py`, `simulate_policies.py`, `fetch_condefects.py` | `verdicts.jsonl`, case lists; each policy's store | parallel build, replay | `VerdictMatrix`, `Policies` |
| Artifacts, freezing, analysis chain | `scripts/reproduce.sh`, `pipeline.sh`, `fetch_artifacts.py`, `build_artifacts.py`, `freeze_results.py`, `fit_theory.py`, `build_strata.py`, `analyze.py`, `check_numbers.py` | a run directory, packed artifacts, derived files | stages, install, pack, freeze | `Reproduce` |
| Self-test filter | `src/selftest.py` | memoised cases per process | `check` | the set `SelfTestBlocks` |
| Sandbox, adapter, paths | `src/sandbox.py`, `src/adapter.py`, `src/paths.py` | none | run a program, read the benchmark | constants |
| Measurements outside the chain, universes, hand labels, model servers, fleet | the other `scripts/`, `figures/`, `paper/` | data files | batch statistics, start-up | not modelled |

How they interact. `run_sweep` calls `run_episode` once per cell that the resume
index does not call complete. `run_episode` builds one memory, and each round calls
`propose` (which calls `complete`, which may raise: truncated reply, context
overflow, server unreachable, dollar cap), then `memory.guard`, then possibly the
self-test filter and the random skip, then `differential_test`, then
`memory.store`, and on every path `append_round`. Nothing in an episode runs
concurrently. `reproduce.sh` asks `grid_status.py` which cells the merged log lacks,
runs `eval_shard.sh` (a sweep with a log of its own) on the ranges that hold one, and
merges; then freezes, fits, bands, analyses, replays policies over a verdict matrix
and compares the paper's numbers. Upstream, the gate freezes a pool of candidates, the screen estimates a
solve rate for each task in shards on several machines, and the corpus is selected from the merged screen.

Where concurrency and failure are: shards share the response cache and the server;
the gate's and the matrix's workers run in parallel; a run directory moves between
machines and shard counts; the server, the dollar cap and a kill stop any program
between two writes, after which the same command is given again.

What is hard here, and what the properties are for:

- two counters bound the loop and are maintained by hand on eight exits;
- evidence is filed under a possibly wrong class and read back by two readers; a
  guard that skips duplicates across two phases must still miss nothing;
- two arms must stay in step, draw by draw, for the comparison to mean anything, and
  their summaries must differ in nothing but where redundant draws were paid;
- a driver may die between the server's answer and the ledger, between the accepted row
  and its audit, in the middle of a cell whose rows the next run rewrites one by
  one; several drivers may miss the same cache key at once;
- which cells are missing is decided three times over different files, by the
  status, by a shard's resume index and by the merge;
- shards of several machines are merged by last write, screens by depth, and a selection
  of paid tasks must survive a new screen;
- a parallel walk must freeze what a serial one would;
- a chain of programs takes "the file is there" for "the file is current".

`PROJECT.json` lists these hazards at their lines.

## 2. Modules

The layers, from the bottom (each EXTENDS the one before it, unless said otherwise):

```
Oracle --- Memory --- RepairLoop --- LoopProperties (INSTANCE Search, Memory)
  |                       |
Regression             Proposer --- Summary
       \                /                \
             Sweep                    EpisodePair (two INSTANCEs of RepairLoop)
Screens --- Corpus         Memory, VerdictMatrix --- Policies
Grid     LlmCache     Gate     Reproduce
```

### The episode

`Oracle` — operators only. A patch matters to the oracle through the cases it fails
(`Fails[p]`: it crashes, times out or prints a different normalised output), a pool
is a set of positions, and `Usable` are the cases the reference can answer. `Samples` is the
whole pool when it fits `max_examples` and otherwise every subset of that size: the
code's draw is seeded with `seed + round_index`, so successive rounds' samples are
unrelated. `Refutations` is the case reported: the first in pool order for the
whole pool, any failing one for a drawn sample (whose order is random). A sample
the reference answers nowhere is `Inconclusive`, neither accept nor refutation.

`Regression` — `split_pool` and `regression_report`: the cases the faulty program
fails and those it passes, under a cap that draws a fixed sample, and what an accepted
patch breaks or leaves broken.

`Memory` — `history`, `byLocation`, `seen` are the three attributes of
`TypedMemory`; `StoreRefuted` and `StoreAccepted` are `store`; the operators from
`Bucket` to `BucketHitRefuted` are `guard`. An attempt object is its position in
`history`, so buckets are sets of positions and the `id(a)` test of phase 2 is
equality. `Consulted` is what the guard runs when nothing fires: bucket first,
then the rest, one run per case in typed mode, every refuted attempt in untyped
mode. `Blockers` is the one that fires. The random draws of `store` are
nondeterministic: `Typing` says whether the coin may win, must lose, or the location
is drawn from the pool. `memo_guard` is never on in the loop and is left out.

`RepairLoop` — `run_episode`. Every exit of a round is one action that contains the
draw, the transcript restart before it, the charge, the memory update and the row:
`ProposalUnusable`, `BackendUnreachable`, `CapReached`, `GuardedRound`,
`SelfTestBlocked`, `OracleSkipped`, `OracleError`, `Refute`, `Accept`, and
`Exhausted` for the loop condition. The proposer is nondeterministic: any patch, in
any round, whatever the prompt says. `Row` has the fields of `RoundRecord` that
accounting and outcome rest on, and the case `audit_guarded` found.

`LoopProperties` — the properties of `RepairLoop`, and the two refinements. `Search`
is what an episode promises without memory, oracle or guard: a search that draws one
proposal at a time, pays at most one unit for each from a budget, and ends with a
patch, with the budget spent, with its draws used up or with an error. The mapping
is `drawn <- round`, `spent <- attempts`, `result <- SearchResult`. The second
refinement says that the loop, seen through the memory's variables, is `Memory`'s own
specification: it changes memory only by `store`, with a counterexample the patch
really fails.

`Proposer` — what a prompt shows: for steered typed memory one representative per
believed class and the excluded classes, for chat the transcript. A block is a set
of lines, a line knows its place, and two prompts are equal exactly when their
blocks are. Wording and token budgets are left out.

`Summary` — `summarize_episode` over the rows of one episode: the effective rounds
(up to the first accept), oracle calls, attempts, the index of types built from
unguarded rounds of every arm of the same task and seed, and the redundancy counts. Tokens,
seconds and dollars are left out.

`EpisodePair` — two instances of `RepairLoop`: a guarding arm that does not steer,
and `no_memory`. Prompts are byte-identical and the nonce names task, seed and
round only, so both receive the same reply in the same round, and
their oracles draw the same sample; reaching the server is not shared. Both episodes'
rows are summarised over the index of both.

### The cache and the sweep

`LlmCache` — `complete`, run by several drivers over one cache directory. Each
point where a driver can be overtaken or killed is a value of `pc`: the hit test
(`Ask`, `Hit`, `Miss`), the rewriting of an entry without token counts (`Recover`),
cap and context test (`Check`), the server (`Answered`, `Unanswered`), the temporary
file, `os.replace`, the ledger append and the advance of `_spent`. `Kill` empties a
driver's memory at any of them; files stay. A key is a hash of model, settings,
nonce and prompt; a reply has a price, which is all the meter needs. `billed`,
`bought`, `given` and `kills` are history: what the server charged, how often a key was
paid for, which replies `complete` has returned for it, and how often a driver died. `_recover_counts`
also writes a temporary file of its own and replaces it, and is one step here,
because a reader sees the old or the new blob and both are whole. A torn
last line of the ledger is not modelled.

`Sweep` — `run_sweep`, which EXTENDS `Proposer` and `Regression`: the loop's actions
are conjoined with the driver's. The driver walks the cells, skips those its resume
index holds, runs an episode on the others, audits an accept (`Verdict`: the overfit
verdict, and the regression report when that is asked for, of the whole pool unless
capped), stops when `run_episode` raises, may be killed anywhere, and the command is
started again. `drawn` is the cache as one driver sees it, what `LlmCache` is shown to
provide: the reply to a *prompt* in a round of a cell never changes, also when a kill
struck after the reply was cached and before its row. `SampleAt` fixes the sample of
each round of a cell, as the seed does. So a cell that is run again replays what
its dead predecessor saw until an unreachable round changes the memory, and with it
the prompt. `log` is `episodes.jsonl` as `load_rounds` reads it: the last write of a
round wins (`Collapsed`), rounds that are not written again stay. Each row remembers
the run that wrote it. Draws shared between arms are not modelled here, and neither is a
torn last line.

### The grid of shards

`Grid` — `logs[f][c]` are the rounds shard `f` has logged of cell `c`, `meta[f]` the
protocol record its directory carries, `merged` the merged log. `Reproduce` starts
`stage_grid` on some machine with some shard count: `RangesTodo` are the ranges in
which `grid_status.py` misses a cell, `RunShard`, `SkipCell`, `RunRound`, `ShardEnds`
the shards with their resume index (own log and `--resume-from` the merged one),
`Consolidate` the merge with its refusals, `Recheck` the final status. `Kill`,
`StopShard` (the cap), `LoseLog` and `MergeByHand` are the faults. A merge reads its inputs
first and then rewrites `episodes.jsonl`, one of them, in place: `OpenMerged` empties the
file and keeps the rows in memory (`kept`), `FinishMerge` has them written, and `CutMerge`
is a kill between the two. What it leaves is either the first rounds of each cell, as far as the
write got (`Cuts`), or a file that ends in half a line (`torn`), which no later command can
parse: `Reproduce` then fails and `MergeByHand` is not possible. A row is only
whether the oracle accepted; a machine's cache and clock decide that
(`AcceptAt`), so two machines may disagree about one cell. `reported` remembers that a
merge has printed a conflict.

### The pool and the corpus

`Gate` — `validate_oracle.py` from the seeded order to the frozen pool. What stage 1
(the reference, the task's cases) and stage 2 (the mutants and the judge) would say
of a candidate is its profile, chosen at the start; the candidates are named by their
places in the seeded order, and `Places` is the order of the walk, where strata take turns.
`Batch` is one parallel batch folded in that order, `Freeze` writes report (`validation`) and
pool, `Refreeze` is `refreeze_pool.py`. The code's lists (`cohort_by`, `passing_by`, `selected`)
are sets here: their order is always that of `place`, a band at a time.

`Screens` — several machines, each with the pool order it last pulled, screen ranges
of it; a shard writes its report after every task (so a killed one leaves a shorter
file), may be stopped by its cap within a task, and a range may be screened again or
deeper. `Names` is the name of the report file, which carries the range and not the pool.
`MergeScreens` keeps, per task, the deepest record.

`Corpus` — `select_corpus.py`: bands by solve rate, quotas, the walk in passes (pinned
and in band first), the refusal to evict a recoverable pinned task, thin bands,
and the inheritance of a corpus by a gate that kept only some of its tasks.

### The policies

`VerdictMatrix` — `build_verdict_matrix.py`: the queue of candidates, groups of
tasks with one worker pool, workers that finish in any order, rows appended and the
case list rewritten; a kill may leave half a row, a row without its newline (`torn`, `lines`: the rows without it) or half a list, and a resumed build
reads what is there. `UnpackTests` is the operator.

`Policies` — every policy of `simulate_policies.py` over one cell, on any sequence of
candidates and samples, beside the memory of `Memory` that the study ran. `store`,
`gstore`, `buckets`, `kill`, `vkill`, `killAt` are the policies' own structures. `GuardConsult`
and `GuardEarlier` are what `consult` returns, as a set and its order; `GuardRuns` is what a walk along it
costs.

### The release

`Reproduce` — the stages of `reproduce.sh` as a program (`todo`) over a run directory.
A derived file is known by what it was computed from: `results` by log and banding,
`theory` by solve rates and results, `analysis` by results and banding. `Install` copies an
artifact over a file (or not, without force), `Kill` may leave half a copy,
`BuildArtifacts` packs, `Checkout` is a fresh clone, `Analyse` is `pipeline.sh analyse`.

`MC*` modules give the constants values. The theorems are in modules of their own, which EXTEND
the modules they are about: `MemoryProofs`, on it `LoopProofs`, and on that `ArmProofs` (the pair
and the sweep); `PolicyProofs`, also on `MemoryProofs`; `CacheProofs`, `GridProofs`,
`SelectionProofs` (the corpus and the oracle gate) and `ReproduceProofs`. Definitions named `X_Y` next to `X` are mutated forms
of it, which the properties are tested against (`PROJECT.json`, `mutants`).

## 3. Runs

| Run | Question | Bounds |
|---|---|---|
| `Loop_typed` | The typed arm with noisy filing, fallback and audit, complete oracle: do prompt, guard and coherence measure agree, does the guard miss nothing and block nothing it should not; both refinements | 5 patches, 3 cases, 3 locations, budget 5, raise after 3 failures |
| `Loop_arms` | Chat, self tests, random skip, free guarded rounds, sampling oracle with unanswerable cases, full budget, all at once: evidence, outcome, transcript, termination | budget 3, draw cap 2 (6 draws), samples of 2 out of 5 cases, restart after 2 |
| `Pair_standard` | Guard on, guarded rounds charged, typed memory over a random partition: does the guard change any outcome, do the two summaries agree | budget 3 |
| `Pair_free` | Guarded rounds free, typed memory at coherence 0, full budget: is the arm ever worse than the baseline | budget 3, draw cap 2 |
| `Cache_shards` | Two drivers over one cache, one of them killed anywhere: whole replies, replies and payments per key, the cap | 4 keys (two both may buy, one old entry, one over the context), 3 replies priced 1, 0, 0, cap 1, 1 kill |
| `Sweep_resume` | The steered arm under a sampling oracle, with kills, unreachable rounds, cap stops and re-runs: is a complete cell one episode and final, do audits match and speak for the whole pool, does every cell complete | 2 cells, budget 3, 3 faults, samples of 1 of 2 cases, regression cap 1 |
| `Grid_shards` | Status, shards and merge over a moving run directory: do they agree on what is missing, is a merged cell one machine's episode, do merges lose nothing but where a kill cuts their write, does the grid complete unless that left half a line | 2 presets (one full-budget) × 3 tasks, budget 2, 1 or 2 shards, 3 machines (one with another runtime, one that judges a cell otherwise), 2 faults, 1 declared gap |
| `Corpus_screens` | Screens by two machines with an old and a new pool, merged and selected at any time: are paid tasks kept, is the pool covered in the end | 3 tasks (one leaves the pool), one place per band, 12 draws per task, stops after 4, 1 fault |
| `Gate_batches` | Is the frozen pool a function of the order alone; is a cut-down report a walk | 5 candidates of 4 coding tasks, all combinations of 4 profiles each, 3 modes, sizes 2, 3 and auto, 1 or 2 jobs, cap factor 3 |
| `Policies_replay` | Building the matrix with kills, then replaying policies: is the offline guard the guard | 6 candidates of 3 tasks, 2 workers, groups of 2 tasks |
| `Reproduce_release` | Any order of packing, installing, filling in, analysing and reproducing, with a kill or a fresh checkout: is what ends well current | 2 cells (1 of the main experiment), 4 settings |
| `Claim_backend` | A statement of a comment and a test that the code does not keep (section 6) | as `Loop_typed`, smaller |

Why these bounds are enough to be interesting. The candidates of the loop runs
include the same failure at two locations, two failures at one location,
overlapping failures and a correct patch, so every relation between type and
behaviour the guard can meet occurs. Budget 5 is enough for a duplicate case in both
phases and a mistyped entry in each bucket; with a limit of 3 unreachable rounds it
leaves room for failures before, between and after verdicts. Three locations are
needed for a noisy filing to have a choice.

In `Cache_shards` two keys are what one driver needs to reach its cap and then try
to pass it, two drivers are what a race needs, and three replies are one more than
`RepliesPerKey` allows, so it can fail. A free reply is the default
(`PRICE_IN_PER_MTOK` is 0) and is what lets a driver go on buying below its
cap. `SYMMETRY` permutes the drivers and the two free replies, which nothing tells
apart; the run has only invariants.

In `Sweep_resume` three faults let a cell die twice at different lengths and leave
one fault for the other cell, and the shorter episode that then finishes has rows of
dead runs behind it; samples of one of two cases make a patch that fails a case
acceptable in one round and refuted in the next. `MaxRuns` bounds only how often a
*finished* sweep is run again.

In `Grid_shards` two shards of three tasks do not divide, and changing from two shards to
one moves a task's cell to another file. Two faults are a
shard log lost and a merge by hand, or a kill in the middle of a cell that another
machine then resumes, or a merge cut short and a shard log lost. `Cuts` of the instance are
those of files that list their cells in the order they are walked, every one of them, and of two that do not;
the theorems hold for any. In `Gate_batches` a batch (3 candidates a job) overruns a band
of 2 and holds two faults of one coding task. In `Corpus_screens` four draws of
twelve put a task in another band than twelve do.

Every passing run checks its properties against mutants of the modelled code as
well, e.g. the bucket filed without the type (`Filed_BucketOnly`), the last shard's
range dropped (`Ranges_LastDropped`), conflicts looked for in the merged log only
(`Conflicting_MergedOnly`), the banding before the freeze (`Chain_StrataFirst`).

An episode ends, and so does a sweep that is not run again; runs where the system really
may stop do not check deadlock. Drivers of `Cache_shards` can always ask again, and
deadlock is checked there.

*Fairness.*

- `FairSpec` is weak fairness of the whole next-state relation, for `EpisodeEnds`. The
  loop is sequential Python: while it has not returned, its next round runs. Nothing is
  assumed about which proposal the model draws or about the server answering; a hung
  call is bounded by the client's timeout and then is an unreachable round.
- `FairSweepSpec` is weak fairness of `DriverStep`: the driver makes progress, and the
  user runs the identical command again after a stop, which is what the driver's
  messages and `RUNBOOK.md` ask for. `Kill` and `Unavailable` are not fair and happen
  at most `MaxFaults` times: `EventuallyComplete` says that a sweep gets through any
  finite number of faults, not that it survives a server that never comes back. The
  run has no screening arm and no free guarded rounds (section 6).
- `FairGridSpec` is weak fairness of `Command`: a started `reproduce.sh` runs, and is
  started again. On which machine, with how many shards, is left open. `GridCompletes`
  assumes that the protocol records agree, that no conflict was reported and that no merge was
  cut short within a line: a merge of machines that judge differently may never complete a cell,
  and a torn merged log is never parsed again (section 6).
- `FairCorpusSpec`: started shards run (weak), what the audit asks for is screened
  again at full depth (weak), reports are merged (weak), and every machine pulls the
  pool now and then although a running shard disables that in between (strong).
- `FairPolicySpec`: a build and a replay run (weak), the same command is given again
  (weak), and the operator unpacks the tests (strong, for the same reason).
- `FairReproduceSpec`: a command runs (weak); whoever reproduces comes back to the
  whole command with forced installation (strong: other commands get in between).

## 4. Proofs

All theorems hold for every task, pool, budget, noise, mode, grid, cut into shards,
number of drivers and of faults, under the named assumptions of the modules
(`OracleAssumption`, `MemoryAssumption`, `LoopAssumption`, `ProposerAssumption`,
`PairAssumption`, `CacheAssumption`, `SweepAssumption`, `GridAssumption`,
`ScreensAssumption`, `CorpusAssumption`, `GateAssumption`, `MatrixAssumption`, `PolicyAssumption`,
`ReproduceAssumption`). These give the types of
the constants and say that `None` (`Absent` in `Gate`), which stands for an absent value, is not one of the
values (`NoneIsNothing` in `Grid`, no failure class in `Proposer`, no content of a file in
`Reproduce`). More than that is assumed in four places: a cache has
finitely many drivers; the guarding arm of a pair neither steers nor screens nor chats,
which is what makes its prompts the baseline's; the screen's shards
are ranges within its pool that cover it, none screened beyond `Depth`; and the guard a policy is
compared with is the typed one at full coherence with its fallback, the one `simulate_policies.py`
re-implements. The theorems about
the sweep do not use `ReplayAssumption` (in a replayed round the sample decides the
reported case, and there is no chat transcript): without it `Sweep` allows more
behaviours than the code has. What a theorem assumes
besides is in its own `ASSUME` and named below. TLC evaluates the modules' assumptions in every run.

*Memory.* `MemIInv` strengthens the type invariant with: buckets are exactly the
refuted positions by location; each entry's mistyping is marked and recoverable;
`seen` is the set of locations with a non-empty bucket. The last conjunct is what
the noise needs: without it a filing "elsewhere" could name a location no bucket
has, and the coherence-0 collapse would not be inductive. From it:
`AttributionShared`, `CoherenceZeroCollapses` and `IndexLosesNoRecall`. The last
uses no induction over time but a least-element argument over the guard's search
order (`LeastNatural`, by well-foundedness of the naturals): take the first
searched entry whose case refutes the candidate; anything skipped for a
duplicate case has an earlier entry with the same case, so the first one is
consulted. `CoherenceIsMeasured` uses the same argument within a bucket: a hit that
refutes is found although its case may first have been filed elsewhere.

*Loop.* `LoopImplementsMemory` is a simulation: one step per action. It lets
every memory invariant be reused for the loop. `GuardedRefutationsDistinct` needs
more than the property itself: a refutation is stored only when the guard, which by
`GuardRecallHolds` misses nothing, did not block the candidate, so the case it
fails is not stored yet. `LoopTypes` gives the types of all state.
`GuardedRefutationsBounded` draws the consequence: which case refuted an attempt is then an injection
into the pool's usable cases, so their number bounds what an episode pays for, whatever its
budget. `PromptShowsEachClassOnce` says that the typed prompt has one line for every class memory
believes refuted (its first attempt, by `LeastNatural`), and in a guarding arm no
counterexample twice. `OlderCountIsSmaller` is about the operators of `Summary` alone: the repeats
`type_repeats` counts are repeats in `redundancy_present` too, under every index.
`CompleteOracleMakesGuardSound` assumes `Complete` (the oracle runs the whole
pool): a blocked candidate fails a usable case of the pool, so no audit accepts
it. The assumption is needed: under sampling the case that blocked may be
outside the round's own sample (section 6). `LoopImplementsSearch` assumes that no
screening arm is on, because those charge a round twice; its invariant bounds
`attempts` by the budget and `round` by the draws.

`RecordIInv` is about what an episode leaves behind. While an episode runs, every round drawn
has its row, in its place; only then are "the first accept", which
`FirstAcceptIsReported` speaks of, and "the next verdict" the last row's. For
`OnlyVerdictsAreRemembered` the position of an attempt in memory is the number of
verdict rows up to its own (`Cardinality(VerdictsUpTo(k))`), which a new row changes for
itself only. `TranscriptIsBounded` is one of arithmetic: a transcript that would hold
`RestartAfter` failures is restarted at the draw, and starts after the last of them.

*Pair.* `GuardChangesNoOutcome` is the falsifier of
`scripts/check_consistency.py` as a theorem: with the complete oracle and charged
guarded rounds, the guarding arm and the baseline stay in the same round, with the
same attempts spent and the same first accept. Its invariant adds that undisturbed
episodes have the same status and that an episode moving alone is a disturbed one.

`OnlyFailuresAreSkipped`, `FreeRoundsNeverHurt` and `RedundancyIsInvariant` compare
the two logs row by row. `LogsIInv` says what the rows of one round have in common
(`Counterparts`: they say the same, or the arm skipped what the baseline saw refuted, or one of
them lost the draw), that each log has one row per round, and that an arm that still draws is
not behind the other (`Turns`): without that, an arm alone could write the row of a round
the other already has, from another draw. `LeadIInv` adds, for free guarded rounds, that the
baseline never stops later than the arm and has spent no less. The
summaries follow without induction: `Effective`, `Redundant` and the counts are sets
of rows, equal because the rows are counterparts, or in bijection. All assume
`Complete`; `RedundancyIsInvariant` also `Usable # {}`, a pool with a case the
reference can answer. Without one every round is inconclusive, has a patch and has no type,
and the property's clause on unknown types does not hold; `run_eval.py:477-484`
refuses a task without cases.

*Cache.* `RepliesAreWhole` rests on `Whole`: a driver that holds a reply holds a
server's, its temporary file is complete by the time it is put in place, and so is
every entry. `CapIsRespected` rests on `Metered`, which accounts for every dollar
the server charged: it is in the ledger, owed by a driver between answer and append,
or lost to a kill; and `_spent`, once read, is the ledger, less the row just written.
`OneReplyPerDriver` needs a witness: for every key that did not come with an old
entry, `Source` gives a function from replies seen to the driver that put them in
the cache, such that two replies have two drivers. A driver puts a
key at most once, because it has first missed it and, once put, a key is never
missed again, and a kill does not undo that; so the replies inject into the drivers
and `FS_Injection` bounds their number. `KeysArePaidOnce` rests on `Paid`: what was paid
for a key and the drivers that may still pay for it (`MayPay`: those past the hit test with that
key, or all of them while it has no entry) are together no more than the drivers and the kills.

*Sweep.* `SweepIInv` is the argument that a log in which the last write wins is
still one that can be read. Its parts: outside an episode the loop is as new (`Between`); the resume index
is exact for the cells ahead of the driver, although it was read when the driver
started (`Walked`); and `EpisodeLogged`: the rows of the running episode are the
first rows of its cell, and what older runs left behind them does not make the cell complete
before this episode has written every row the analysis will read. The loop's
`RecordIInv` is part of it. `CompleteCellIsOneEpisode` and `CompleteCellIsFinal` follow for
every combination of arms, also those that charge a round twice or draw for free; in the
latter the finality has to be stated with care, because such a cell counts as
complete while its episode still runs, and `CompleteIsFinal` says so. `AuditIInv`
ties the overfit log to this: an audited cell is complete, so it is not entered
again. `AuditsMatchTheLog` assumes `~ForceFull \/ Unscreened`. A self-test filter or random skips charge
rounds twice (section 6), so under a forced budget such an episode returns with fewer rounds
than the budget, is not complete, and is run and audited again. No preset combines them.

*Grid.* `MergesLoseNothing`: no merge drops a round of the merged log unless it was
forced or is killed in its own write; while it writes, its rows (`kept`) stand for the file. The exception
is needed (section 6). The work is in the claim that what the shards hold of a cell has no gap
(`ShardRowsAreSequences`), although the rounds come from several files, of ranges cut
differently and of shards that died at different rounds: every file starts with the
first round, so the rounds at hand are an initial segment, whose end a least-element
argument finds. Writing those over the merged log then keeps both (`OverwriteKeeps`), and
a merge by hand is refused where it would not (`Orphans`). What a cut write leaves are first rounds
again (`FirstRowsEpisode`), so the other two theorems need no exception.

`MergedCellIsOneEpisode` rests on `WalkIInv`. In a running shard, the cells ahead
are not complete in its log, and the rounds of the cell it is at are the first ones of
its machine's episode, over whatever an older run left (`Walk`); so each file holds one
machine's episode of every cell it has completed, and a merge without a conflict takes a
complete cell's rounds from files that agree with the one that has completed it
(`OverlayEpisode`). `RecheckIsTheContract` is the agreement of three programs on what
is missing. `Covered` says that, while no shard stopped and no conflict was
reported, a cell still missing is in a range to come, ahead of the running shard, or complete in a
shard log the next merge reads. It needs that the ranges of a cut
cover the tasks for every number of shards (`Size`, `Ranges`), and that overlaying logs completes a
cell only if one of them does (`OverlayDone`).

*Corpus.* The walk of `select_corpus.py` fills the bands with the pinned tasks first. `CorpusIInv`
says that every record counts draws and accepted ones, which is what makes `BandOf` a
band, and that a frozen corpus fits its quotas. `TakenFits` shows the walk takes at most a
band's quota, for any pool order, by a greatest-element argument over the places taken; `EvictionNeedsAMove` then
counts: if a pinned task finds its band full of pinned tasks, and all of them had been in that
band before, the old corpus would have been over its quota. Hence
`PinsAreEvictedOnlyByMoves` and `PaidTasksKeepTheirPlaces`.

*Release.* `ShippedGapsAreDeclared` rests on the order of a packing. `ShipIInv` says
that the digests are always those of a tree that declares its gaps; by the time they are written, the
log that was shipped is the run directory's and the declaration is what
it lacks; and no other command's plan has a step that writes them (`PlansArePrograms`). A packing
killed or forced before that leaves a tree the old digests no longer verify, or one
whose log and declaration are still the old ones.

`ReproductionRestsOnOneLog` follows a reproduction along its plan. `OnPlan` says that what is
left to do of a run of everything is a suffix of its nineteen programs, `Reached(n)` what
each program already past has left behind, which no later one takes back: after the second
freeze the results are those of today's log and banding, after the second fit the theory is
that of these results, and so on. That the banding needs a fit that needs a freeze is why the
chain runs two of its programs twice; with one of them missing, `Reached` is not inductive.

*Gate.* Batches overrun a full band and hold two faults of one task, so that `seated` is the
prefix of no serial walk. It is one band by band: `WalkOk` says that the seats of a band
are its claimants (of each coding task the first eligible fault) before some place `m`, and that
`m` is where the walk is unless the band was full by then. That a batch keeps this
(`SeatsOfOpenBand`) needs that the faults of one task have one rating, hence one band
(`Banded`): otherwise a fault seated in a full band's stead could hold the task of a later one; and that a
task met before has been claimed by its first eligible fault, which a least-element argument finds
(`FirstOfTask`). When the walk ends every band is full or has all its claimants, and the first n of an
initial part with n members are the first n of the whole (`FirstOfInitialPart`). Hence
`JobsChangeNothing`. `CuttingIsWalking` adds that the first n of the first k are the first n
(`FirstOfFirst`), that a cohort is not larger than what was asked, because no two candidates
have one place (`PlacesDiffer`, `FirstIsBounded`), and that with top-up the seats hold as many passing
faults as the cohort has members, so enough for every cut (`ListOk`). Both speak of the corpus under
`TopUp`; without it the claim is false (section 6).

*Policies.* `ReplayedGuardIsTheGuard` compares two programs on different data: `TypedMemory`
searches attempts and skips those whose case it has run, the offline guard keeps lists of cases.
`Follows` ties them: each list holds the cases of the attempts it stands for, in the order of their
first occurrence. So the attempts the guard consults are in bijection with the
cases, in the same order (`ConsultedOnce`, `SameOrder`), and both walks stop at the first that refutes
(`FirstRefutingEntry`, `BlockersComeFirst`, `SameRuns`). `PoliciesLearnTheSame` follows the kill counts:
on the whole pool a case is in the guards' stores iff each prioritiser has counted a kill
of it (`StoredAreKillers`). A prioritiser tries cases by its own counts, so that it might learn from another case than
the guards do; but where the guards are not blocked no failing case has a kill yet, all counts
are equal, and all policies meet the same case first (`FirstByKills`, `HitFacts`).
The matrix they read has an invariant of its own (`MatrixIInv`). A candidate is run after the lists of
its task are written (`ListedFirst`), a build rewrites them from what it read, and nothing is judged or
listed before the tests are unpacked (`NothingTooEarly`). So a task whose rows are all judged can be replayed
unless a kill fell into the writing of the lists (`WhatIsJudgedIsReplayable`, the
safe half of `EventuallyBuilt`). A judged row on a line that has its newline is never taken back, and
no kill, torn line or build over missing tests takes back more than one other (`NoJudgedRowIsLost`): `lines`
are the rows without an unended last line, and `LinesBehind` says that they differ from what is
read in one candidate at most.

*Only model-checked.* Liveness, which is out of the prover's reach: `EpisodeEnds`,
`EventuallyComplete`, `GridCompletes`, `EventuallyCovered`, `EventuallyBuilt`,
`EventuallyReproduced`. Every safety property that a passing run checks is a theorem.

## 5. What is abstracted or left out

- Outputs, normalisation, divergence shapes and prompt texts: a patch is its set
  of failed cases, its edit location and the property it violates on each case.
- Timing jitter inside an episode: a case is failed or not for good. The repository
  declares the faults where this is not so (timeout-edge faults) and excludes them.
  `Grid` and `Screens` let machines judge one candidate differently.
- Steering: the proposer may draw anything, which includes whatever a
  steered model draws. No claim about the distribution is made.
- `store` of an attempt without a type and `guard` on an attempt without a
  runnable case: the loop stores only oracle verdicts, which have both.
- Tokens, seconds, dollars per call, reasons and messages, and with them the parts of
  summaries and reports that add them up.
- Statistics. What an estimator computes from frozen rows, a figure draws or a
  number file prints is not modelled; which files it reads, and whether they belong
  together, is (`Reproduce`).
- The seeded draws of candidates, samples, shuffles and bootstraps are arbitrary
  constants or nondeterministic choices.

*Not modelled*, as parts: the benchmark adapter, run directories and model servers
(start-up and path computation, external processes); universes and hand labels
(one-shot filters and an interactive prompt); measurements outside the chain
(`measure_anchoring.py`, `measure_redundancy.py`, `measure_patch_quality.py`,
`measure_pool_strength.py`, `measure_typing_coherence.py`, `extract_numbers.py`, figures: one
read of finished files and one write). *Partly*: `reproduce.sh`'s environment, corpus and
paper stages and its second proposer; `fleet.sh`, which starts N `eval_shard.sh`; the merge of ledgers and
overfit logs; the generation of self tests, whose model calls may overflow or find no
server outside the loop's handler (`src/selftest.py:100`); a universe file rebuilt under a
sweep. `Grid` runs one model at one granularity in one directory, so
`check_protocol` has nothing to refuse there; its shard logs do not end in half a line.

*Coarser than the code*, where no property depends on it: `Freeze` of `Gate` writes the report and
`tasks.json` in one step, the code one after the other (`validate_oracle.py:1099-1101`). `Check` of
`Reproduce` compares all of the analysis with the results, the code two metrics of it
(`check_consistency.py:245-256`), and its guard-soundness check does not fail there.

## 6. Where text and code disagree

With a run:

- `consecutive_backend_failures` is never reset (`src/loop.py:384`), so failures
  on either side of successful rounds add up; the comment at line 53 and
  `tests/test_backend_unreachable.py:73` say they must not. (`Claim_backend`)

As definitions that no run lists; the constants under which TLC refutes them are
named:

- A self-test-blocked or randomly skipped round is charged before the filter and again
  after it (`src/loop.py:433`, `511`, `532`); `_charge` and
  `tests/test_baseline_arms.py:11` say one unit. (`OneUnitPerRound`; `Loop_typed` with
  `Mode = "no_memory"`, `Typing = "ideal"`, `SelfTestBlocks = {"c"}`)
- Rounds of a run that died stay in the log behind a later, shorter run that accepts
  earlier (`src/metrics.py:218`), although line 204 says that collapsing on read
  keeps a re-run from looking "like a longer episode than it was". What the analysis
  reads up to the first accept is one run's (`OneEpisodePerCell`). (`NoStaleRounds`;
  `Sweep_resume`)
- A kill between the accepted row and the overfit row leaves the accept unaudited for
  good, because the cell is then complete (`scripts/run_eval.py:277`); line 337
  says "on every accept". (`EveryAcceptAudited`; `Sweep_resume` with one cell)
- The resume index compares draws with the budget (`scripts/run_eval.py:176`). Under
  free guarded rounds a killed episode that drew that often is skipped although it has
  budget left, against line 153. (`DoneNeedsNoWork`; `Sweep_resume` with one cell
  and `FreeGuarded = TRUE`)
- `scripts/check_consistency.py:163-200` compares every guard-only arm with the
  baseline and calls a gap a guard-soundness bug; under free guarded rounds, the
  self-test arm or an audited arm there are gaps without one. (`GapIsGuardBug`; `Pair_free`)
- "Every guarded round is, by construction, a redundant attempt"
  (`summarize_episode`'s docstring): not where the guard is untyped or falls back to
  other buckets, because the case that blocks may belong to another type.
  (`GuardedIsRepeat`; `Pair_standard`)
- "Already-selected tasks keep their places" (`scripts/select_corpus.py:473`):
  screening more tasks moves one into a full band before them. (`PlacesKept`;
  `Corpus_screens`)
- `scripts/build_verdict_matrix.py:337` says of the case lists that a killed job
  "still leaves it valid"; they are rewritten in place. (`KilledListsAreValid`;
  `Policies_replay`)
- A merge rewrites the merged log, one of its inputs, in place
  (`scripts/consolidate_evals.py:357`); `scripts/reproduce.sh:370-371` says that "nothing already there is
  lost (consolidate_evals.py orders it so)". Killed in the write it has lost the rounds of which
  the file was the only copy, those of shards whose logs were deleted or not shipped; they are
  collected again as missing cells. `RoundsKept` excepts that step. (`NothingIsLost`;
  `Grid_shards` with `GridSpec`, `Tasks = 2`, `ShardCounts = {1}`, `Machine = {"m1"}`, `Declared = {}`,
  `MaxFaults = 3`.) If the file ends within a line, `load_rounds` (`src/metrics.py:213`) raises in
  `grid_status.py`, so that `reproduce.sh` dies in `grid_table`, and in every later merge, forced or not: the
  grid is not completed by giving the command again, but only after a repair by hand, and
  `GridCompletes` assumes `~torn`. (`TornCompletes`; `Grid_shards`)
- `scripts/refreeze_pool.py:131` passes `corpus_size=`, which `write_tasks_json`
  (`validate_oracle.py:769`) does not take: the report is rewritten and the pool is
  not. (`RefrozenPoolIsFrozen`; `Gate_batches`)
- `--no-top-up` is to "freeze only the passing members of the cohort, do not look further"
  (`scripts/validate_oracle.py:959-960`); a batch is folded whole and every passing fault of it
  may be selected (line 1096), so the corpus then depends on `--jobs`, against the docstring of `run` (line 560).
  (`OnlyTheCohort`; `Gate_batches` with `TopUp = FALSE`)

Visible in the definitions, or met while reading:

- *Loop.* An episode of the screening arms is charged twice for screened rounds, may
  end with fewer rounds than its budget, and is then done again on every re-run of
  the command, from the cache. Under a sampling oracle the guard can block a candidate
  that the round's own sample accepts; `src/loop.py:471` calls that impossible by
  construction. Verdict and skip rows of the typed arm carry no `bucket_hit`
  (`src/loop.py:582`), although `src/metrics.py:94` says the coherence measure is
  recorded per round; misses are censored from it.
- *Cache.* "The draw at round k is a function of (task, seed, k) alone"
  (`src/loop.py:61`) holds with one driver. Two drivers that miss one key both buy it
  and may go on with different replies (`RepliesPerKey` allows one each);
  `RUNBOOK.md:350` says of the shared draws that they "are bought twice". "Every
  call is logged" (`src/llm.py:1`) but for a call whose driver is killed between
  the answer and the append (`src/llm.py:416`): `SpendBounded` counts it.
- *Memory.* At c = 0 the first filed location is the only one ever in the pool
  (`FilingLocations`), so later refutations whose true location it is are filed
  *correctly*, and with `typing_random` a true location drawn away from is not in
  later pools. The docstring of `TypedMemory` (`src/memory.py:204-213`) promises a
  wrong location in the first case and every location seen in the second.
- *Summary.* `_hits_oracle` counts a round without a usable proposal as an oracle
  call; `attempts` counts charged rows, where the loop's own counter charged a screened
  round twice; `redundancy_unknown` is said to be non-zero only in the steered typed arm, but rounds
  that ended in an error count in every arm.
- *Regression.* A case that stops being answerable between the two passes counts as fixed.
- *Grid.* `eval_shard.sh:616-659` rewrites a shard's protocol record on every start;
  `consolidate_evals.py:175` promises that "every shard's recorded protocol and verified
  runtime agree". Rounds logged under an older record are vouched for by the new one. A
  conflict between machines is reported and merged by last write; such a cell may then
  be complete in its shard's log, and skipped, and incomplete in the merge, forever.
  Copies are compared with the first one seen, within one file not at all.
- *Gate and corpus.* `select_corpus.py:338-340` drops the inherited audit; an interrupted re-screen overwrites a fuller report;
  `screen_shard.sh:239` says that a machine with an older pool is caught at merge time, which nothing does; a merge looks for conflicts
  against the best record so far only; `screening.json`, which a selection writes, matches the default pattern
  of reports; a corpus inherited with `cp -n` may mix two.
- *Policies.* A torn last row of the matrix fuses with the next one, also one that lacks only its
  newline and was read, and skipped as done, until then; cells whose tasks are not listed are
  skipped without a word; a matrix that is there is reused though rows may be missing.
- *Release.* `RECOMPUTE_HEAVY=1` does not recompute a matrix that is complete
  (`reproduce.sh:71`). `pipeline.sh:194-217` freezes first: with no banding yet it
  stops at the consistency check, and later at "already frozen". `verify_policies.py`
  compares the sandbox hours with the paper's own, so that a rebuilt matrix may stop a
  reproduction that was asked to update the numbers. An installation killed
  within a copy leaves half a file, which later runs keep unless forced;
  artifacts without a manifest are installed unverified; forcing overwrites a longer merged log;
  a coherence report of an older log is reused.

## 7. Plan

Done: the modules of section 2, the runs of section 3, the proofs of section 4. Every
safety property that a passing run checks is a theorem as well. Left: the self-test filter's own
model calls inside a round.
