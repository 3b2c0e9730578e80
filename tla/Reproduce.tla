------------------------------ MODULE Reproduce ------------------------------
(***************************************************************************)
(* scripts/reproduce.sh over one run directory: artifacts are installed,   *)
(* missing cells run, and everything that is derived from the log is       *)
(* derived again, each program reading the files an earlier one wrote.     *)
(* Beside it the programs that pack the artifacts (build_artifacts.py) and *)
(* fetch them (fetch_artifacts.py), and pipeline.sh analyse, the same      *)
(* programs in another order.                                              *)
(*                                                                         *)
(* A derived file is known by what it was computed from.  The corpus is in *)
(* place, and how cells come to be complete is Grid's business.            *)
(***************************************************************************)
EXTENDS Integers, Sequences, FiniteSets, Functions

CONSTANTS
  Cell,     \* the cells of the grid
  Main,     \* those of the main experiment
  Options,  \* the settings reproduce.sh is run with
  MaxFaults, \* bound: kills and fresh checkouts
  Cut,      \* a JSON file that ends in the middle
  Screen,   \* the banding frozen with the corpus
  None

(* In the order fetch_artifacts.py installs them, and build_artifacts.py   *)
(* ships them.                                                             *)
Installed == <<"coherence", "episodes", "coverage", "verdicts", "cases">>
Shipped == <<"episodes", "coherence", "verdicts", "cases">>
File == Range(Installed)
Stages == <<"artifacts", "grid", "analyse", "policies", "numbers">>

ASSUME ReproduceAssumption ==
  /\ Main \subseteq Cell /\ MaxFaults \in Nat
  /\ None # "all"
  /\ \A S \in SUBSET Cell : S # None /\ \A h \in BOOLEAN : [cells |-> S, here |-> h] # None
  /\ \A log, now \in [cells : SUBSET Cell, here : BOOLEAN] :
       \A band \in [cells : SUBSET Cell, here : BOOLEAN] \cup {None, Screen} :
         [pi |-> log, results |-> [log |-> now, strata |-> band]] # None
  /\ Options \subseteq [stage : Range(Stages) \cup {"all"}, force : BOOLEAN, heavy : BOOLEAN,
                        fill : BOOLEAN, update : BOOLEAN]

VARIABLES
  equipped,  \* does the machine have the test data and a model
  dir,       \* the run directory: episodes and verdicts with their cells,
             \* and whether any was run here; coherence with its log; the
             \* cells declared missing; the cells whose cases are listed
  artifacts, manifest, \* the packed tree and the digests in MANIFEST.json
  results, theory, strata, analysis, policies, \* the derived files
  committed, \* the paper's numbers
  todo, opts, \* what the running command has yet to do, and its settings
  rebuilt,   \* did all of reproduce.sh just end well
  faults

derived == <<results, theory, strata, analysis, policies>>
packed == <<artifacts, manifest>>
reproduceVars == <<equipped, dir, packed, derived, committed, todo, opts, rebuilt, faults>>

Nothing == [f \in File |-> None]
NoLog == [cells |-> {}, here |-> FALSE]
Log == IF dir["episodes"] = None THEN NoLog ELSE dir["episodes"]
Declared == IF dir["coverage"] = None THEN {} ELSE dir["coverage"]
Missing == Cell \ Log.cells

-----------------------------------------------------------------------------
(* The programs a command runs, in order.                                  *)
Chain_StrataFirst == \* mutant: the banding is rebuilt before the fit it reads
  <<"freeze!", "strata!", "fit", "freeze!", "analyze", "fit">>
Chain == <<"freeze!", "fit", "strata!", "freeze!", "analyze", "fit">>

Stage(s) ==
  CASE s = "artifacts" -> <<"source">> \o Installed
    [] s = "grid"      -> <<"grid">>
    [] s = "analyse"   -> Chain \o <<"coherence?", "check">>
    [] s = "policies"  -> <<"matrix", "simulate", "verify">>
    [] s = "numbers"   -> <<"numbers">>

Wanted(stage) ==
  IF stage # "all" THEN Stage(stage)
  ELSE Stage("artifacts") \o Stage("grid") \o Stage("analyse") \o Stage("policies") \o Stage("numbers")

PipelineAnalyse == <<"freeze", "analyze", "fit", "strata!", "coherence!", "check">>

Ship_ManifestFirst == <<"cover", "manifest", "ship", "declare">> \* mutant
Ship == <<"cover", "ship", "declare", "manifest">>

Settings == [stage |-> None, force |-> FALSE, heavy |-> FALSE, fill |-> FALSE, update |-> FALSE]

Start(steps, o) ==
  /\ todo = <<>>
  /\ todo' = steps /\ opts' = o /\ rebuilt' = FALSE
  /\ UNCHANGED <<equipped, dir, packed, derived, committed, faults>>

Reproduce(o) == Start(Wanted(o.stage), o)
Analyse == Start(PipelineAnalyse, Settings)
BuildArtifacts(force) == Start(Ship, [Settings EXCEPT !.force = force])

-----------------------------------------------------------------------------
(* set -e: a program that fails ends the command.                          *)
Doing(step) == todo # <<>> /\ Head(todo) = step
Go ==
  /\ todo' = Tail(todo)
  /\ IF Tail(todo) # <<>> THEN UNCHANGED <<opts, rebuilt>>
     ELSE opts' = Settings /\ rebuilt' = (opts.stage = "all")
  /\ UNCHANGED <<equipped, faults>>
Die == todo' = <<>> /\ opts' = Settings /\ UNCHANGED <<equipped, rebuilt, faults>>

GoIf(ok) == (IF ok THEN Go ELSE Die) /\ UNCHANGED <<dir, packed, derived, committed>>

(* fetch_artifacts.py: verify only what the manifest lists; without a      *)
(* manifest there is nothing to verify.                                    *)
Verified == manifest # None => \A f \in File : manifest[f] # None => artifacts[f] = manifest[f]

Source == Doing("source") /\ GoIf(artifacts = Nothing \/ Verified)

(* install: a file that exists is kept, unless forced.                     *)
Overwrites_Never(f) == dir[f] = None \* mutant: --force is dropped on the way
Overwrites(f) == dir[f] = None \/ opts.force

Install(f) ==
  /\ Doing(f) /\ Go
  /\ dir' = IF artifacts[f] # None /\ Overwrites(f) THEN [dir EXCEPT ![f] = artifacts[f]] ELSE dir
  /\ UNCHANGED <<packed, derived, committed>>

(* stage_grid: nothing undeclared missing is a hit; else the ranges with a *)
(* gap are run, which may fill declared cells too, and merged.             *)
Gaps == IF opts.fill THEN Missing ELSE Missing \ Declared

GridStage ==
  /\ Doing("grid")
  /\ IF dir["coverage"] = Cut THEN GoIf(FALSE)
     ELSE IF Gaps = {} THEN GoIf(TRUE)
     ELSE IF ~equipped THEN GoIf(FALSE)
     ELSE /\ Go
          /\ \E more \in SUBSET (Missing \ Gaps) :
               dir' = [dir EXCEPT !["episodes"] = [cells |-> Log.cells \cup Gaps \cup more, here |-> TRUE]]
          /\ UNCHANGED <<packed, derived, committed>>

-----------------------------------------------------------------------------
(* The analysis chain.  freeze_results.py refuses to overwrite without     *)
(* --force and refuses an incomplete main experiment.                      *)
Frozen == [log |-> Log, strata |-> strata]

Freeze(force) ==
  /\ Doing(IF force THEN "freeze!" ELSE "freeze")
  /\ IF (results # None /\ ~force) \/ ~(Main \subseteq Log.cells) THEN GoIf(FALSE)
     ELSE Go /\ results' = Frozen
          /\ UNCHANGED <<dir, packed, theory, strata, analysis, policies, committed>>

(* fit_theory.py: pi from the log, the fit from the frozen results.        *)
Fit ==
  /\ Doing("fit")
  /\ IF results = None THEN GoIf(FALSE)
     ELSE Go /\ theory' = [pi |-> Log, results |-> results]
          /\ UNCHANGED <<dir, packed, results, strata, analysis, policies, committed>>

(* build_strata.py --force: the banding of the fit, or of the screen.      *)
Strata ==
  /\ Doing("strata!") /\ Go
  /\ strata' = IF theory = None THEN Screen ELSE theory.pi
  /\ UNCHANGED <<dir, packed, results, theory, analysis, policies, committed>>

Analyze ==
  /\ Doing("analyze")
  /\ IF results = None THEN GoIf(FALSE)
     ELSE Go /\ analysis' = [results |-> results, strata |-> strata]
          /\ UNCHANGED <<dir, packed, results, theory, strata, policies, committed>>

(* Tier B: a file that is there is a hit.                                  *)
Coherence(always) ==
  /\ Doing(IF always THEN "coherence!" ELSE "coherence?")
  /\ IF dir["coherence"] # None /\ ~always /\ ~opts.heavy THEN GoIf(TRUE)
     ELSE IF ~equipped THEN GoIf(FALSE)
     ELSE Go /\ dir' = [dir EXCEPT !["coherence"] = Log]
          /\ UNCHANGED <<packed, derived, committed>>

(* check_consistency.py recomputes the episodes under today's banding.     *)
Check ==
  /\ Doing("check")
  /\ GoIf(/\ results = Frozen
          /\ analysis # None => analysis = [results |-> Frozen, strata |-> strata]
          /\ theory # None => theory = [pi |-> Log, results |-> Frozen])

-----------------------------------------------------------------------------
(* stage_policies.  The build resumes (VerdictMatrix): it runs what has no *)
(* row and lists the tasks it runs, whether or not it was to recompute.    *)
Rows == IF dir["verdicts"] = None THEN NoLog ELSE dir["verdicts"]

Matrix ==
  LET new == (Main \cap Log.cells) \ Rows.cells
      listed == IF dir["cases"] \in {None, Cut} THEN {} ELSE dir["cases"]
  IN  /\ Doing("matrix")
      /\ IF dir["episodes"] = None THEN GoIf(FALSE)
         ELSE IF dir["verdicts"] # None /\ dir["cases"] # None /\ ~opts.heavy THEN GoIf(TRUE)
         ELSE IF ~equipped THEN GoIf(FALSE)
         ELSE IF new = {} THEN GoIf(TRUE)
         ELSE /\ Go
              /\ dir' = [dir EXCEPT !["verdicts"] = [cells |-> Rows.cells \cup new, here |-> TRUE],
                                    !["cases"] = listed \cup new]
              /\ UNCHANGED <<packed, derived, committed>>

(* simulate_policies.py skips a cell it has no rows or no cases for.       *)
Simulate ==
  /\ Doing("simulate")
  /\ IF dir["verdicts"] = None \/ dir["cases"] \in {None, Cut} THEN GoIf(FALSE)
     ELSE /\ Go
          /\ policies' = [log |-> Log, used |-> Main \cap Log.cells \cap Rows.cells \cap dir["cases"]]
          /\ UNCHANGED <<dir, packed, results, theory, strata, analysis, committed>>

(* verify_policies.py compares with what the paper prints, sandbox hours   *)
(* included: rows or cells that were run here may or may not agree.        *)
Verify ==
  /\ Doing("verify")
  /\ \E agree \in BOOLEAN :
       /\ ~Log.here /\ ~Rows.here => agree
       /\ GoIf(agree /\ policies.used = Main /\ Rows.cells = Main /\ dir["cases"] = Main)

(* stage_numbers: what is regenerated is compared with what is committed,  *)
(* and replaces it only if asked to.                                       *)
Regenerated ==
  [results |-> results, theory |-> theory, strata |-> strata, analysis |-> analysis,
   coherence |-> dir["coherence"]]

Numbers ==
  /\ Doing("numbers")
  /\ IF results = None \/ theory = None \/ analysis = None \/ dir["coherence"] \in {None, Cut} THEN GoIf(FALSE)
     ELSE \E same \in BOOLEAN :
            /\ ~Log.here => same = (committed = Regenerated)
            /\ IF same \/ ~opts.update THEN GoIf(same)
               ELSE Go /\ committed' = Regenerated /\ UNCHANGED <<dir, packed, derived>>

-----------------------------------------------------------------------------
(* build_artifacts.py: coverage first, then the files, then the gaps       *)
(* declared, and the manifest last.                                        *)
Cover ==
  /\ Doing("cover")
  /\ \E allowed \in SUBSET Cell : GoIf(Missing \subseteq allowed)

ShipFiles ==
  /\ Doing("ship")
  /\ IF \E f \in Range(Shipped) : dir[f] = None \/ (~opts.force /\ artifacts[f] \notin {None, dir[f]})
     THEN GoIf(FALSE)
     ELSE Go /\ artifacts' = [f \in File |-> IF f = "coverage" THEN artifacts[f] ELSE dir[f]]
          /\ UNCHANGED <<manifest, dir, derived, committed>>

Declare ==
  /\ Doing("declare") /\ Go
  /\ artifacts' = IF Missing = {} THEN artifacts ELSE [artifacts EXCEPT !["coverage"] = Missing]
  /\ UNCHANGED <<manifest, dir, derived, committed>>

WriteManifest ==
  /\ Doing("manifest") /\ Go
  /\ manifest' = IF Missing = {} THEN [artifacts EXCEPT !["coverage"] = None] ELSE artifacts
  /\ UNCHANGED <<artifacts, dir, derived, committed>>

-----------------------------------------------------------------------------
(* What a copy that was killed leaves of a file: whole lines of a log, or  *)
(* JSON that does not parse.                                               *)
Halves(f, v) ==
  IF f \notin {"episodes", "verdicts"} THEN {Cut}
  ELSE {[v EXCEPT !.cells = S] : S \in SUBSET v.cells \ {v.cells}}

Fault == faults < MaxFaults /\ faults' = faults + 1

Kill ==
  /\ todo # <<>> /\ Fault
  /\ todo' = <<>> /\ opts' = Settings 
  /\ \/ UNCHANGED <<dir, artifacts>>
     \/ \E f \in File :
          /\ Head(todo) = f /\ artifacts[f] # None /\ Overwrites(f)
          /\ \E half \in Halves(f, artifacts[f]) : dir' = [dir EXCEPT ![f] = half]
          /\ UNCHANGED artifacts
     \/ \E n \in 1..Len(Shipped) :
          /\ Head(todo) = "ship" /\ \A i \in 1..n : dir[Shipped[i]] \notin {None, Cut}
          /\ opts.force \/ \A i \in 1..n : artifacts[Shipped[i]] \in {None, dir[Shipped[i]]}
          /\ artifacts[Shipped[n]] # dir[Shipped[n]]
          /\ \E half \in Halves(Shipped[n], dir[Shipped[n]]) :
               artifacts' = [f \in File |-> IF f = Shipped[n] THEN half
                                            ELSE IF \E i \in 1..n : f = Shipped[i] THEN dir[f] ELSE artifacts[f]]
          /\ UNCHANGED dir
  /\ UNCHANGED <<equipped, manifest, derived, committed, rebuilt>>

(* A fresh checkout: the paper's numbers come with it, the rest does not.  *)
Checkout ==
  /\ todo = <<>> /\ Fault
  /\ dir' = Nothing
  /\ results' = None /\ theory' = None /\ strata' = None /\ analysis' = None /\ policies' = None
  /\ equipped' \in BOOLEAN /\ rebuilt' = FALSE
  /\ UNCHANGED <<packed, committed, todo, opts>>

(* The paper's own artifacts have been published, with a gap or without,   *)
(* and its numbers come from them.                                         *)
Published(gap) ==
  LET log == [cells |-> Cell \ gap, here |-> FALSE]
      rows == [cells |-> Main, here |-> FALSE]
  IN  [episodes |-> log, coherence |-> log, verdicts |-> rows, cases |-> Main,
       coverage |-> IF gap = {} THEN None ELSE gap]

FirstNumbers(log) ==
  LET frozen == [log |-> log, strata |-> log]
  IN  [results |-> frozen, theory |-> [pi |-> log, results |-> frozen], strata |-> log,
       analysis |-> [results |-> frozen, strata |-> log], coherence |-> log]

ReproduceInit ==
  /\ equipped \in BOOLEAN /\ dir = Nothing
  /\ \E gap \in SUBSET (Cell \ Main) :
       /\ artifacts = Published(gap) /\ manifest = Published(gap)
       /\ committed = FirstNumbers(Published(gap)["episodes"])
  /\ results = None /\ theory = None /\ strata = None /\ analysis = None /\ policies = None
  /\ todo = <<>> /\ opts = Settings /\ rebuilt = FALSE /\ faults = 0

Step ==
  \/ Source \/ (\E f \in File : Install(f)) \/ GridStage
  \/ (\E force \in BOOLEAN : Freeze(force)) \/ Fit \/ Strata \/ Analyze
  \/ (\E always \in BOOLEAN : Coherence(always)) \/ Check
  \/ Matrix \/ Simulate \/ Verify \/ Numbers
  \/ Cover \/ ShipFiles \/ Declare \/ WriteManifest

ReproduceNext ==
  \/ \E o \in Options : Reproduce(o)
  \/ Analyse \/ (\E force \in BOOLEAN : BuildArtifacts(force))
  \/ Step \/ Kill \/ Checkout

ReproduceSpec == ReproduceInit /\ [][ReproduceNext]_reproduceVars

(* Commands run; whoever reproduces comes back to the whole command, with  *)
(* the artifacts installed over what is there.                             *)
FairReproduceSpec ==
  /\ ReproduceSpec /\ WF_reproduceVars(Step)
  /\ SF_reproduceVars(\E o \in Options : o.stage = "all" /\ o.force /\ o.update /\ Reproduce(o))

-----------------------------------------------------------------------------
(* A reproduction that ends well rests on one log: no undeclared cell is   *)
(* missing, the frozen results, the fit, the banding and the analysis all  *)
(* come from today's log and from one another, and the policies were       *)
(* replayed on every cell, whatever was installed, filled in, killed or    *)
(* analysed by hand before.                                                *)
ReleaseIsCurrent ==
  rebuilt =>
    /\ Missing \subseteq Declared
    /\ strata = Log /\ results = Frozen
    /\ theory = [pi |-> Log, results |-> results]
    /\ analysis = [results |-> results, strata |-> strata]
    /\ policies = [log |-> Log, used |-> Main]

(* "A preset that is not complete ... its missing cells are declared":     *)
(* artifacts a manifest vouches for ship no gap silently, also when the    *)
(* packing was killed, forced over older artifacts, or both.               *)
GapsAreDeclared ==
  manifest # None /\ Verified =>
    Cell \ artifacts["episodes"].cells \subseteq
      (IF artifacts["coverage"] = None THEN {} ELSE artifacts["coverage"])

(* "With the artifacts installed ... it must rebuild": as long as the      *)
(* published artifacts are there, whatever an installation cut short left  *)
(* in the run directory, one that is forced repairs it.                    *)
InPlace == manifest = artifacts /\ \E gap \in SUBSET (Cell \ Main) : artifacts = Published(gap)

EventuallyReproduced == <>[]InPlace => []<>(rebuilt)
===============================================================================
