--------------------------- MODULE ReproduceProofs ---------------------------
(***************************************************************************)
(* Theorems about what is shipped and what is reproduced from it: for      *)
(* every grid of cells, every set of settings, and any kills, checkouts    *)
(* and commands in between.                                                *)
(***************************************************************************)
EXTENDS Reproduce, SequenceTheorems, TLAPS

(* The gaps of a packed tree are declared in it.                           *)
DeclaredIn(tree) == IF tree["coverage"] = None THEN {} ELSE tree["coverage"]

Sound(tree) ==
  /\ tree["episodes"] # None
  /\ Cell \ tree["episodes"].cells \subseteq DeclaredIn(tree)

(* The inductive invariant: the digests are those of a tree that declares  *)
(* its gaps, and what a packing has shipped by the time it writes them is  *)
(* the run directory's.  No other command writes digests.                  *)
Programs ==
  Range(Installed) \cup
  {"source", "grid", "freeze", "freeze!", "fit", "strata!", "analyze", "coherence?", "coherence!",
   "check", "matrix", "simulate", "verify", "numbers"}

Packing == {Ship, <<"ship", "declare", "manifest">>, <<"declare", "manifest">>, <<"manifest">>}

ShipIInv ==
  /\ manifest # None => Sound(manifest)
  /\ todo \in Seq(Programs) \cup Packing
  /\ todo \in {<<"declare", "manifest">>, <<"manifest">>} =>
       dir["episodes"] # None /\ artifacts["episodes"] = dir["episodes"]
  /\ artifacts = [f \in File |-> artifacts[f]]
  /\ todo = <<"manifest">> /\ Missing # {} => artifacts["coverage"] = Missing

-----------------------------------------------------------------------------
(* What reproduce.sh and pipeline.sh run packs nothing.                    *)
LEMMA PlansArePrograms ==
  ASSUME NEW stage \in Range(Stages) \cup {"all"}
  PROVE  Wanted(stage) \in Seq(Programs) /\ PipelineAnalyse \in Seq(Programs)
<1>1. Range(Stages) = {"artifacts", "grid", "analyse", "policies", "numbers"}
  BY DEF Range, Stages
<1>2. Installed \in Seq(Programs)
  BY DEF Installed, Programs, Range
<1>3. Chain \in Seq(Programs) /\ <<"source">> \in Seq(Programs) /\ <<"coherence?", "check">> \in Seq(Programs)
  BY DEF Chain, Programs
<1>4. Stage("artifacts") \in Seq(Programs)
  BY <1>2, <1>3 DEF Stage
<1>5. Stage("grid") \in Seq(Programs)
  BY DEF Stage, Programs
<1>6. Stage("analyse") \in Seq(Programs)
  BY <1>3 DEF Stage
<1>7. Stage("policies") \in Seq(Programs)
  BY DEF Stage, Programs
<1>8. Stage("numbers") \in Seq(Programs)
  BY DEF Stage, Programs
<1>9. PipelineAnalyse \in Seq(Programs)
  BY DEF PipelineAnalyse, Programs
<1> QED  BY <1>1, <1>4, <1>5, <1>6, <1>7, <1>8, <1>9 DEF Wanted

(* A running command goes on to the rest of its plan, or is over.          *)
LEMMA PlanGoesOn ==
  ASSUME todo \in Seq(Programs) \cup Packing, todo # <<>>,
         todo' = Tail(todo) \/ todo' = <<>>
  PROVE  /\ todo' \in Seq(Programs) \cup Packing
         /\ todo' = <<"manifest">> => Head(todo) = "declare"
         /\ todo' = <<"declare", "manifest">> => Head(todo) = "ship"
<1>1. <<>> \in Seq(Programs)
  OBVIOUS
<1>2. "manifest" \notin Programs
  BY DEF Programs, Range, Installed
<1>3. ASSUME NEW s \in Seq(Programs)
      PROVE  s # <<"manifest">> /\ s # <<"declare", "manifest">>
  <2>1. \A i \in 1..Len(s) : s[i] # "manifest"
    BY <1>2
  <2>2. ASSUME s = <<"manifest">> PROVE FALSE
    BY <2>1, <2>2
  <2>3. ASSUME s = <<"declare", "manifest">> PROVE FALSE
    BY <2>1, <2>3
  <2> QED  BY <2>2, <2>3
<1>4. CASE todo' = <<>>
  BY <1>1, <1>3, <1>4
<1>5. CASE todo \in Seq(Programs) /\ todo' = Tail(todo)
  <2>1. Tail(todo) \in Seq(Programs)
    BY <1>5
  <2> QED  BY <1>3, <1>5, <2>1
<1>6. CASE todo \in Packing /\ todo' = Tail(todo)
  <2>1. CASE todo = Ship
    BY <2>1, <1>6 DEF Ship, Packing
  <2>2. CASE todo = <<"ship", "declare", "manifest">>
    BY <2>2, <1>6 DEF Packing
  <2>3. CASE todo = <<"declare", "manifest">>
    BY <2>3, <1>6 DEF Packing
  <2>4. CASE todo = <<"manifest">>
    BY <2>4, <1>1, <1>3, <1>6
  <2> QED  BY <1>6, <2>1, <2>2, <2>3, <2>4 DEF Packing
<1> QED  BY <1>4, <1>5, <1>6

(* A step of another program, or one that ends the command.                *)
LEMMA QuietStep ==
  ASSUME ShipIInv, todo # <<>>,
         \/ todo' = <<>>
         \/ todo' = Tail(todo) /\ Head(todo) \notin {"ship", "declare"},
         manifest' = manifest, artifacts' = [f \in File |-> artifacts'[f]]
  PROVE  ShipIInv'
<1>1. /\ todo' \in Seq(Programs) \cup Packing
      /\ todo' # <<"manifest">> /\ todo' # <<"declare", "manifest">>
  BY PlanGoesOn DEF ShipIInv
<1> QED  BY <1>1 DEF ShipIInv, Sound, DeclaredIn

(* Which plan is at its shipping, declaring or digesting step.             *)
LEMMA PackingPlans ==
  ASSUME ShipIInv, todo # <<>>
  PROVE  /\ Head(todo) = "ship" => todo = <<"ship", "declare", "manifest">>
         /\ Head(todo) = "declare" => todo = <<"declare", "manifest">>
         /\ Head(todo) = "manifest" => todo = <<"manifest">>
<1>1. Programs \cap {"ship", "declare", "manifest"} = {}
  BY DEF Programs, Range, Installed
<1>2. CASE todo \in Seq(Programs)
  <2>1. Head(todo) \in Programs
    BY <1>2
  <2> QED  BY <1>1, <2>1
<1>3. CASE todo \in Packing
  BY <1>3 DEF Packing, Ship
<1> QED  BY <1>2, <1>3 DEF ShipIInv

LEMMA FileNames ==
  /\ "episodes" \in File /\ "coverage" \in File /\ "episodes" \in Range(Shipped)
  /\ File \cap {"ship", "declare"} = {}
BY DEF File, Range, Installed, Shipped

LEMMA ShipInit == ReproduceInit => ShipIInv
<1> SUFFICES ASSUME ReproduceInit PROVE ShipIInv
  OBVIOUS
<1>1. PICK gap \in SUBSET (Cell \ Main) : artifacts = Published(gap) /\ manifest = Published(gap)
  BY DEF ReproduceInit
<1>2. /\ Published(gap)["episodes"] = [cells |-> Cell \ gap, here |-> FALSE]
      /\ Published(gap)["coverage"] = IF gap = {} THEN None ELSE gap
      /\ Published(gap) = [f \in File |-> Published(gap)[f]]
  BY DEF Published, File, Range, Installed
<1>3. gap # None /\ Published(gap)["episodes"] # None
  <2>1. gap \in SUBSET Cell /\ Cell \ gap \in SUBSET Cell
    OBVIOUS
  <2>2. gap # None /\ [cells |-> Cell \ gap, here |-> FALSE] # None
    BY <2>1, ReproduceAssumption DEF ReproduceAssumption
  <2> QED  BY <1>2, <2>2
<1>4. Sound(Published(gap))
  BY <1>2, <1>3 DEF Sound, DeclaredIn
<1>5. todo = <<>>
  BY DEF ReproduceInit
<1> QED  BY <1>1, <1>2, <1>4, <1>5 DEF ShipIInv, ReproduceInit

-----------------------------------------------------------------------------
(* Packing: the files, then the gaps, then the digests of both.            *)
LEMMA ShipStep ==
  ASSUME ShipIInv, ShipFiles
  PROVE  ShipIInv'
<1>1. todo # <<>> /\ Head(todo) = "ship" /\ todo = <<"ship", "declare", "manifest">>
  BY PackingPlans DEF ShipFiles, Doing
<1>2. CASE \E f \in Range(Shipped) : dir[f] = None \/ (~opts.force /\ artifacts[f] \notin {None, dir[f]})
  BY <1>1, <1>2, QuietStep DEF ShipFiles, GoIf, Die, packed, ShipIInv
<1>3. CASE ~\E f \in Range(Shipped) : dir[f] = None \/ (~opts.force /\ artifacts[f] \notin {None, dir[f]})
  <2>1. /\ artifacts' = [f \in File |-> IF f = "coverage" THEN artifacts[f] ELSE dir[f]]
        /\ manifest' = manifest /\ dir' = dir /\ todo' = Tail(todo)
    BY <1>3 DEF ShipFiles, Go
  <2>2. todo' = <<"declare", "manifest">>
    BY <1>1, <2>1
  <2>3. dir["episodes"] # None /\ artifacts'["episodes"] = dir["episodes"]
    BY <1>3, <2>1, FileNames
  <2>4. todo' # <<"manifest">> /\ todo' \in Packing
    BY <2>2 DEF Packing
  <2>5. artifacts' = [f \in File |-> artifacts'[f]]
    BY <2>1
  <2> QED  BY <2>1, <2>3, <2>4, <2>5 DEF ShipIInv, Sound, DeclaredIn
<1> QED  BY <1>2, <1>3

LEMMA DeclareStep ==
  ASSUME ShipIInv, Declare
  PROVE  ShipIInv'
<1>1. todo = <<"declare", "manifest">>
  BY PackingPlans DEF Declare, Doing
<1>2. /\ artifacts' = IF Missing = {} THEN artifacts ELSE [artifacts EXCEPT !["coverage"] = Missing]
      /\ manifest' = manifest /\ dir' = dir /\ todo' = <<"manifest">>
  BY <1>1 DEF Declare, Go
<1>3. /\ artifacts' = [f \in File |-> artifacts'[f]]
      /\ artifacts'["episodes"] = artifacts["episodes"]
      /\ Missing # {} => artifacts'["coverage"] = Missing
  BY <1>2, FileNames DEF ShipIInv
<1>4. Missing' = Missing
  BY <1>2 DEF Missing, Log
<1>5. todo' \in Packing
  BY <1>2 DEF Packing
<1> QED  BY <1>1, <1>2, <1>3, <1>4, <1>5 DEF ShipIInv, Sound, DeclaredIn

LEMMA ManifestStep ==
  ASSUME ShipIInv, WriteManifest
  PROVE  ShipIInv'
<1>1. todo = <<"manifest">>
  BY PackingPlans DEF WriteManifest, Doing
<1>2. /\ manifest' = IF Missing = {} THEN [artifacts EXCEPT !["coverage"] = None] ELSE artifacts
      /\ artifacts' = artifacts /\ todo' = <<>>
  BY <1>1 DEF WriteManifest, Go
<1>3. /\ artifacts["episodes"] # None /\ Missing = Cell \ artifacts["episodes"].cells
      /\ Missing # {} => artifacts["coverage"] = Missing
  BY <1>1 DEF ShipIInv, Missing, Log
<1>4. Missing # None
  BY ReproduceAssumption DEF ReproduceAssumption, Missing
<1>5. CASE Missing = {}
  <2>1. manifest'["episodes"] = artifacts["episodes"]
    BY <1>2, <1>5, FileNames DEF ShipIInv
  <2> QED  BY <1>2, <1>3, <1>5, <2>1 DEF ShipIInv, Sound, DeclaredIn
<1>6. CASE Missing # {}
  BY <1>2, <1>3, <1>4, <1>6 DEF ShipIInv, Sound, DeclaredIn
<1> QED  BY <1>5, <1>6

-----------------------------------------------------------------------------
(* The steps of the other programs, and of a packing that checks coverage. *)
LEMMA OtherStep ==
  ASSUME ShipIInv,
         \/ Source \/ (\E f \in File : Install(f)) \/ GridStage
         \/ (\E force \in BOOLEAN : Freeze(force)) \/ Fit \/ Strata \/ Analyze
         \/ (\E always \in BOOLEAN : Coherence(always)) \/ Check
         \/ Matrix \/ Simulate \/ Verify \/ Numbers \/ Cover
  PROVE  ShipIInv'
<1>1. SUFFICES /\ todo # <<>> /\ Head(todo) \notin {"ship", "declare"}
               /\ todo' = Tail(todo) \/ todo' = <<>>
               /\ UNCHANGED packed
  BY QuietStep DEF packed, ShipIInv
<1>2. CASE Source \/ Check \/ Cover
  BY <1>2 DEF Source, Check, Cover, Doing, GoIf, Go, Die
<1>3. ASSUME NEW f \in File, Install(f)
      PROVE  /\ todo # <<>> /\ Head(todo) \notin {"ship", "declare"}
             /\ todo' = Tail(todo) /\ UNCHANGED packed
  BY <1>3, FileNames DEF Install, Doing, Go
<1>4. CASE GridStage
  BY <1>4 DEF GridStage, Doing, GoIf, Go, Die
<1>5. ASSUME NEW force \in BOOLEAN, Freeze(force)
      PROVE  /\ todo # <<>> /\ Head(todo) \notin {"ship", "declare"}
             /\ todo' = Tail(todo) \/ todo' = <<>>
             /\ UNCHANGED packed
  BY <1>5 DEF Freeze, Doing, GoIf, Go, Die
<1>6. CASE Fit \/ Strata \/ Analyze
  BY <1>6 DEF Fit, Strata, Analyze, Doing, GoIf, Go, Die
<1>7. ASSUME NEW always \in BOOLEAN, Coherence(always)
      PROVE  /\ todo # <<>> /\ Head(todo) \notin {"ship", "declare"}
             /\ todo' = Tail(todo) \/ todo' = <<>>
             /\ UNCHANGED packed
  BY <1>7 DEF Coherence, Doing, GoIf, Go, Die
<1>8. CASE Matrix
  BY <1>8 DEF Matrix, Doing, GoIf, Go, Die
<1>9. CASE Simulate \/ Verify
  BY <1>9 DEF Simulate, Verify, Doing, GoIf, Go, Die
<1>10. CASE Numbers
  BY <1>10 DEF Numbers, Doing, GoIf, Go, Die
<1> QED  BY <1>2, <1>3, <1>4, <1>5, <1>6, <1>7, <1>8, <1>9, <1>10

(* A command starts with a plan.                                           *)
LEMMA CommandStarts ==
  ASSUME ShipIInv, todo' \in Seq(Programs) \cup {Ship}, UNCHANGED <<dir, packed>>
  PROVE  ShipIInv'
<1>1. "manifest" \notin Programs
  BY DEF Programs, Range, Installed
<1>2. ASSUME todo' \in Seq(Programs)
      PROVE  todo' # <<"manifest">> /\ todo' # <<"declare", "manifest">>
  <2>1. \A i \in 1..Len(todo') : todo'[i] # "manifest"
    BY <1>1, <1>2
  <2> QED  BY <1>2, <2>1
<1>3. Ship # <<"manifest">> /\ Ship # <<"declare", "manifest">> /\ Ship \in Packing
  BY DEF Ship, Packing
<1> QED  BY <1>2, <1>3 DEF ShipIInv, packed, Sound, DeclaredIn

LEMMA ShipNext ==
  ASSUME ShipIInv, [ReproduceNext]_reproduceVars
  PROVE  ShipIInv'
<1>1. ASSUME NEW o \in Options, Reproduce(o)
      PROVE  ShipIInv'
  <2>1. o.stage \in Range(Stages) \cup {"all"}
    BY ReproduceAssumption DEF ReproduceAssumption
  <2>2. todo' \in Seq(Programs) /\ UNCHANGED <<dir, packed>>
    BY <1>1, <2>1, PlansArePrograms DEF Reproduce, Start
  <2> QED  BY <2>2, CommandStarts
<1>2. CASE Analyse
  <2>1. todo' \in Seq(Programs) /\ UNCHANGED <<dir, packed>>
    BY <1>2, PlansArePrograms DEF Analyse, Start
  <2> QED  BY <2>1, CommandStarts
<1>3. ASSUME NEW force \in BOOLEAN, BuildArtifacts(force)
      PROVE  ShipIInv'
  <2>1. todo' = Ship /\ UNCHANGED <<dir, packed>>
    BY <1>3 DEF BuildArtifacts, Start
  <2> QED  BY <2>1, CommandStarts
<1>4. CASE Step
  BY <1>4, OtherStep, ShipStep, DeclareStep, ManifestStep DEF Step
<1>5. CASE Kill
  <2>1. todo # <<>> /\ todo' = <<>> /\ manifest' = manifest
    BY <1>5 DEF Kill
  <2>2. artifacts' = [f \in File |-> artifacts'[f]]
    BY <1>5 DEF Kill, ShipIInv
  <2> QED  BY <2>1, <2>2, QuietStep
<1>6. CASE Checkout
  <2>1. todo = <<>> /\ todo' = todo /\ UNCHANGED packed
    BY <1>6 DEF Checkout
  <2> QED  BY <2>1 DEF ShipIInv, packed, Sound, DeclaredIn
<1>7. CASE UNCHANGED reproduceVars
  BY <1>7 DEF reproduceVars, packed, ShipIInv, Sound, DeclaredIn, Missing, Log
<1> QED  BY <1>1, <1>2, <1>3, <1>4, <1>5, <1>6, <1>7 DEF ReproduceNext

(* What a manifest vouches for ships no gap silently, whatever was killed, *)
(* forced over older artifacts, installed or analysed in between.          *)
THEOREM ShippedGapsAreDeclared == ReproduceSpec => []GapsAreDeclared
<1>1. ReproduceInit => ShipIInv
  BY ShipInit
<1>2. ShipIInv /\ [ReproduceNext]_reproduceVars => ShipIInv'
  BY ShipNext
<1>3. ShipIInv => GapsAreDeclared
  BY FileNames DEF ShipIInv, Sound, DeclaredIn, GapsAreDeclared, Verified
<1> QED  BY <1>1, <1>2, <1>3, PTL DEF ReproduceSpec
-----------------------------------------------------------------------------
(* What a reproduction has derived by the time it reaches a program: the   *)
(* whole plan, and what every one of its programs leaves behind.           *)
Plan == Wanted("all")

Place == 20 - Len(todo)
OnPlan ==
  /\ todo \in Seq(Programs) /\ Len(todo) \in 1..19
  /\ \A j \in 1..Len(todo) : todo[j] = Plan[19 - Len(todo) + j]

Reached(n) ==
  /\ n > 7 => Missing \subseteq Declared
  /\ n > 9 => theory # None /\ theory.pi = Log
  /\ n > 10 => strata = Log
  /\ n > 11 => results = Frozen
  /\ n > 12 => analysis = [results |-> results, strata |-> strata]
  /\ n > 13 => theory = [pi |-> Log, results |-> results]
  /\ n > 17 => policies = [log |-> Log, used |-> policies.used]
  /\ n > 18 => policies.used = Main

(* A fit is never taken for a missing one: that needs what its files hold. *)
Logs == [cells : SUBSET Cell, here : BOOLEAN]
Bands == Logs \cup {None, Screen}
FrozenFiles == [log : Logs, strata : Bands]

Kinds ==
  /\ dir = [f \in File |-> dir[f]] /\ dir["episodes"] \in Logs \cup {None}
  /\ artifacts = [f \in File |-> artifacts[f]] /\ artifacts["episodes"] \in Logs \cup {None}
  /\ strata \in Bands
  /\ results \in FrozenFiles \cup {None}
  /\ theory \in [pi : Logs, results : FrozenFiles] \cup {None}

ReleaseIInv ==
  /\ Kinds
  /\ ReleaseIsCurrent
  /\ todo # <<>> => ~rebuilt
  /\ todo # <<>> /\ opts.stage = "all" => OnPlan /\ Reached(Place)

-----------------------------------------------------------------------------
(* The plan is what reproduce.sh runs, and each program has its places.    *)
LEMMA Joined ==
  ASSUME NEW s \in Seq(Programs), NEW t \in Seq(Programs), NEW u, u = s \o t
  PROVE  /\ u \in Seq(Programs) /\ Len(u) = Len(s) + Len(t)
         /\ \A i \in 1..Len(s) : u[i] = s[i]
         /\ \A i \in 1..Len(t) : u[Len(s) + i] = t[i]
<1>1. /\ u \in Seq(Programs) /\ Len(u) = Len(s) + Len(t)
      /\ \A i \in 1..Len(s) + Len(t) : u[i] = IF i <= Len(s) THEN s[i] ELSE t[i - Len(s)]
  BY ConcatProperties
<1>2. Len(s) \in Nat /\ Len(t) \in Nat
  OBVIOUS
<1>3. ASSUME NEW i \in 1..Len(s) PROVE u[i] = s[i]
  BY <1>1, <1>2
<1>4. ASSUME NEW i \in 1..Len(t) PROVE u[Len(s) + i] = t[i]
  <2>1. Len(s) + i \in 1..Len(s) + Len(t) /\ ~(Len(s) + i <= Len(s)) /\ (Len(s) + i) - Len(s) = i
    BY <1>2
  <2> QED  BY <1>1, <2>1
<1> QED  BY <1>1, <1>3, <1>4

LEMMA PlanIs ==
  /\ Plan \in Seq(Programs) /\ Len(Plan) = 19
  /\ Plan[1] = "source" /\ Plan[2] = "coherence" /\ Plan[3] = "episodes" /\ Plan[4] = "coverage"
  /\ Plan[5] = "verdicts" /\ Plan[6] = "cases" /\ Plan[7] = "grid" /\ Plan[8] = "freeze!"
  /\ Plan[9] = "fit" /\ Plan[10] = "strata!" /\ Plan[11] = "freeze!" /\ Plan[12] = "analyze"
  /\ Plan[13] = "fit" /\ Plan[14] = "coherence?" /\ Plan[15] = "check" /\ Plan[16] = "matrix"
  /\ Plan[17] = "simulate" /\ Plan[18] = "verify" /\ Plan[19] = "numbers"
<1> DEFINE First == <<"source">>
           Last == <<"coherence?", "check">>
           Pol == <<"matrix", "simulate", "verify">>
           Grids == <<"grid">>
           Nums == <<"numbers">>
           A == First \o Installed
           B == A \o Grids
           C == Chain \o Last
           D == B \o C
           E == D \o Pol
           F == E \o Nums
<1>1. Plan = F
  BY DEF Plan, Wanted, Stage
<1>2. /\ First \in Seq(Programs) /\ Last \in Seq(Programs) /\ Pol \in Seq(Programs)
      /\ Grids \in Seq(Programs) /\ Nums \in Seq(Programs)
  BY DEF Programs
<1>3. Installed \in Seq(Programs) /\ Chain \in Seq(Programs)
  BY DEF Installed, Chain, Programs, Range
<1>4. /\ Len(First) = 1 /\ First[1] = "source" /\ Len(Grids) = 1 /\ Grids[1] = "grid"
      /\ Len(Nums) = 1 /\ Nums[1] = "numbers"
      /\ Len(Last) = 2 /\ Last[1] = "coherence?" /\ Last[2] = "check"
      /\ Len(Pol) = 3 /\ Pol[1] = "matrix" /\ Pol[2] = "simulate" /\ Pol[3] = "verify"
  OBVIOUS
<1>5. /\ Len(Installed) = 5 /\ Installed[1] = "coherence" /\ Installed[2] = "episodes"
      /\ Installed[3] = "coverage" /\ Installed[4] = "verdicts" /\ Installed[5] = "cases"
  BY DEF Installed
<1>6. /\ Len(Chain) = 6 /\ Chain[1] = "freeze!" /\ Chain[2] = "fit" /\ Chain[3] = "strata!"
      /\ Chain[4] = "freeze!" /\ Chain[5] = "analyze" /\ Chain[6] = "fit"
  BY DEF Chain
<1> HIDE DEF First, Last, Pol, Grids, Nums
<1>7. /\ A \in Seq(Programs) /\ Len(A) = Len(First) + Len(Installed)
      /\ \A i \in 1..Len(First) : A[i] = First[i]
      /\ \A i \in 1..Len(Installed) : A[Len(First) + i] = Installed[i]
  BY <1>2, <1>3, Joined
<1>8. /\ C \in Seq(Programs) /\ Len(C) = Len(Chain) + Len(Last)
      /\ \A i \in 1..Len(Chain) : C[i] = Chain[i]
      /\ \A i \in 1..Len(Last) : C[Len(Chain) + i] = Last[i]
  BY <1>2, <1>3, Joined
<1> HIDE DEF A, C
<1>A1. A \in Seq(Programs) /\ C \in Seq(Programs)
  BY <1>7, <1>8
<1>9. /\ B \in Seq(Programs) /\ Len(B) = Len(A) + Len(Grids)
      /\ \A i \in 1..Len(A) : B[i] = A[i]
      /\ \A i \in 1..Len(Grids) : B[Len(A) + i] = Grids[i]
  BY <1>2, <1>A1, Joined
<1> HIDE DEF B
<1>B1. B \in Seq(Programs)
  BY <1>9
<1>10. /\ D \in Seq(Programs) /\ Len(D) = Len(B) + Len(C)
       /\ \A i \in 1..Len(B) : D[i] = B[i]
       /\ \A i \in 1..Len(C) : D[Len(B) + i] = C[i]
  BY <1>A1, <1>B1, Joined
<1> HIDE DEF D
<1>D1. D \in Seq(Programs)
  BY <1>10
<1>11. /\ E \in Seq(Programs) /\ Len(E) = Len(D) + Len(Pol)
       /\ \A i \in 1..Len(D) : E[i] = D[i]
       /\ \A i \in 1..Len(Pol) : E[Len(D) + i] = Pol[i]
  BY <1>2, <1>D1, Joined
<1> HIDE DEF E
<1>E1. E \in Seq(Programs)
  BY <1>11
<1>12. /\ F \in Seq(Programs) /\ Len(F) = Len(E) + Len(Nums)
       /\ \A i \in 1..Len(E) : F[i] = E[i]
       /\ \A i \in 1..Len(Nums) : F[Len(E) + i] = Nums[i]
  BY <1>2, <1>E1, Joined
<1> HIDE DEF F
<1>13. /\ Len(A) = 6 /\ A[1] = "source" /\ A[2] = "coherence" /\ A[3] = "episodes"
       /\ A[4] = "coverage" /\ A[5] = "verdicts" /\ A[6] = "cases"
  BY <1>4, <1>5, <1>7
<1>14. /\ Len(C) = 8 /\ C[1] = "freeze!" /\ C[2] = "fit" /\ C[3] = "strata!" /\ C[4] = "freeze!"
       /\ C[5] = "analyze" /\ C[6] = "fit" /\ C[7] = "coherence?" /\ C[8] = "check"
  BY <1>4, <1>6, <1>8
<1>15. Len(B) = 7 /\ B[7] = "grid" /\ \A i \in 1..6 : B[i] = A[i]
  BY <1>4, <1>9, <1>13
<1>16. /\ Len(D) = 15 /\ \A i \in 1..7 : D[i] = B[i]
       /\ D[8] = C[1] /\ D[9] = C[2] /\ D[10] = C[3] /\ D[11] = C[4]
       /\ D[12] = C[5] /\ D[13] = C[6] /\ D[14] = C[7] /\ D[15] = C[8]
  BY <1>10, <1>14, <1>15
<1>17. /\ Len(E) = 18 /\ \A i \in 1..15 : E[i] = D[i]
       /\ E[16] = "matrix" /\ E[17] = "simulate" /\ E[18] = "verify"
  BY <1>4, <1>11, <1>16
<1>18. Len(F) = 19 /\ F[19] = "numbers" /\ \A i \in 1..18 : F[i] = E[i]
  BY <1>4, <1>12, <1>17
<1>19. \A i \in 1..15 : F[i] = D[i]
  BY <1>17, <1>18
<1>20. \A i \in 1..7 : F[i] = B[i]
  BY <1>16, <1>19
<1>21. \A i \in 1..6 : F[i] = A[i]
  BY <1>15, <1>20
<1>22. /\ F[1] = "source" /\ F[2] = "coherence" /\ F[3] = "episodes" /\ F[4] = "coverage"
       /\ F[5] = "verdicts" /\ F[6] = "cases"
  BY <1>13, <1>21
<1>23. F[7] = "grid"
  BY <1>15, <1>20
<1>24. /\ F[8] = "freeze!" /\ F[9] = "fit" /\ F[10] = "strata!" /\ F[11] = "freeze!"
       /\ F[12] = "analyze" /\ F[13] = "fit" /\ F[14] = "coherence?" /\ F[15] = "check"
  BY <1>14, <1>16, <1>19
<1>25. F[16] = "matrix" /\ F[17] = "simulate" /\ F[18] = "verify"
  BY <1>17, <1>18
<1>26. F \in Seq(Programs) /\ Len(F) = 19 /\ F[19] = "numbers"
  BY <1>12, <1>18
<1> QED  BY <1>1, <1>22, <1>23, <1>24, <1>25, <1>26

LEMMA Places ==
  ASSUME NEW n \in 1..19
  PROVE  /\ Plan[n] \in File => n \in 2..6
         /\ Plan[n] = "source" => n = 1
         /\ Plan[n] = "grid" => n = 7
         /\ Plan[n] = "freeze!" => n \in {8, 11}
         /\ Plan[n] = "fit" => n \in {9, 13}
         /\ Plan[n] = "strata!" => n = 10
         /\ Plan[n] = "analyze" => n = 12
         /\ Plan[n] = "coherence?" => n = 14
         /\ Plan[n] = "check" => n = 15
         /\ Plan[n] = "matrix" => n = 16
         /\ Plan[n] = "simulate" => n = 17
         /\ Plan[n] = "verify" => n = 18
         /\ Plan[n] = "numbers" => n = 19
         /\ Plan[n] \notin {"freeze", "coherence!", "cover", "ship", "declare", "manifest"}
<1>1. File = {"coherence", "episodes", "coverage", "verdicts", "cases"}
  BY DEF File, Range, Installed
<1>2. \/ n = 1 \/ n = 2 \/ n = 3 \/ n = 4 \/ n = 5 \/ n = 6 \/ n = 7 \/ n = 8 \/ n = 9 \/ n = 10
      \/ n = 11 \/ n = 12 \/ n = 13 \/ n = 14 \/ n = 15 \/ n = 16 \/ n = 17 \/ n = 18 \/ n = 19
  OBVIOUS
<1> QED  BY <1>1, <1>2, PlanIs

(* A reproduction at a program, and what has to hold behind it.            *)
LEMMA AtPlace ==
  ASSUME todo # <<>>, OnPlan
  PROVE  Place \in 1..19 /\ Head(todo) = Plan[Place]
<1>1. PICK l \in 1..19 : l = Len(todo)
  BY DEF OnPlan
<1>2. todo[1] = Plan[19 - l + 1]
  BY <1>1 DEF OnPlan
<1>3. Place = 20 - l /\ 20 - l = 19 - l + 1 /\ 20 - l \in 1..19
  <2>1. \A k \in 1..19 : 20 - k = 19 - k + 1 /\ 20 - k \in 1..19
    OBVIOUS
  <2> QED  BY <1>1, <2>1 DEF Place
<1>4. Head(todo) = todo[1]
  OBVIOUS
<1> QED  BY <1>2, <1>3, <1>4

LEMMA PlanStep ==
  ASSUME ReleaseIInv, todo # <<>>, Go, Kinds',
         opts.stage = "all" => \A n \in 1..19 : n = Place => Reached(n + 1)'
  PROVE  ReleaseIInv'
<1>1. /\ todo' = Tail(todo)
      /\ Tail(todo) # <<>> => opts' = opts /\ rebuilt' = rebuilt
      /\ Tail(todo) = <<>> => rebuilt' = (opts.stage = "all")
  BY DEF Go
<1>2. CASE opts.stage # "all"
  <2>1. ~rebuilt'
    BY <1>1, <1>2 DEF ReleaseIInv
  <2>2. todo' # <<>> => opts'.stage # "all"
    BY <1>1, <1>2
  <2> QED  BY <2>1, <2>2 DEF ReleaseIInv, ReleaseIsCurrent
<1>3. CASE opts.stage = "all"
  <2> PICK n \in 1..19 : n = Place
    BY <1>3, AtPlace DEF ReleaseIInv
  <2>1. OnPlan /\ Reached(n + 1)'
    BY <1>3 DEF ReleaseIInv
  <2>2. PICK l \in 1..19 : l = Len(todo) /\ n = 20 - l
    BY <2>1 DEF OnPlan, Place
  <2>3. Len(Tail(todo)) = l - 1 /\ Tail(todo) \in Seq(Programs)
    BY <2>1, <2>2 DEF OnPlan
  <2>4. CASE Tail(todo) # <<>>
    <3>1. todo' # <<>> /\ ~rebuilt'
      BY <1>1, <2>4 DEF ReleaseIInv
    <3>2. l - 1 \in 1..19
      BY <2>3, <2>4
    <3>3. ASSUME NEW j \in 1..(l - 1)
          PROVE  todo'[j] = Plan[19 - (l - 1) + j]
      <4>1. todo'[j] = todo[j + 1]
        BY <1>1, <2>1, <2>2, <2>3 DEF OnPlan
      <4>2. j + 1 \in 1..l /\ 19 - l + (j + 1) = 19 - (l - 1) + j
        OBVIOUS
      <4>3. todo[j + 1] = Plan[19 - l + (j + 1)]
        BY <2>1, <2>2, <4>2 DEF OnPlan
      <4> QED  BY <4>1, <4>2, <4>3
    <3>4. OnPlan'
      BY <1>1, <2>3, <3>2, <3>3 DEF OnPlan
    <3>5. Place' = n + 1
      BY <1>1, <2>2, <2>3 DEF Place
    <3>6. Reached(Place)'
      BY <2>1, <3>5 DEF Reached
    <3> QED  BY <3>1, <3>4, <3>6 DEF ReleaseIInv, ReleaseIsCurrent
  <2>5. CASE Tail(todo) = <<>>
    <3>1. n = 19
      <4>1. PICK rest \in Seq(Programs) : rest = Tail(todo)
        BY <2>3
      <4>2. Len(rest) = l - 1
        BY <2>3, <4>1
      <4>3. rest = <<>>
        BY <2>5, <4>1
      <4>4. Len(rest) = 0
        BY <4>3
      <4>5. l = 1
        BY <4>2, <4>4
      <4> QED  BY <2>2, <4>5
    <3>2. ReleaseIsCurrent'
      BY <2>1, <3>1 DEF Reached, ReleaseIsCurrent
    <3> QED  BY <1>1, <2>5, <3>2 DEF ReleaseIInv
  <2> QED  BY <2>4, <2>5
<1> QED  BY <1>2, <1>3

(* A command that fails, or is killed, claims nothing.                     *)
LEMMA StopStep ==
  ASSUME ReleaseIInv, todo # <<>>, todo' = <<>>, rebuilt' = rebuilt, Kinds'
  PROVE  ReleaseIInv'
BY DEF ReleaseIInv, ReleaseIsCurrent

(* A program that only looks, and goes on or fails.                        *)
LEMMA LookStep ==
  ASSUME ReleaseIInv, todo # <<>>, UNCHANGED <<dir, packed, derived, committed>>,
         \/ Die
         \/ /\ Go
            /\ opts.stage = "all" => \A n \in 1..19 : n = Place /\ Reached(n) => Reached(n + 1)
  PROVE  ReleaseIInv'
<1>1. Kinds'
  BY DEF packed, derived, Kinds, ReleaseIInv
<1>2. CASE Go /\ (opts.stage = "all" => \A n \in 1..19 : n = Place /\ Reached(n) => Reached(n + 1))
  <2>1. \A n \in 1..19 : Reached(n + 1) => Reached(n + 1)'
    BY DEF packed, derived, Reached, Missing, Declared, Log, Frozen
  <2>2. opts.stage = "all" => Reached(Place)
    BY DEF ReleaseIInv
  <2> QED  BY <1>1, <1>2, <2>1, <2>2, PlanStep
<1>3. CASE Die
  BY <1>1, <1>3, StopStep DEF Die
<1> QED  BY <1>2, <1>3
(* The program a reproduction is at, and what it finds.                    *)
LEMMA AtProgram ==
  ASSUME ReleaseIInv, todo # <<>>, opts.stage = "all", NEW n \in 1..19, n = Place
  PROVE  Head(todo) = Plan[n] /\ Reached(n)
BY AtPlace DEF ReleaseIInv

LEMMA LogIsALog ==
  ASSUME Kinds
  PROVE  Log \in Logs
<1>1. NoLog \in Logs
  BY DEF NoLog, Logs
<1> QED  BY <1>1 DEF Kinds, Log

(* The files that are installed, and the cells that are run.               *)
LEMMA InstallStep ==
  ASSUME ReleaseIInv, NEW f \in File, Install(f)
  PROVE  ReleaseIInv'
<1>1. todo # <<>> /\ Head(todo) = f /\ Go /\ UNCHANGED <<packed, derived, committed>>
  BY DEF Install, Doing
<1>2. dir' = [dir EXCEPT ![f] = artifacts[f]] \/ dir' = dir
  BY DEF Install
<1>3. Kinds'
  BY <1>1, <1>2, FileNames DEF Kinds, ReleaseIInv, packed, derived
<1>4. ASSUME opts.stage = "all", NEW n \in 1..19, n = Place
      PROVE  Reached(n + 1)'
  <2>1. n \in 2..6
    BY <1>1, <1>4, AtProgram, Places
  <2> QED  BY <2>1 DEF Reached
<1> QED  BY <1>1, <1>3, <1>4, PlanStep

LEMMA GridStep ==
  ASSUME ReleaseIInv, GridStage
  PROVE  ReleaseIInv'
<1>1. todo # <<>> /\ Head(todo) = "grid"
  BY DEF GridStage, Doing
<1>2. CASE UNCHANGED <<dir, packed, derived, committed>> /\ Die
  BY <1>1, <1>2, LookStep
<1>3. CASE UNCHANGED <<dir, packed, derived, committed>> /\ Go /\ Gaps = {}
  <2>1. ASSUME opts.stage = "all", NEW n \in 1..19, n = Place, Reached(n)
        PROVE  Reached(n + 1)
    <3>1. n = 7
      BY <1>1, <2>1, AtProgram, Places
    <3>2. Missing \subseteq Declared
      BY <1>3 DEF Gaps
    <3> QED  BY <3>1, <3>2 DEF Reached
  <2> QED  BY <1>1, <1>3, <2>1, LookStep
<1>4. ASSUME Go, UNCHANGED <<packed, derived, committed>>, NEW more \in SUBSET (Missing \ Gaps),
             dir' = [dir EXCEPT !["episodes"] = [cells |-> Log.cells \cup Gaps \cup more, here |-> TRUE]]
      PROVE  ReleaseIInv'
  <2>1. Log.cells \cup Gaps \cup more \in SUBSET Cell
    BY LogIsALog DEF ReleaseIInv, Logs, Gaps, Missing
  <2>2. [cells |-> Log.cells \cup Gaps \cup more, here |-> TRUE] \in Logs
    BY <2>1 DEF Logs
  <2>3. /\ dir' = [f \in File |-> dir'[f]] /\ dir'["coverage"] = dir["coverage"]
        /\ dir'["episodes"] = [cells |-> Log.cells \cup Gaps \cup more, here |-> TRUE]
    BY <1>4, FileNames DEF ReleaseIInv, Kinds
  <2>4. Kinds'
    BY <1>4, <2>2, <2>3 DEF Kinds, ReleaseIInv, packed, derived
  <2>5. ASSUME opts.stage = "all", NEW n \in 1..19, n = Place
        PROVE  Reached(n + 1)'
    <3>1. n = 7
      BY <1>1, <2>5, AtProgram, Places
    <3>2. dir'["episodes"] # None
      BY <2>2, <2>3, ReproduceAssumption DEF ReproduceAssumption, Logs
    <3>3. Log'.cells = Log.cells \cup Gaps \cup more
      BY <2>3, <3>2 DEF Log
    <3>4. Missing' \subseteq Missing \ Gaps
      BY <3>3 DEF Missing
    <3>5. Missing \ Gaps \subseteq Declared /\ Declared' = Declared
      BY <2>3 DEF Gaps, Declared
    <3> QED  BY <3>1, <3>4, <3>5 DEF Reached
  <2> QED  BY <1>1, <1>4, <2>4, <2>5, PlanStep
<1> QED  BY <1>2, <1>3, <1>4 DEF GridStage, GoIf

-----------------------------------------------------------------------------
(* The analysis chain: results, fit, banding, results again and so on.     *)
LEMMA FreezeStep ==
  ASSUME ReleaseIInv, NEW force \in BOOLEAN, Freeze(force)
  PROVE  ReleaseIInv'
<1>1. todo # <<>> /\ Head(todo) \in {"freeze!", "freeze"}
  BY DEF Freeze, Doing
<1>2. CASE GoIf(FALSE)
  BY <1>1, <1>2, LookStep DEF GoIf
<1>3. CASE Go /\ results' = Frozen /\ UNCHANGED <<dir, packed, theory, strata, analysis, policies, committed>>
  <2>1. Frozen \in FrozenFiles /\ Log' = Log /\ Frozen' = Frozen
    BY <1>3, LogIsALog DEF Frozen, FrozenFiles, ReleaseIInv, Kinds, Log
  <2>2. Kinds'
    BY <1>3, <2>1 DEF Kinds, ReleaseIInv, packed
  <2>3. ASSUME opts.stage = "all", NEW n \in 1..19, n = Place
        PROVE  Reached(n + 1)'
    <3>1. n \in {8, 11} /\ Reached(n)
      BY <1>1, <2>3, AtProgram, Places
    <3>2. Missing' = Missing /\ Declared' = Declared
      BY <1>3, <2>1 DEF Missing, Declared
    <3> QED  BY <1>3, <2>1, <3>1, <3>2 DEF Reached
  <2> QED  BY <1>1, <1>3, <2>2, <2>3, PlanStep
<1> QED  BY <1>2, <1>3 DEF Freeze

LEMMA FitStep ==
  ASSUME ReleaseIInv, Fit
  PROVE  ReleaseIInv'
<1>1. todo # <<>> /\ Head(todo) = "fit"
  BY DEF Fit, Doing
<1>2. CASE GoIf(FALSE)
  BY <1>1, <1>2, LookStep DEF GoIf
<1>3. CASE /\ results # None /\ Go /\ theory' = [pi |-> Log, results |-> results]
           /\ UNCHANGED <<dir, packed, results, strata, analysis, policies, committed>>
  <2>1. Log \in Logs /\ results \in FrozenFiles
    BY <1>3, LogIsALog DEF ReleaseIInv, Kinds
  <2>2. theory' \in [pi : Logs, results : FrozenFiles]
    BY <1>3, <2>1
  <2>3. Kinds'
    BY <1>3, <2>2 DEF Kinds, ReleaseIInv, packed
  <2>4. theory' # None
    <3>1. PICK now \in Logs, band \in Bands : results = [log |-> now, strata |-> band]
      BY <2>1 DEF FrozenFiles
    <3> QED  BY <1>3, <2>1, <3>1, ReproduceAssumption DEF ReproduceAssumption, Logs, Bands
  <2>5. /\ Log' = Log /\ Frozen' = Frozen /\ Missing' = Missing /\ Declared' = Declared
        /\ theory'.pi = Log
    BY <1>3 DEF Log, Frozen, Missing, Declared
  <2>6. ASSUME opts.stage = "all", NEW n \in 1..19, n = Place
        PROVE  Reached(n + 1)'
    <3>1. n \in {9, 13} /\ Reached(n)
      BY <1>1, <2>6, AtProgram, Places
    <3> QED  BY <1>3, <2>4, <2>5, <3>1 DEF Reached
  <2> QED  BY <1>1, <1>3, <2>3, <2>6, PlanStep
<1> QED  BY <1>2, <1>3 DEF Fit

LEMMA StrataStep ==
  ASSUME ReleaseIInv, Strata
  PROVE  ReleaseIInv'
<1>1. /\ todo # <<>> /\ Head(todo) = "strata!" /\ Go
      /\ strata' = IF theory = None THEN Screen ELSE theory.pi
      /\ UNCHANGED <<dir, packed, results, theory, analysis, policies, committed>>
  BY DEF Strata, Doing
<1>2. Kinds'
  BY <1>1 DEF Kinds, ReleaseIInv, packed, Bands
<1>3. Log' = Log /\ Missing' = Missing /\ Declared' = Declared
  BY <1>1 DEF Log, Missing, Declared
<1>4. ASSUME opts.stage = "all", NEW n \in 1..19, n = Place
      PROVE  Reached(n + 1)'
  <2>1. n = 10 /\ Reached(n)
    BY <1>1, <1>4, AtProgram, Places
  <2> QED  BY <1>1, <1>3, <2>1 DEF Reached
<1> QED  BY <1>1, <1>2, <1>4, PlanStep

LEMMA AnalyzeStep ==
  ASSUME ReleaseIInv, Analyze
  PROVE  ReleaseIInv'
<1>1. todo # <<>> /\ Head(todo) = "analyze"
  BY DEF Analyze, Doing
<1>2. CASE GoIf(FALSE)
  BY <1>1, <1>2, LookStep DEF GoIf
<1>3. CASE /\ Go /\ analysis' = [results |-> results, strata |-> strata]
           /\ UNCHANGED <<dir, packed, results, theory, strata, policies, committed>>
  <2>1. Kinds'
    BY <1>3 DEF Kinds, ReleaseIInv, packed
  <2>2. Log' = Log /\ Missing' = Missing /\ Declared' = Declared /\ Frozen' = Frozen
    BY <1>3 DEF Log, Missing, Declared, Frozen
  <2>3. ASSUME opts.stage = "all", NEW n \in 1..19, n = Place
        PROVE  Reached(n + 1)'
    <3>1. n = 12 /\ Reached(n)
      BY <1>1, <2>3, AtProgram, Places
    <3> QED  BY <1>3, <2>2, <3>1 DEF Reached
  <2> QED  BY <1>1, <1>3, <2>1, <2>3, PlanStep
<1> QED  BY <1>2, <1>3 DEF Analyze
(* Coherence, the check, the policies and the numbers.                     *)
LEMMA CoherenceStep ==
  ASSUME ReleaseIInv, NEW always \in BOOLEAN, Coherence(always)
  PROVE  ReleaseIInv'
<1>1. todo # <<>> /\ Head(todo) = IF always THEN "coherence!" ELSE "coherence?"
  BY DEF Coherence, Doing
<1>2. ASSUME opts.stage = "all", NEW n \in 1..19, n = Place
      PROVE  n = 14 /\ Reached(n)
  BY <1>1, <1>2, AtProgram, Places
<1>3. CASE GoIf(TRUE) \/ GoIf(FALSE)
  <2>1. ASSUME opts.stage = "all", NEW n \in 1..19, n = Place, Reached(n)
        PROVE  Reached(n + 1)
    BY <1>2, <2>1 DEF Reached
  <2> QED  BY <1>1, <1>3, <2>1, LookStep DEF GoIf
<1>4. CASE Go /\ dir' = [dir EXCEPT !["coherence"] = Log] /\ UNCHANGED <<packed, derived, committed>>
  <2>1. /\ dir' = [f \in File |-> dir'[f]] /\ dir'["coverage"] = dir["coverage"]
        /\ dir'["episodes"] = dir["episodes"]
    BY <1>4, FileNames DEF ReleaseIInv, Kinds
  <2>2. Kinds'
    BY <1>4, <2>1 DEF Kinds, ReleaseIInv, packed, derived
  <2>3. Log' = Log /\ Missing' = Missing /\ Declared' = Declared /\ Frozen' = Frozen
    BY <1>4, <2>1 DEF Log, Missing, Declared, Frozen, derived
  <2>4. ASSUME opts.stage = "all", NEW n \in 1..19, n = Place
        PROVE  Reached(n + 1)'
    BY <1>2, <1>4, <2>3, <2>4 DEF Reached, derived
  <2> QED  BY <1>1, <1>4, <2>2, <2>4, PlanStep
<1> QED  BY <1>3, <1>4 DEF Coherence

LEMMA CheckStep ==
  ASSUME ReleaseIInv, Source \/ Check \/ Cover
  PROVE  ReleaseIInv'
<1>1. /\ todo # <<>> /\ Head(todo) \in {"source", "check", "cover"}
      /\ UNCHANGED <<dir, packed, derived, committed>> /\ (Go \/ Die)
  BY DEF Source, Check, Cover, Doing, GoIf
<1>2. ASSUME opts.stage = "all", NEW n \in 1..19, n = Place, Reached(n)
      PROVE  Reached(n + 1)
  <2>1. n \in {1, 15}
    BY <1>1, <1>2, AtProgram, Places
  <2> QED  BY <1>2, <2>1 DEF Reached
<1> QED  BY <1>1, <1>2, LookStep

LEMMA MatrixStep ==
  ASSUME ReleaseIInv, Matrix
  PROVE  ReleaseIInv'
<1>1. todo # <<>> /\ Head(todo) = "matrix"
  BY DEF Matrix, Doing
<1>2. ASSUME opts.stage = "all", NEW n \in 1..19, n = Place
      PROVE  n = 16 /\ Reached(n)
  BY <1>1, <1>2, AtProgram, Places
<1>3. CASE GoIf(TRUE) \/ GoIf(FALSE)
  <2>1. ASSUME opts.stage = "all", NEW n \in 1..19, n = Place, Reached(n)
        PROVE  Reached(n + 1)
    BY <1>2, <2>1 DEF Reached
  <2> QED  BY <1>1, <1>3, <2>1, LookStep DEF GoIf
<1>4. ASSUME Go, UNCHANGED <<packed, derived, committed>>, NEW rows, NEW cases,
             dir' = [dir EXCEPT !["verdicts"] = rows, !["cases"] = cases]
      PROVE  ReleaseIInv'
  <2>1. /\ dir' = [f \in File |-> dir'[f]] /\ dir'["coverage"] = dir["coverage"]
        /\ dir'["episodes"] = dir["episodes"]
    BY <1>4, FileNames DEF ReleaseIInv, Kinds
  <2>2. Kinds'
    BY <1>4, <2>1 DEF Kinds, ReleaseIInv, packed, derived
  <2>3. Log' = Log /\ Missing' = Missing /\ Declared' = Declared /\ Frozen' = Frozen
    BY <1>4, <2>1 DEF Log, Missing, Declared, Frozen, derived
  <2>4. ASSUME opts.stage = "all", NEW n \in 1..19, n = Place
        PROVE  Reached(n + 1)'
    BY <1>2, <1>4, <2>3, <2>4 DEF Reached, derived
  <2> QED  BY <1>1, <1>4, <2>2, <2>4, PlanStep
<1> QED  BY <1>3, <1>4 DEF Matrix

LEMMA SimulateStep ==
  ASSUME ReleaseIInv, Simulate
  PROVE  ReleaseIInv'
<1>1. todo # <<>> /\ Head(todo) = "simulate"
  BY DEF Simulate, Doing
<1>2. CASE GoIf(FALSE)
  BY <1>1, <1>2, LookStep DEF GoIf
<1>3. ASSUME Go, NEW used, policies' = [log |-> Log, used |-> used],
             UNCHANGED <<dir, packed, results, theory, strata, analysis, committed>>
      PROVE  ReleaseIInv'
  <2>1. Kinds'
    BY <1>3 DEF Kinds, ReleaseIInv, packed
  <2>2. Log' = Log /\ Missing' = Missing /\ Declared' = Declared /\ Frozen' = Frozen
    BY <1>3 DEF Log, Missing, Declared, Frozen
  <2>3. ASSUME opts.stage = "all", NEW n \in 1..19, n = Place
        PROVE  Reached(n + 1)'
    <3>1. n = 17 /\ Reached(n)
      BY <1>1, <2>3, AtProgram, Places
    <3> QED  BY <1>3, <2>2, <3>1 DEF Reached
  <2> QED  BY <1>1, <1>3, <2>1, <2>3, PlanStep
<1> QED  BY <1>2, <1>3 DEF Simulate

LEMMA VerifyStep ==
  ASSUME ReleaseIInv, Verify
  PROVE  ReleaseIInv'
<1>1. /\ todo # <<>> /\ Head(todo) = "verify"
      /\ UNCHANGED <<dir, packed, derived, committed>>
      /\ Die \/ (Go /\ policies.used = Main)
  BY DEF Verify, Doing, GoIf
<1>2. ASSUME policies.used = Main, opts.stage = "all", NEW n \in 1..19, n = Place, Reached(n)
      PROVE  Reached(n + 1)
  <2>1. n = 18
    BY <1>1, <1>2, AtProgram, Places
  <2> QED  BY <1>2, <2>1 DEF Reached
<1> QED  BY <1>1, <1>2, LookStep

LEMMA NumbersStep ==
  ASSUME ReleaseIInv, Numbers
  PROVE  ReleaseIInv'
<1>1. todo # <<>> /\ Head(todo) = "numbers" /\ UNCHANGED <<dir, packed, derived>> /\ (Go \/ Die)
  BY DEF Numbers, Doing, GoIf
<1>2. Kinds'
  BY <1>1 DEF Kinds, ReleaseIInv, packed, derived
<1>3. ASSUME opts.stage = "all", NEW n \in 1..19, n = Place
      PROVE  Reached(n + 1)'
  <2>1. n = 19 /\ Reached(n)
    BY <1>1, <1>3, AtProgram, Places
  <2> QED  BY <1>1, <2>1 DEF Reached, derived, Log, Missing, Declared, Frozen
<1> QED  BY <1>1, <1>2, <1>3, PlanStep, StopStep DEF Die

(* Packing is no part of a reproduction.                                   *)
LEMMA PackingStep ==
  ASSUME ReleaseIInv, ShipFiles \/ Declare \/ WriteManifest
  PROVE  ReleaseIInv'
<1>1. todo # <<>> /\ Head(todo) \in {"ship", "declare", "manifest"} /\ UNCHANGED <<dir, derived, committed>>
  BY DEF ShipFiles, Declare, WriteManifest, Doing, GoIf
<1>2. Go \/ Die
  BY DEF ShipFiles, Declare, WriteManifest, GoIf
<1>3. artifacts' = [f \in File |-> artifacts'[f]] /\ artifacts'["episodes"] \in Logs \cup {None}
  <2>1. CASE ShipFiles
    BY <2>1, FileNames DEF ShipFiles, GoIf, packed, ReleaseIInv, Kinds
  <2>2. CASE Declare \/ WriteManifest
    BY <2>2, FileNames DEF Declare, WriteManifest, ReleaseIInv, Kinds
  <2> QED  BY <2>1, <2>2
<1>4. Kinds'
  BY <1>1, <1>3 DEF Kinds, ReleaseIInv, derived
<1>5. opts.stage # "all"
  <2>1. ASSUME opts.stage = "all" PROVE FALSE
    <3>1. PICK n \in 1..19 : n = Place
      BY <1>1, <2>1, AtPlace DEF ReleaseIInv
    <3> QED  BY <1>1, <2>1, <3>1, AtProgram, Places
  <2> QED  BY <2>1
<1> QED  BY <1>1, <1>2, <1>4, <1>5, PlanStep, StopStep DEF Die

-----------------------------------------------------------------------------
LEMMA ReleaseInit == ReproduceInit => ReleaseIInv
<1> SUFFICES ASSUME ReproduceInit PROVE ReleaseIInv
  OBVIOUS
<1>1. PICK gap \in SUBSET (Cell \ Main) : artifacts = Published(gap)
  BY DEF ReproduceInit
<1>2. /\ Published(gap)["episodes"] = [cells |-> Cell \ gap, here |-> FALSE]
      /\ Published(gap) = [f \in File |-> Published(gap)[f]]
  BY DEF Published, File, Range, Installed
<1>3. Published(gap)["episodes"] \in Logs
  BY <1>2 DEF Logs
<1>4. dir = [f \in File |-> dir[f]] /\ dir["episodes"] = None
  BY FileNames DEF ReproduceInit, Nothing
<1> QED  BY <1>1, <1>2, <1>3, <1>4 DEF ReproduceInit, ReleaseIInv, Kinds, Bands, ReleaseIsCurrent

(* What a copy that was killed leaves of a log is a log.                   *)
LEMMA HalfALog ==
  ASSUME NEW f \in File, NEW v, f = "episodes" => v \in Logs, NEW half \in Halves(f, v)
  PROVE  f = "episodes" => half \in Logs
<1> SUFFICES ASSUME f = "episodes" PROVE half \in Logs
  OBVIOUS
<1>1. PICK S \in SUBSET v.cells : half = [v EXCEPT !.cells = S]
  BY DEF Halves
<1>2. PICK T \in SUBSET Cell, h \in BOOLEAN : v = [cells |-> T, here |-> h]
  BY DEF Logs
<1>3. half = [cells |-> S, here |-> h] /\ S \in SUBSET Cell
  BY <1>1, <1>2
<1> QED  BY <1>3 DEF Logs

LEMMA KillStep ==
  ASSUME ReleaseIInv, Kill
  PROVE  ReleaseIInv'
<1>1. todo # <<>> /\ todo' = <<>> /\ rebuilt' = rebuilt /\ UNCHANGED <<derived, manifest>>
  BY DEF Kill
<1>2. SUFFICES Kinds'
  BY <1>1, StopStep
<1>3. CASE UNCHANGED <<dir, artifacts>>
  BY <1>1, <1>3 DEF Kinds, ReleaseIInv, derived
<1>4. ASSUME NEW f \in File, artifacts[f] # None, NEW half \in Halves(f, artifacts[f]),
             dir' = [dir EXCEPT ![f] = half], UNCHANGED artifacts
      PROVE  Kinds'
  <2>1. f = "episodes" => half \in Logs
    BY <1>4, HalfALog DEF ReleaseIInv, Kinds
  <2> QED  BY <1>1, <1>4, <2>1, FileNames DEF Kinds, ReleaseIInv, derived
<1>5. ASSUME NEW n \in 1..Len(Shipped), dir[Shipped[n]] # None, NEW half \in Halves(Shipped[n], dir[Shipped[n]]),
             artifacts' = [f \in File |-> IF f = Shipped[n] THEN half
                                          ELSE IF \E i \in 1..n : f = Shipped[i] THEN dir[f] ELSE artifacts[f]],
             UNCHANGED dir
      PROVE  Kinds'
  <2>1. Shipped[n] \in File
    BY DEF Shipped, File, Range, Installed
  <2>2. Shipped[n] = "episodes" => half \in Logs
    BY <1>5, <2>1, HalfALog DEF ReleaseIInv, Kinds
  <2>3. artifacts'["episodes"] \in {half, dir["episodes"], artifacts["episodes"]}
        /\ (artifacts'["episodes"] = half => Shipped[n] = "episodes" \/ half \in {dir["episodes"], artifacts["episodes"]})
    BY <1>5, FileNames
  <2>4. artifacts' = [f \in File |-> artifacts'[f]]
    BY <1>5
  <2> QED  BY <1>1, <1>5, <2>2, <2>3, <2>4 DEF Kinds, ReleaseIInv, derived
<1>6. CASE \E f \in File : /\ artifacts[f] # None
                          /\ \E half \in Halves(f, artifacts[f]) : dir' = [dir EXCEPT ![f] = half]
                          /\ UNCHANGED artifacts
  BY <1>4, <1>6
<1>7. ASSUME NEW n \in 1..Len(Shipped), \A i \in 1..n : dir[Shipped[i]] \notin {None, Cut}
      PROVE  dir[Shipped[n]] # None
  <2>1. n \in 1..n
    BY DEF Shipped
  <2> QED  BY <1>7, <2>1
<1>8. CASE \E n \in 1..Len(Shipped) :
             /\ \A i \in 1..n : dir[Shipped[i]] \notin {None, Cut}
             /\ \E half \in Halves(Shipped[n], dir[Shipped[n]]) :
                  artifacts' = [f \in File |-> IF f = Shipped[n] THEN half
                                               ELSE IF \E i \in 1..n : f = Shipped[i] THEN dir[f] ELSE artifacts[f]]
             /\ UNCHANGED dir
  <2> PICK n \in 1..Len(Shipped) :
             /\ \A i \in 1..n : dir[Shipped[i]] \notin {None, Cut}
             /\ \E half \in Halves(Shipped[n], dir[Shipped[n]]) :
                  artifacts' = [f \in File |-> IF f = Shipped[n] THEN half
                                               ELSE IF \E i \in 1..n : f = Shipped[i] THEN dir[f] ELSE artifacts[f]]
             /\ UNCHANGED dir
    BY <1>8
  <2>1. dir[Shipped[n]] # None
    BY <1>7
  <2> QED  BY <1>5, <2>1
<1>9. \/ UNCHANGED <<dir, artifacts>>
      \/ \E f \in File : /\ artifacts[f] # None
                         /\ \E half \in Halves(f, artifacts[f]) : dir' = [dir EXCEPT ![f] = half]
                         /\ UNCHANGED artifacts
      \/ \E n \in 1..Len(Shipped) :
            /\ \A i \in 1..n : dir[Shipped[i]] \notin {None, Cut}
            /\ \E half \in Halves(Shipped[n], dir[Shipped[n]]) :
                 artifacts' = [f \in File |-> IF f = Shipped[n] THEN half
                                              ELSE IF \E i \in 1..n : f = Shipped[i] THEN dir[f] ELSE artifacts[f]]
            /\ UNCHANGED dir
  BY Zenon DEF Kill
<1> QED  BY <1>3, <1>6, <1>8, <1>9

(* A command starts: a reproduction at the head of its plan.               *)
LEMMA StartStep ==
  ASSUME ReleaseIInv, NEW steps, NEW o, Start(steps, o), o.stage = "all" => steps = Plan
  PROVE  ReleaseIInv'
<1>1. /\ todo' = steps /\ opts' = o /\ ~rebuilt'
      /\ UNCHANGED <<dir, packed, derived>>
  BY DEF Start
<1>2. Kinds'
  BY <1>1 DEF Kinds, ReleaseIInv, packed, derived
<1>3. ASSUME o.stage = "all"
      PROVE  OnPlan' /\ Reached(Place)'
  <2>1. todo' = Plan /\ Len(todo') = 19 /\ todo' \in Seq(Programs)
    BY <1>1, <1>3, PlanIs
  <2>2. \A j \in 1..19 : todo'[j] = Plan[19 - 19 + j]
    BY <2>1
  <2>3. OnPlan'
    BY <2>1, <2>2 DEF OnPlan
  <2>4. Place' = 1
    BY <2>1 DEF Place
  <2> QED  BY <2>3, <2>4 DEF Reached
<1> QED  BY <1>1, <1>2, <1>3 DEF ReleaseIInv, ReleaseIsCurrent

LEMMA ReleaseNext ==
  ASSUME ReleaseIInv, [ReproduceNext]_reproduceVars
  PROVE  ReleaseIInv'
<1>1. ASSUME NEW o \in Options, Reproduce(o)
      PROVE  ReleaseIInv'
  <2>1. o.stage = "all" => Wanted(o.stage) = Plan
    BY DEF Plan
  <2> QED  BY <1>1, <2>1, StartStep DEF Reproduce
<1>2. CASE Analyse
  <2>1. Settings.stage # "all"
    BY ReproduceAssumption DEF ReproduceAssumption, Settings
  <2> QED  BY <1>2, <2>1, StartStep DEF Analyse
<1>3. ASSUME NEW force \in BOOLEAN, BuildArtifacts(force)
      PROVE  ReleaseIInv'
  <2>1. [Settings EXCEPT !.force = force].stage # "all"
    BY ReproduceAssumption DEF ReproduceAssumption, Settings
  <2> QED  BY <1>3, <2>1, StartStep DEF BuildArtifacts
<1>4. CASE Step
  BY <1>4, CheckStep, InstallStep, GridStep, FreezeStep, FitStep, StrataStep, AnalyzeStep, CoherenceStep,
     MatrixStep, SimulateStep, VerifyStep, NumbersStep, PackingStep DEF Step
<1>5. CASE Kill
  BY <1>5, KillStep
<1>6. CASE Checkout
  <2>1. /\ todo' = <<>> /\ ~rebuilt' /\ artifacts' = artifacts
        /\ dir' = Nothing /\ strata' = None /\ results' = None /\ theory' = None
    BY <1>6 DEF Checkout, packed
  <2>2. dir' = [f \in File |-> dir'[f]] /\ dir'["episodes"] = None
    BY <2>1, FileNames DEF Nothing
  <2> QED  BY <2>1, <2>2 DEF ReleaseIInv, Kinds, ReleaseIsCurrent, Bands
<1>7. CASE UNCHANGED reproduceVars
  BY <1>7 DEF reproduceVars, packed, derived, ReleaseIInv, Kinds, ReleaseIsCurrent, OnPlan, Reached, Place,
              Missing, Declared, Log, Frozen
<1> QED  BY <1>1, <1>2, <1>3, <1>4, <1>5, <1>6, <1>7 DEF ReproduceNext

(* A reproduction that ends well rests on one log, whatever was installed, *)
(* filled in, killed, packed or analysed by hand before it.                *)
THEOREM ReproductionRestsOnOneLog == ReproduceSpec => []ReleaseIsCurrent
<1>1. ReproduceInit => ReleaseIInv
  BY ReleaseInit
<1>2. ReleaseIInv /\ [ReproduceNext]_reproduceVars => ReleaseIInv'
  BY ReleaseNext
<1>3. ReleaseIInv => ReleaseIsCurrent
  BY DEF ReleaseIInv
<1> QED  BY <1>1, <1>2, <1>3, PTL DEF ReproduceSpec
===============================================================================
