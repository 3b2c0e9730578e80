------------------------------ MODULE Proposer ------------------------------
(***************************************************************************)
(* src/proposer.py: what a prompt shows of the memory, and src/typer.py:   *)
(* the failure classes it shows it by.                                     *)
(*                                                                         *)
(* A prompt is the task's fixed text and three blocks.  Each block is a    *)
(* set of lines, a line carrying its place in the block, so two prompts    *)
(* are equal exactly when their blocks are.                                *)
(***************************************************************************)
EXTENDS RepairLoop

CONSTANTS
  SteerOn,  \* steer_on: is the proposer conditioned on memory at all
  Violates  \* Violates[g][p][c]: the property p violates on case c, at granularity g

ASSUME ProposerAssumption ==
  /\ SteerOn \in BOOLEAN
  /\ DOMAIN Violates = {"coarse", "fine"}
  /\ \A g \in DOMAIN Violates :
       /\ DOMAIN Violates[g] = Patch
       /\ \A p \in Patch : DOMAIN Violates[g][p] = Case
  /\ \A p \in Patch, c \in Case : <<EditLocation[p], Violates["fine"][p][c]>> # None

-----------------------------------------------------------------------------
(* theta: the failure class of a patch refuted by c, (edit location) x     *)
(* (violated property).  The fine class is logged in every row; the class  *)
(* the memory believes keeps the property and takes the location it was    *)
(* filed under.                                                            *)
FineType(p, c) == <<EditLocation[p], Violates["fine"][p][c]>>

BelievedType(i) ==
  <<history[i].location, Violates[Granularity][history[i].patch][history[i].case]>>

(* One representative per class: the first attempt refuted in it.          *)
Representatives ==
  {i \in Refuted : \A j \in Refuted : j < i => BelievedType(j) # BelievedType(i)}

Line(i, shown) == Cardinality({j \in shown : j <= i})

(* _evidence_block.  Untyped memory guards and shows the proposer nothing. *)
EvidenceBlock ==
  IF Mode # "typed" THEN {}
  ELSE {[line |-> Line(i, Representatives), class |-> BelievedType(i),
         patch |-> history[i].patch, case |-> history[i].case] : i \in Representatives}

(* _exclusion_block: the same classes, without their counterexample.       *)
ExclusionBlock ==
  IF Mode # "typed" THEN {}
  ELSE {[line |-> Line(i, Representatives), class |-> BelievedType(i)] : i \in Representatives}

(* format_transcript: every refuted attempt since start, in full.          *)
Transcript(start) ==
  LET shown == {i \in Refuted : i > start}
  IN  {[line |-> Line(i, shown), patch |-> history[i].patch, case |-> history[i].case] : i \in shown}

(* build_prompt.  Steering off shows neither evidence nor exclusion.       *)
Prompt(start) ==
  [transcript |-> IF ChatHistory THEN Transcript(start) ELSE {},
   evidence   |-> IF SteerOn THEN EvidenceBlock ELSE {},
   exclusion  |-> IF SteerOn THEN ExclusionBlock ELSE {}]
=============================================================================
