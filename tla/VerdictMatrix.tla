---------------------------- MODULE VerdictMatrix ----------------------------
(***************************************************************************)
(* scripts/build_verdict_matrix.py: every candidate of the log run against *)
(* every usable case of its task, by a pool of workers.  Two files come    *)
(* out of it: verdicts.jsonl, one appended row per candidate, and          *)
(* verdicts_cases.json, the usable cases per task, rewritten whole.  A     *)
(* killed build is started again with the same command.                    *)
(*                                                                         *)
(* Verdicts are taken as reproducible, so a row is known by its candidate  *)
(* and by whether any case was run for it.                                 *)
(***************************************************************************)
EXTENDS Naturals, FiniteSets, Sequences

CONSTANTS
  Worklist,   \* the (task, patch) pairs of the log, sorted by task and sha
  TaskOf,     \* TaskOf[c]: the task of candidate c
  Answered,   \* the tasks the reference answers at least one case of
  Jobs,       \* --jobs
  TaskGroup,  \* --task-group
  MaxKills    \* bound on the builds killed

Candidate == {Worklist[i] : i \in DOMAIN Worklist}
MatrixTask == {TaskOf[c] : c \in Candidate}

ASSUME MatrixAssumption ==
  /\ Answered \subseteq MatrixTask
  /\ Jobs \in Nat \ {0} /\ TaskGroup \in Nat \ {0} /\ MaxKills \in Nat

VARIABLES
  unpacked, \* is external/ConDefects/Test there
  rows,     \* verdicts.jsonl, the last row of a candidate: "none", "blank" or "judged"
  torn,     \* does verdicts.jsonl end in a line without its newline
  lines,    \* the rows without that line
  lists,    \* verdicts_cases.json, per task: "none", "empty" or "full"
  broken,   \* is verdicts_cases.json half written
  building, \* is a build running
  queue,    \* the candidates it has not handed out
  group,    \* the tasks that share the present worker pool
  busy,     \* the candidates being run
  answers,  \* refs_cache: the tasks whose reference answers are at hand
  known,    \* usable_by_task: the case lists as the build knows them
  kills, interrupted \* builds killed; was one killed while it wrote the lists

fileVars == <<rows, torn, lines, lists, broken>>
buildVars == <<building, queue, group, busy, answers, known>>
matrixVars == <<unpacked, fileVars, buildVars, kills, interrupted>>

-----------------------------------------------------------------------------
(* already_done: only a row that was judged on some case counts.           *)
Done_AnyRow == {c \in Candidate : rows[c] # "none"} \* mutant: blank rows count too
Done == {c \in Candidate : rows[c] = "judged"}

Todo == SelectSeq(Worklist, LAMBDA c : c \notin Done)

(* The first TaskGroup tasks of what is left.                              *)
FirstTasks(q) ==
  {TaskOf[q[i]] : i \in {j \in DOMAIN q :
                           Cardinality({TaskOf[q[k]] : k \in 1..j}) <= TaskGroup}}

(* A verdicts_cases.json that does not parse is started over.              *)
ListsRead == IF broken THEN [t \in MatrixTask |-> "none"] ELSE lists

(* main refuses a benchmark without Test/ unless --allow-empty-pools.      *)
StartBuild(allowEmpty) ==
  /\ ~building /\ Todo # <<>>
  /\ unpacked \/ allowEmpty
  /\ building' = TRUE /\ queue' = Todo /\ group' = FirstTasks(Todo)
  /\ known' = ListsRead /\ answers' = {}
  /\ UNCHANGED <<unpacked, fileVars, busy, kills, interrupted>>

(* refs_for: the first candidate of a task in a group has its reference    *)
(* answers computed and the case lists written.                            *)
Learnt(t) ==
  [known EXCEPT ![t] = IF unpacked /\ t \in Answered THEN "full" ELSE "empty"]

WriteLists(t) ==
  IF t \in answers THEN UNCHANGED <<answers, known, lists, broken>>
  ELSE /\ answers' = answers \cup {t}
       /\ known' = Learnt(t) /\ lists' = Learnt(t) /\ broken' = FALSE

Take ==
  /\ building /\ queue # <<>> /\ Cardinality(busy) < Jobs
  /\ TaskOf[Head(queue)] \in group
  /\ WriteLists(TaskOf[Head(queue)])
  /\ busy' = busy \cup {Head(queue)} /\ queue' = Tail(queue)
  /\ UNCHANGED <<unpacked, rows, torn, lines, building, group, kills, interrupted>>

(* run_candidate and the append of its row.  After a line without its      *)
(* newline the row completes that line, and neither can be read.           *)
Verdict(c) == IF unpacked /\ TaskOf[c] \in Answered THEN "judged" ELSE "blank"

Appended(c) == IF torn THEN lines ELSE [rows EXCEPT ![c] = Verdict(c)]

Land(c) ==
  /\ c \in busy
  /\ busy' = busy \ {c}
  /\ rows' = Appended(c) /\ lines' = Appended(c) /\ torn' = FALSE
  /\ UNCHANGED <<unpacked, lists, broken, building, queue, group, answers, known, kills, interrupted>>

(* Between groups the caches are dropped.                                  *)
NextGroup ==
  /\ building /\ busy = {} /\ queue # <<>> /\ TaskOf[Head(queue)] \notin group
  /\ group' = FirstTasks(queue) /\ answers' = {}
  /\ UNCHANGED <<unpacked, fileVars, building, queue, busy, known, kills, interrupted>>

StopBuild == building' = FALSE /\ queue' = <<>> /\ busy' = {} /\ group' = {} /\ answers' = {}
             /\ known' = [t \in MatrixTask |-> "none"]

FinishBuild ==
  /\ building /\ busy = {} /\ queue = <<>>
  /\ StopBuild
  /\ UNCHANGED <<unpacked, fileVars, kills, interrupted>>

(* A kill leaves files as they are, or cuts a row short, or leaves the     *)
(* lists half written; the latter also while candidates run, because the   *)
(* workers that meet a task together each answer it and each rewrite the   *)
(* file.  A row that lacks no more than its newline is read like any other *)
(* until the next one is appended to it.                                   *)
CutRow ==
  /\ torn' = TRUE
  /\ lines' = IF torn THEN lines ELSE rows
  /\ rows' \in {lines'} \cup {Appended(c) : c \in busy}

KillBuild ==
  /\ building /\ kills < MaxKills
  /\ kills' = kills + 1 /\ StopBuild
  /\ \/ UNCHANGED <<rows, torn, lines>>
     \/ busy # {} /\ CutRow
  /\ \/ UNCHANGED <<broken, interrupted>>
     \/ /\ busy # {} \/ (queue # <<>> /\ TaskOf[Head(queue)] \in group \ answers)
        /\ broken' = TRUE /\ interrupted' = TRUE
  /\ UNCHANGED <<unpacked, lists>>

UnpackTests == ~unpacked /\ ~building /\ unpacked' = TRUE
               /\ UNCHANGED <<fileVars, buildVars, kills, interrupted>>

MatrixInit ==
  /\ unpacked \in BOOLEAN
  /\ rows = [c \in Candidate |-> "none"] /\ lines = rows /\ torn = FALSE
  /\ lists = [t \in MatrixTask |-> "none"] /\ broken = FALSE
  /\ building = FALSE /\ queue = <<>> /\ group = {} /\ busy = {} /\ answers = {}
  /\ known = [t \in MatrixTask |-> "none"]
  /\ kills = 0 /\ interrupted = FALSE

MatrixNext ==
  \/ \E allowEmpty \in BOOLEAN : StartBuild(allowEmpty)
  \/ Take \/ NextGroup \/ FinishBuild \/ KillBuild \/ UnpackTests
  \/ \E c \in Candidate : Land(c)

-----------------------------------------------------------------------------
(* What simulate_policies.py can replay: tasks with a case list it can     *)
(* read, and candidates with a complete row.                               *)
Replayable(t) ==
  /\ ~broken /\ lists[t] = "full"
  /\ \A c \in Candidate : TaskOf[c] = t => rows[c] = "judged"

(* "RESUMABLE ... a killed job costs one candidate, not the whole matrix": *)
(* whatever is killed, torn or built before the tests were unpacked, the   *)
(* same command in the end fills in every row the references can answer.   *)
(* And unless a kill fell into the writing of the case lists, every task   *)
(* can then be replayed.                                                   *)
EventuallyBuilt ==
  <>[](/\ \A c \in Candidate : TaskOf[c] \in Answered => rows[c] = "judged"
       /\ ~interrupted => \A t \in Answered : Replayable(t))

(* "Rewritten whole on each new task ... and a killed job still leaves it  *)
(* valid": a finished build leaves every task it answered replayable.      *)
KilledListsAreValid == ~building /\ Todo = <<>> => \A t \in Answered : Replayable(t)
=============================================================================
