----------------------------- MODULE RepairLoop -----------------------------
(***************************************************************************)
(* src/loop.py run_episode: propose, guard, check, record, up to a budget. *)
(*                                                                         *)
(* One episode repairs one task in one arm of the study.  Each action is   *)
(* one round of the loop, from the draw to the row it appends, with the    *)
(* exit that round takes; the memory's variables are those of Memory.      *)
(***************************************************************************)
EXTENDS Memory

CONSTANTS
  Budget,             \* attempts an episode may spend (B)
  DrawCap,            \* FREE_GUARD_DRAW_CAP: draws per unit of budget
  MaxBackendFailures, \* MAX_CONSECUTIVE_BACKEND_FAILURES
  GuardOn,            \* guard_on
  AuditGuarded,       \* audit_guarded
  FreeGuarded,        \* free_guarded_rounds
  ForceFull,          \* force_full_budget
  ChatHistory,        \* history = "chat"
  RestartAfter,       \* history_restart_after
  SelfTestBlocks,     \* patches the self-generated tests reject ({} if E11 is off)
  SkipsOracle         \* oracle_skip_p > 0 (E12)

ASSUME LoopAssumption ==
  /\ Budget \in Nat \ {0} /\ DrawCap \in Nat \ {0}
  /\ MaxBackendFailures \in Nat \ {0} /\ RestartAfter \in Nat \ {0}
  /\ {GuardOn, AuditGuarded, FreeGuarded, ForceFull, ChatHistory, SkipsOracle} \subseteq BOOLEAN
  /\ SelfTestBlocks \subseteq Patch
  /\ None \notin Nat

VARIABLES
  status,       \* "running", "returned" or "raised"
  round,        \* round_index: draws made
  attempts,     \* units of budget spent
  unreachable,  \* consecutive_backend_failures
  chat,         \* hist_state: where the transcript starts, and its restarts
  rows,         \* the RoundRecords appended, in order
  found         \* first_accept_round and accepted_patch

loopVars == <<status, round, attempts, unreachable, chat, rows, found>>
vars == <<memVars, loopVars>>

(* The fields of a RoundRecord the study's accounting rests on.            *)
Row ==
  [kind : {"proposal_error", "guarded", "selftest", "skipped", "oracle_error", "verdict"},
   round : Nat, error : {"unreachable", "unusable", None}, patch : Patch \cup {None},
   attempt : Nat \cup {None}, accept : BOOLEAN, case : Case \cup {None},
   violation : BOOLEAN, audit : Case \cup {None},
   hit : BOOLEAN \cup {None}, hitRefuted : BOOLEAN \cup {None}]

-----------------------------------------------------------------------------
Init ==
  /\ MemInit
  /\ status = "running"
  /\ round = 0 /\ attempts = 0 /\ unreachable = 0
  /\ chat = [start |-> 0, restarts |-> 0]
  /\ rows = <<>>
  /\ found = [round |-> None, patch |-> None]

MaxDraws == IF FreeGuarded THEN Budget * DrawCap ELSE Budget

MayDraw == status = "running" /\ attempts < Budget /\ round < MaxDraws

(* The conversation block of the chat arm: the refuted attempts since the  *)
(* last restart.  It is reset before the draw when it is too long or shows *)
(* RestartAfter failures.                                                  *)
FailsSince(start) == Cardinality({i \in Refuted : i > start})

Restarts_Late(tooLong) == \* mutant: > for >=
  /\ ChatHistory /\ FailsSince(chat.start) > 0
  /\ tooLong \/ FailsSince(chat.start) > RestartAfter

Restarts(tooLong) ==
  /\ ChatHistory /\ FailsSince(chat.start) > 0
  /\ tooLong \/ FailsSince(chat.start) >= RestartAfter

(* Every round draws: the round counter moves, the transcript may restart. *)
Draw ==
  /\ MayDraw
  /\ round' = round + 1
  /\ \E tooLong \in BOOLEAN :
       chat' = IF Restarts(tooLong)
               THEN [start |-> Len(history), restarts |-> chat.restarts + 1]
               ELSE chat

(* _charge, units times; the row carries the last unit charged.            *)
Charge_Twice(units) == attempts' = attempts + 2 * units    \* mutant
Charge(units) == attempts' = attempts + units

(* _record and append_round.                                               *)
Blank ==
  [kind |-> "verdict", round |-> round + 1, error |-> None, patch |-> None,
   attempt |-> attempts', accept |-> FALSE, case |-> None,
   violation |-> FALSE, audit |-> None, hit |-> None, hitRefuted |-> None]

Record(row) == rows' = Append(rows, row)

(* The guard speaks only when it is on; only typed memory has an index.    *)
Guarded(p) == GuardOn /\ Blocked(p)

IndexSpeaks == GuardOn /\ Mode = "typed"

Hit(p) == IF IndexSpeaks THEN BucketHit(p) ELSE None
HitRefuted(p) == IF IndexSpeaks THEN BucketHitRefuted(p) ELSE None

(* first_accept_round and accepted_patch are set once.                     *)
Found_Last(p) == [round |-> round + 1, patch |-> p] \* mutant: the last accept wins

Found(p) == IF found.round = None THEN [round |-> round + 1, patch |-> p] ELSE found

-----------------------------------------------------------------------------
(* TruncatedResponse or ContextOverflow: the harness failed, the round is  *)
(* charged and memory is left alone.                                       *)
ProposalUnusable ==
  /\ Draw
  /\ Charge(1)
  /\ Record([Blank EXCEPT !.kind = "proposal_error", !.error = "unusable"])
  /\ UNCHANGED <<memVars, status, unreachable, found>>

(* BackendUnreachable: the same, but the MaxBackendFailures-th one raises. *)
BackendUnreachable ==
  /\ Draw
  /\ Charge(1)
  /\ Record([Blank EXCEPT !.kind = "proposal_error", !.error = "unreachable"])
  /\ unreachable' = unreachable + 1
  /\ status' = IF unreachable' >= MaxBackendFailures THEN "raised" ELSE status
  /\ UNCHANGED <<memVars, found>>

(* BudgetExceeded (the dollar cap) is not caught: no row is written.       *)
CapReached ==
  /\ Draw
  /\ status' = "raised"
  /\ UNCHANGED <<memVars, attempts, unreachable, rows, found>>

(* The guard blocks.  Nothing is stored; the audit runs the oracle for the *)
(* record only: it types the candidate by the case it failed on, and flags *)
(* one the oracle would have accepted.                                     *)
Audits(p, S) ==
  IF AuditGuarded /\ Refutations(p, S) # {} THEN Refutations(p, S) ELSE {None}

GuardedRound(p, S) ==
  /\ Draw
  /\ Guarded(p)
  /\ Charge(IF FreeGuarded THEN 0 ELSE 1)
  /\ \E c \in Audits(p, S) :
       Record([Blank EXCEPT !.kind = "guarded", !.patch = p,
                            !.attempt = IF FreeGuarded THEN None ELSE attempts',
                            !.violation = AuditGuarded /\ Accepts(p, S), !.audit = c,
                            !.hit = Hit(p), !.hitRefuted = HitRefuted(p)])
  /\ UNCHANGED <<memVars, status, unreachable, found>>

(* E11: a self-generated test fails.  The round was charged before the     *)
(* filter ran and is charged again here.                                   *)
SelfTestBlocked(p) ==
  /\ Draw
  /\ ~Guarded(p) /\ p \in SelfTestBlocks
  /\ Charge(2)
  /\ Record([Blank EXCEPT !.kind = "selftest", !.patch = p,
                          !.hit = Hit(p), !.hitRefuted = HitRefuted(p)])
  /\ UNCHANGED <<memVars, status, unreachable, found>>

(* E12: the proposal is discarded unverified, and charged a second time.   *)
OracleSkipped(p) ==
  /\ Draw
  /\ ~Guarded(p) /\ p \notin SelfTestBlocks
  /\ SkipsOracle
  /\ Charge(2)
  /\ Record([Blank EXCEPT !.kind = "skipped", !.patch = p])
  /\ UNCHANGED <<memVars, status, unreachable, found>>

ReachesOracle(p) == ~Guarded(p) /\ p \notin SelfTestBlocks

(* The oracle could not decide: logged, never stored.                      *)
OracleError(p, S) ==
  /\ Draw
  /\ ReachesOracle(p) /\ Inconclusive(S)
  /\ Charge(1)
  /\ Record([Blank EXCEPT !.kind = "oracle_error", !.patch = p,
                          !.hit = Hit(p), !.hitRefuted = HitRefuted(p)])
  /\ UNCHANGED <<memVars, status, unreachable, found>>

(* A refutation is stored and recorded; the verdict row carries no index   *)
(* observation.                                                            *)
Refute(p, S) ==
  /\ Draw
  /\ ReachesOracle(p) /\ ~Inconclusive(S)
  /\ Charge(1)
  /\ \E c \in Refutations(p, S) :
       /\ StoreRefuted(p, c)
       /\ Record([Blank EXCEPT !.patch = p, !.case = c])
  /\ UNCHANGED <<status, unreachable, found>>

(* An accepted patch is stored too, and ends the episode unless the full   *)
(* budget is forced; the first one is what the episode reports.            *)
Accept(p, S) ==
  /\ Draw
  /\ ReachesOracle(p) /\ Accepts(p, S)
  /\ Charge(1)
  /\ StoreAccepted(p)
  /\ Record([Blank EXCEPT !.patch = p, !.accept = TRUE])
  /\ found' = Found(p)
  /\ status' = IF ForceFull THEN status ELSE "returned"
  /\ UNCHANGED unreachable

(* The loop condition fails: the episode returns what it found.            *)
Exhausted_Exact == \* mutant: the budget must be hit exactly, the draw cap is forgotten
  /\ status = "running" /\ attempts = Budget
  /\ status' = "returned"
  /\ UNCHANGED <<memVars, round, attempts, unreachable, chat, rows, found>>

Exhausted ==
  /\ status = "running" /\ ~MayDraw
  /\ status' = "returned"
  /\ UNCHANGED <<memVars, round, attempts, unreachable, chat, rows, found>>

-----------------------------------------------------------------------------
PatchRound(p, S) ==
  \/ GuardedRound(p, S)
  \/ SelfTestBlocked(p)
  \/ OracleSkipped(p)
  \/ OracleError(p, S)
  \/ Refute(p, S)
  \/ Accept(p, S)

Next ==
  \/ ProposalUnusable
  \/ BackendUnreachable
  \/ CapReached
  \/ \E p \in Patch, S \in Samples : PatchRound(p, S)
  \/ Exhausted

Spec == Init /\ [][Next]_vars

(* The loop is sequential code: while it is running its next round runs.   *)
FairSpec == Spec /\ WF_vars(Next)
=============================================================================
