------------------------------ MODULE LlmCache ------------------------------
(***************************************************************************)
(* src/llm.py complete: one cached, metered model call, run by several     *)
(* drivers (the shards of scripts/eval_shard.sh) over one cache directory. *)
(*                                                                         *)
(* A driver asks for one key at a time and may be killed between any two   *)
(* steps; it is then started again.  Each driver has its own ledger, and   *)
(* _spent lives and dies with the driver.                                  *)
(***************************************************************************)
EXTENDS Integers, FiniteSets

CONSTANTS
  Proc,        \* drivers
  Key,         \* cache keys: model, settings, nonce and prompt, hashed
  Reply,       \* what the server may answer
  Usd,         \* Usd[r]: the price of the call that returned r
  MaxUsd,      \* the dearest call
  Cap,         \* BUDGET_USD_CAP of each driver
  TooLong,     \* keys whose prompt does not fit LLM_CONTEXT_TOKENS
  OldBlob,     \* OldBlob[k]: the reply of an entry written before token counts, or None
  MaxCrashes,  \* bound: how often drivers are killed
  Torn,        \* half a file
  None

(* A blob: the reply, and whether its token counts are recorded.           *)
Entry == [text : Reply \cup {Torn}, counts : BOOLEAN]

ASSUME CacheAssumption ==
  /\ IsFiniteSet(Proc) /\ Proc # {}
  /\ MaxUsd \in Nat /\ Usd \in [Reply -> 0..MaxUsd]
  /\ Cap \in Nat \ {0} /\ MaxCrashes \in Nat
  /\ TooLong \subseteq Key
  /\ OldBlob \in [Key -> Reply \cup {None}]
  /\ None \notin Reply /\ Torn \notin Reply /\ Torn # None /\ None \notin Nat
  /\ None \notin Entry

VARIABLES
  cache,    \* the files of CACHE_DIR: cache[k] is a blob, or None
  tmp,      \* each driver's temporary file, named by its pid
  ledger,   \* dollars in each driver's CALLS_LOG
  spent,    \* _spent; None until it is first needed
  pc,       \* where each driver is inside complete
  key,      \* the key it asked for
  reply,    \* the reply it holds
  billed,   \* history: dollars the server charged each driver
  bought,   \* history: calls paid for each key
  given,    \* history: the replies complete has returned for each key
  crashes,  \* history: how often each driver was killed
  kills     \* history: how often any of them was

disk == <<cache, tmp, ledger>>
call == <<key, reply>>
ghost == <<billed, bought, given, crashes, kills>>
vars == <<disk, spent, pc, call, ghost>>

Blob(text, counts) == [text |-> text, counts |-> counts]

Init ==
  /\ cache = [k \in Key |-> IF OldBlob[k] = None THEN None ELSE Blob(OldBlob[k], FALSE)]
  /\ tmp = [p \in Proc |-> None]
  /\ ledger = [p \in Proc |-> 0]
  /\ spent = [p \in Proc |-> None]
  /\ pc = [p \in Proc |-> "idle"]
  /\ key = [p \in Proc |-> None]
  /\ reply = [p \in Proc |-> None]
  /\ billed = [p \in Proc |-> 0]
  /\ bought = [k \in Key |-> 0]
  /\ given = [k \in Key |-> {}]
  /\ crashes = [p \in Proc |-> 0] /\ kills = 0

(* A step inside complete, and leaving it: its locals are gone.            *)
Go(p, from, to) == pc[p] = from /\ pc' = [pc EXCEPT ![p] = to]

Leave(p) ==
  /\ pc' = [pc EXCEPT ![p] = "idle"]
  /\ key' = [key EXCEPT ![p] = None]
  /\ reply' = [reply EXCEPT ![p] = None]

-----------------------------------------------------------------------------
(* complete is called; nothing has been looked at yet.                     *)
Ask(p, k) ==
  /\ Go(p, "idle", "look")
  /\ key' = [key EXCEPT ![p] = k]
  /\ UNCHANGED <<disk, spent, reply, ghost>>

(* hit.exists().                                                           *)
IsHit_Ignored(p) == FALSE \* mutant: the cache is written and never read
IsHit(p) == cache[key[p]] # None

(* A hit is read and returned, unless the blob has no token counts.        *)
Hit(p) ==
  /\ Go(p, "look", IF IsHit(p) /\ ~cache[key[p]].counts THEN "recover" ELSE "return")
  /\ IsHit(p)
  /\ reply' = [reply EXCEPT ![p] = cache[key[p]].text]
  /\ UNCHANGED <<disk, spent, key, ghost>>

(* _recover_counts: the blob that was read is written back with counts,    *)
(* or the file cannot be written and the call goes on without.             *)
Recover(p) ==
  /\ Go(p, "recover", "return")
  /\ \/ cache' = [cache EXCEPT ![key[p]] = Blob(reply[p], TRUE)]
     \/ UNCHANGED cache
  /\ UNCHANGED <<tmp, ledger, spent, call, ghost>>

Miss(p) ==
  /\ Go(p, "look", "check")
  /\ ~IsHit(p)
  /\ UNCHANGED <<disk, spent, call, ghost>>

(* spent(): the ledger is summed once, then the sum is kept in memory.     *)
Spent(p) == IF spent[p] = None THEN ledger[p] ELSE spent[p]

(* BudgetExceeded, then ContextOverflow, then the call.                    *)
Refused(p) == Spent(p) >= Cap \/ key[p] \in TooLong

Check(p) ==
  /\ pc[p] = "check"
  /\ spent' = [spent EXCEPT ![p] = Spent(p)]
  /\ IF Refused(p) THEN Leave(p) ELSE Go(p, "check", "call") /\ UNCHANGED call
  /\ UNCHANGED <<disk, ghost>>

(* The server answers and charges for it,                                  *)
Answered(p, r) ==
  /\ Go(p, "call", "open")
  /\ reply' = [reply EXCEPT ![p] = r]
  /\ billed' = [billed EXCEPT ![p] = @ + Usd[r]]
  /\ bought' = [bought EXCEPT ![key[p]] = @ + 1]
  /\ UNCHANGED <<disk, spent, key, given, crashes, kills>>

(* or the call raises: BackendUnreachable, or an error passed on.          *)
Unanswered(p) ==
  /\ pc[p] = "call" /\ Leave(p)
  /\ UNCHANGED <<disk, spent, ghost>>

(* The blob goes to a temporary file, in more than one write,              *)
Open_InPlace(p) == \* mutant: the entry itself is opened and truncated
  cache' = [cache EXCEPT ![key[p]] = Blob(Torn, TRUE)] /\ UNCHANGED tmp

Open(p) == tmp' = [tmp EXCEPT ![p] = Torn] /\ UNCHANGED cache

OpenTemporary(p) ==
  /\ Go(p, "open", "write")
  /\ Open(p)
  /\ UNCHANGED <<ledger, spent, call, ghost>>

WriteTemporary(p) ==
  /\ Go(p, "write", "replace")
  /\ tmp' = [tmp EXCEPT ![p] = reply[p]]
  /\ UNCHANGED <<cache, ledger, spent, call, ghost>>

(* and os.replace puts it in place, over whatever is there.                *)
Replace(p) ==
  /\ Go(p, "replace", "log")
  /\ cache' = [cache EXCEPT ![key[p]] = Blob(tmp[p], TRUE)]
  /\ tmp' = [tmp EXCEPT ![p] = None]
  /\ UNCHANGED <<ledger, spent, call, ghost>>

AppendLedger(p) ==
  /\ Go(p, "log", "settle")
  /\ ledger' = [ledger EXCEPT ![p] = @ + Usd[reply[p]]]
  /\ UNCHANGED <<cache, tmp, spent, call, ghost>>

Advanced_Unread(p) == spent[p] \* mutant: _spent is read once and never advanced
Advanced(p) == Spent(p) + Usd[reply[p]]

Settle(p) ==
  /\ Go(p, "settle", "return")
  /\ spent' = [spent EXCEPT ![p] = Advanced(p)]
  /\ UNCHANGED <<disk, call, ghost>>

Return(p) ==
  /\ pc[p] = "return" /\ Leave(p)
  /\ given' = [given EXCEPT ![key[p]] = @ \cup {reply[p]}]
  /\ UNCHANGED <<disk, spent, billed, bought, crashes, kills>>

(* The driver is killed, and started again: its memory is empty, a         *)
(* temporary file stays behind until the same driver writes it again.      *)
MayKill == kills < MaxCrashes

Kill(p) ==
  /\ MayKill
  /\ Leave(p)
  /\ spent' = [spent EXCEPT ![p] = None]
  /\ crashes' = [crashes EXCEPT ![p] = @ + 1] /\ kills' = kills + 1
  /\ UNCHANGED <<disk, billed, bought, given>>

-----------------------------------------------------------------------------
Step(p) ==
  \/ \E k \in Key : Ask(p, k)
  \/ Hit(p) \/ Recover(p) \/ Miss(p) \/ Check(p)
  \/ \E r \in Reply : Answered(p, r)
  \/ Unanswered(p)
  \/ OpenTemporary(p) \/ WriteTemporary(p) \/ Replace(p)
  \/ AppendLedger(p) \/ Settle(p) \/ Return(p)
  \/ Kill(p)

Next == \E p \in Proc : Step(p)

Spec == Init /\ [][Next]_vars

-----------------------------------------------------------------------------
TypeOK ==
  /\ cache \in [Key -> Entry \cup {None}]
  /\ tmp \in [Proc -> Reply \cup {Torn, None}]
  /\ ledger \in [Proc -> Nat] /\ billed \in [Proc -> Nat] /\ crashes \in [Proc -> Nat]
  /\ kills \in Nat
  /\ spent \in [Proc -> Nat \cup {None}]
  /\ pc \in [Proc -> {"idle", "look", "recover", "check", "call", "open", "write",
                      "replace", "log", "settle", "return"}]
  /\ key \in [Proc -> Key \cup {None}]
  /\ \A p \in Proc : pc[p] # "idle" => key[p] \in Key
  /\ reply \in [Proc -> Reply \cup {Torn, None}]
  /\ bought \in [Key -> Nat]
  /\ given \in [Key -> SUBSET (Reply \cup {Torn})]

(* "a reader can only ever see the whole blob or no file at all": what     *)
(* complete returns is an answer of the server, whoever wrote the file and *)
(* whoever was killed while writing it.                                    *)
WholeReplies == \A k \in Key : given[k] \subseteq Reply

(* What is left, with concurrent drivers, of "the draw at round k is a     *)
(* function of (task, seed, k) alone": a key has at most one reply per     *)
(* driver, however often drivers are killed; with one driver it has one.   *)
RepliesPerKey == \A k \in Key : Cardinality(given[k]) <= Cardinality(Proc)

(* "re-running a cell still replays from cache for free": a key is paid    *)
(* for at most once per driver and once more per kill.                     *)
PaymentsPerKey == \A k \in Key : bought[k] <= Cardinality(Proc) + kills

(* The cap: what a driver is charged stays below the cap plus one call,    *)
(* plus the one call each kill may have kept out of its ledger.            *)
SpendBounded == \A p \in Proc : billed[p] < Cap + MaxUsd * (1 + crashes[p])
=============================================================================
