----------------------------- MODULE CacheProofs -----------------------------
(***************************************************************************)
(* Theorems about the model client: for every set of drivers, keys,        *)
(* replies and prices, and any number of kills.                            *)
(***************************************************************************)
EXTENDS LlmCache, FiniteSetTheorems, TLAPS

(* A driver that has its reply holds one of the server's; what it puts in  *)
(* place is that reply; and no file ever holds anything else.              *)
Holding(p) ==
  pc[p] \in {"recover", "open", "write", "replace", "log", "settle", "return"}

Whole ==
  /\ \A p \in Proc : Holding(p) => reply[p] \in Reply
  /\ \A p \in Proc : pc[p] = "replace" => tmp[p] = reply[p]
  /\ \A k \in Key : cache[k] # None => cache[k].text \in Reply
  /\ \A k \in Key : given[k] \subseteq Reply

WholeIInv == TypeOK /\ Whole

LEMMA BlobIsAFile ==
  ASSUME NEW r \in Reply, NEW b \in BOOLEAN
  PROVE  /\ Blob(r, b) \in Entry /\ Blob(r, b) # None
         /\ Blob(r, b).text = r /\ Blob(r, b).counts = b
<1>1. Blob(r, b) \in Entry
  BY DEF Blob, Entry
<1>2. Blob(r, b) # None
  BY <1>1, CacheAssumption
<1>3. Blob(r, b).text = r /\ Blob(r, b).counts = b
  BY DEF Blob
<1> QED  BY <1>1, <1>2, <1>3

LEMMA WholeHolds == Spec => []WholeIInv
<1>1. Init => WholeIInv
  BY CacheAssumption DEF Init, TypeOK, Whole, WholeIInv, Holding, Blob, Entry
<1>2. WholeIInv /\ [Next]_vars => WholeIInv'
  <2> SUFFICES ASSUME WholeIInv, [Next]_vars PROVE WholeIInv'
    OBVIOUS
  <2> USE CacheAssumption
  <2>1. ASSUME NEW p \in Proc, Step(p) PROVE WholeIInv'
    <3> USE DEF Go, Leave, WholeIInv
    <3>1. ASSUME NEW k \in Key, Ask(p, k) PROVE WholeIInv'
      <4>1. TypeOK'
        BY <3>1 DEF TypeOK, Whole, Holding, Ask, disk, ghost
      <4>2. Whole'
        BY <3>1 DEF TypeOK, Whole, Holding, Ask, disk, ghost
      <4> QED  BY <4>1, <4>2
    <3>2. CASE Hit(p)
      <4>1. TypeOK'
        BY <3>2 DEF TypeOK, Whole, Holding, Hit, IsHit, Entry, disk, ghost
      <4>2. Whole'
        BY <3>2 DEF TypeOK, Whole, Holding, Hit, IsHit, Entry, disk, ghost
      <4> QED  BY <4>1, <4>2
    <3>3. CASE Recover(p)
      <4>1. TypeOK'
        <5>1. key[p] \in Key /\ reply[p] \in Reply
          BY <3>3 DEF TypeOK, Whole, Holding, Recover
        <5>2. cache \in [Key -> Entry \cup {None}] /\ Blob(reply[p], TRUE) \in Entry
          BY <5>1 DEF TypeOK, Entry, Blob
        <5>3. cache' = cache \/ cache' = [cache EXCEPT ![key[p]] = Blob(reply[p], TRUE)]
          BY <3>3 DEF Recover
        <5>4. cache' \in [Key -> Entry \cup {None}]
          BY <5>1, <5>2, <5>3
        <5> QED  BY <3>3, <5>4 DEF TypeOK, Recover, call, ghost
      <4>2. Whole'
        BY <3>3 DEF TypeOK, Whole, Holding, Recover, Blob, Entry, call, ghost
      <4> QED  BY <4>1, <4>2
    <3>4. CASE Miss(p)
      <4>1. TypeOK'
        BY <3>4 DEF TypeOK, Whole, Holding, Miss, disk, call, ghost
      <4>2. Whole'
        BY <3>4 DEF TypeOK, Whole, Holding, Miss, disk, call, ghost
      <4> QED  BY <4>1, <4>2
    <3>5. CASE Check(p)
      <4>1. TypeOK'
        BY <3>5 DEF TypeOK, Whole, Holding, Check, Spent, disk, call, ghost
      <4>2. Whole'
        BY <3>5 DEF TypeOK, Whole, Holding, Check, Spent, disk, call, ghost
      <4> QED  BY <4>1, <4>2
    <3>6. ASSUME NEW r \in Reply, Answered(p, r) PROVE WholeIInv'
      <4>1. TypeOK'
        BY <3>6 DEF TypeOK, Whole, Holding, Answered, disk
      <4>2. Whole'
        BY <3>6 DEF TypeOK, Whole, Holding, Answered, disk
      <4> QED  BY <4>1, <4>2
    <3>7. CASE Unanswered(p)
      <4>1. TypeOK'
        BY <3>7 DEF TypeOK, Whole, Holding, Unanswered, disk, ghost
      <4>2. Whole'
        BY <3>7 DEF TypeOK, Whole, Holding, Unanswered, disk, ghost
      <4> QED  BY <4>1, <4>2
    <3>8. CASE OpenTemporary(p)
      <4>1. TypeOK'
        BY <3>8 DEF TypeOK, Whole, Holding, OpenTemporary, Open, call, ghost
      <4>2. Whole'
        BY <3>8 DEF TypeOK, Whole, Holding, OpenTemporary, Open, call, ghost
      <4> QED  BY <4>1, <4>2
    <3>9. CASE WriteTemporary(p)
      <4>1. TypeOK'
        BY <3>9 DEF TypeOK, Whole, Holding, WriteTemporary, call, ghost
      <4>2. Whole'
        BY <3>9 DEF TypeOK, Whole, Holding, WriteTemporary, call, ghost
      <4> QED  BY <4>1, <4>2
    <3>10. CASE Replace(p)
      <4>1. TypeOK'
        BY <3>10 DEF TypeOK, Whole, Holding, Replace, Blob, Entry, call, ghost
      <4>2. Whole'
        BY <3>10 DEF TypeOK, Whole, Holding, Replace, Blob, Entry, call, ghost
      <4> QED  BY <4>1, <4>2
    <3>11. CASE AppendLedger(p)
      <4>1. TypeOK'
        BY <3>11 DEF TypeOK, Whole, Holding, AppendLedger, call, ghost
      <4>2. Whole'
        BY <3>11 DEF TypeOK, Whole, Holding, AppendLedger, call, ghost
      <4> QED  BY <4>1, <4>2
    <3>12. CASE Settle(p)
      <4>1. TypeOK'
        BY <3>12 DEF TypeOK, Whole, Holding, Settle, Advanced, Spent, disk, call, ghost
      <4>2. Whole'
        BY <3>12 DEF TypeOK, Whole, Holding, Settle, Advanced, Spent, disk, call, ghost
      <4> QED  BY <4>1, <4>2
    <3>13. CASE Return(p)
      <4>1. TypeOK'
        BY <3>13 DEF TypeOK, Whole, Holding, Return, disk
      <4>2. Whole'
        BY <3>13 DEF TypeOK, Whole, Holding, Return, disk
      <4> QED  BY <4>1, <4>2
    <3>14. CASE Kill(p)
      <4>1. TypeOK'
        BY <3>14 DEF TypeOK, Whole, Holding, Kill, disk
      <4>2. Whole'
        BY <3>14 DEF TypeOK, Whole, Holding, Kill, disk
      <4> QED  BY <4>1, <4>2
    <3> QED  BY <2>1, <3>1, <3>2, <3>3, <3>4, <3>5, <3>6, <3>7, <3>8, <3>9, <3>10, <3>11, <3>12, <3>13, <3>14 DEF Step
  <2>2. CASE UNCHANGED vars
    BY <2>2 DEF WholeIInv, TypeOK, Whole, Holding, vars, disk, call, ghost
  <2> QED  BY <2>1, <2>2 DEF Next
<1> QED  BY <1>1, <1>2, PTL DEF Spec

(* A reader "can only ever see the whole blob or no file at all": complete *)
(* returns what the server once answered.                                  *)
THEOREM RepliesAreWhole == Spec => []WholeReplies
<1>1. WholeIInv => WholeReplies
  BY DEF WholeIInv, Whole, WholeReplies
<1> QED  BY <1>1, WholeHolds, PTL

-----------------------------------------------------------------------------
(* Money.  A driver owes its ledger the call it is about to log; the kills *)
(* cost it at most one such call each; and it calls only below the cap.    *)
Owing(p) == pc[p] \in {"open", "write", "replace", "log"}

Owed(p) == IF Owing(p) THEN Usd[reply[p]] ELSE 0

Lost(p) == MaxUsd * crashes[p]

Metered ==
  \A p \in Proc :
    /\ billed[p] <= ledger[p] + Lost(p) + Owed(p)
    /\ pc[p] \in {"call", "open", "write", "replace", "log", "settle"} => spent[p] # None
    /\ spent[p] # None =>
         spent[p] = ledger[p] - (IF pc[p] = "settle" THEN Usd[reply[p]] ELSE 0)
    /\ pc[p] = "call" \/ Owing(p) => ledger[p] < Cap
    /\ ledger[p] < Cap + MaxUsd

LEMMA OneMoreKill ==
  ASSUME NEW n \in Nat
  PROVE  MaxUsd * (n + 1) = MaxUsd * n + MaxUsd /\ MaxUsd * n \in Nat
  BY CacheAssumption

LEMMA MeteredStep ==
  ASSUME WholeIInv, Metered, [Next]_vars
  PROVE  Metered'
<1> USE CacheAssumption
<1>1. ASSUME NEW p \in Proc, Step(p) PROVE Metered'
  <2> USE DEF Go, Leave, WholeIInv, TypeOK, Whole, Holding
  <2>0. \A q \in Proc : Lost(q) \in Nat /\ (Owing(q) => Usd[reply[q]] \in 0..MaxUsd)
    BY OneMoreKill DEF Lost, Owing
  <2>1. ASSUME NEW k \in Key, Ask(p, k) PROVE Metered'
    BY <2>1, <2>0 DEF Metered, Owed, Owing, Lost, Ask, disk, ghost
  <2>2. CASE Hit(p)
    BY <2>2, <2>0 DEF Metered, Owed, Owing, Lost, Hit, disk, ghost
  <2>3. CASE Recover(p)
    BY <2>3, <2>0 DEF Metered, Owed, Owing, Lost, Recover, call, ghost
  <2>4. CASE Miss(p)
    BY <2>4, <2>0 DEF Metered, Owed, Owing, Lost, Miss, disk, call, ghost
  <2>5. CASE Check(p)
    BY <2>5, <2>0 DEF Metered, Owed, Owing, Lost, Check, Refused, Spent, disk, call, ghost
  <2>6. ASSUME NEW r \in Reply, Answered(p, r) PROVE Metered'
    BY <2>6, <2>0 DEF Metered, Owed, Owing, Lost, Answered, disk
  <2>7. CASE Unanswered(p)
    BY <2>7, <2>0 DEF Metered, Owed, Owing, Lost, Unanswered, disk, ghost
  <2>8. CASE OpenTemporary(p)
    BY <2>8, <2>0 DEF Metered, Owed, Owing, Lost, OpenTemporary, call, ghost
  <2>9. CASE WriteTemporary(p)
    BY <2>9, <2>0 DEF Metered, Owed, Owing, Lost, WriteTemporary, call, ghost
  <2>10. CASE Replace(p)
    BY <2>10, <2>0 DEF Metered, Owed, Owing, Lost, Replace, call, ghost
  <2>11. CASE AppendLedger(p)
    BY <2>11, <2>0 DEF Metered, Owed, Owing, Lost, AppendLedger, call, ghost
  <2>12. CASE Settle(p)
    BY <2>12, <2>0 DEF Metered, Owed, Owing, Lost, Settle, Advanced, Spent, disk, call, ghost
  <2>13. CASE Return(p)
    BY <2>13, <2>0 DEF Metered, Owed, Owing, Lost, Return, disk
  <2>14. CASE Kill(p)
    <3>1. Lost(p)' = Lost(p) + MaxUsd /\ \A q \in Proc \ {p} : Lost(q)' = Lost(q)
      BY <2>14, OneMoreKill DEF Kill, Lost
    <3> QED  BY <2>14, <2>0, <3>1 DEF Metered, Owed, Owing, Kill, disk
  <2> QED  BY <1>1, <2>1, <2>2, <2>3, <2>4, <2>5, <2>6, <2>7, <2>8, <2>9, <2>10, <2>11, <2>12, <2>13, <2>14 DEF Step
<1>2. CASE UNCHANGED vars
  BY <1>2 DEF Metered, Owed, Owing, Lost, vars, disk, call, ghost
<1> QED  BY <1>1, <1>2 DEF Next

(* However many drivers share the cache and however they are killed, none  *)
(* is charged more than its cap, one call, and one call per kill.          *)
THEOREM CapIsRespected == Spec => []SpendBounded
<1>1. Init => Metered
  BY CacheAssumption DEF Init, Metered, Owed, Owing, Lost
<1>2. WholeIInv /\ Metered /\ [Next]_vars => Metered'
  BY MeteredStep
<1>3. WholeIInv /\ Metered => SpendBounded
  <2> SUFFICES ASSUME WholeIInv, Metered, NEW p \in Proc
               PROVE  billed[p] < Cap + MaxUsd * (1 + crashes[p])
    BY DEF SpendBounded
  <2>1. MaxUsd * (1 + crashes[p]) = Lost(p) + MaxUsd /\ Lost(p) \in Nat
    BY OneMoreKill DEF Lost, WholeIInv, TypeOK
  <2>2. Owing(p) => Usd[reply[p]] \in 0..MaxUsd
    BY CacheAssumption DEF Owing, WholeIInv, Whole, Holding
  <2> QED  BY <2>1, <2>2, CacheAssumption DEF Metered, Owed, WholeIInv, TypeOK
<1> QED  BY <1>1, <1>2, <1>3, WholeHolds, PTL DEF Spec

-----------------------------------------------------------------------------
(* Where the replies of a key come from.  A driver writes a key only after *)
(* it missed it, and nobody misses a key that has a file; so f, the reply  *)
(* each driver has put in place, accounts for everything a reader may see, *)
(* and a driver that is still missing the key has put nothing there.       *)
Missing(p, k) == key[p] = k /\ pc[p] \in {"check", "call", "open", "write", "replace"}

Shown(p, k) == key[p] = k /\ pc[p] \in {"recover", "log", "settle", "return"}

Source(k, f) ==
  /\ \A p \in Proc : Missing(p, k) => f[p] = None
  /\ \A r \in given[k] : \E p \in Proc : f[p] = r
  /\ \E p \in Proc : f[p] = cache[k].text
  /\ \A p \in Proc : Shown(p, k) => \E q \in Proc : f[q] = reply[p]

Putter == [Proc -> Reply \cup {None}]

Sourced == \A k \in Key : cache[k] # None => \E f \in Putter : Source(k, f)

(* An entry of the old format was never missed, so rewriting it with token *)
(* counts cannot replace a newer reply.                                    *)
OldBlobsKept ==
  \A k \in Key :
    /\ OldBlob[k] # None =>
         cache[k] # None /\ cache[k].text = OldBlob[k] /\ \A p \in Proc : ~Missing(p, k)
    /\ cache[k] # None /\ ~cache[k].counts => OldBlob[k] # None
    /\ \A p \in Proc : key[p] = k /\ pc[p] = "recover" =>
         OldBlob[k] # None /\ reply[p] = OldBlob[k]

Unseen ==
  \A k \in Key : cache[k] = None => given[k] = {} /\ \A p \in Proc : ~Shown(p, k)

SourceIInv == OldBlobsKept /\ Unseen /\ Sourced

(* Any step but the one that puts a file in place leaves the sources of a  *)
(* key as they are.                                                        *)
Quiet(k) ==
  /\ cache'[k] # None /\ cache'[k].text = cache[k].text
  /\ \A q \in Proc : Missing(q, k)' => Missing(q, k)
  /\ \A q \in Proc : Shown(q, k)' =>
       reply'[q] = cache[k].text \/ (Shown(q, k) /\ reply'[q] = reply[q])
  /\ \A r \in given'[k] : r \in given[k] \/ \E q \in Proc : Shown(q, k) /\ reply[q] = r

LEMMA QuietSteps ==
  ASSUME WholeIInv, SourceIInv, NEW p \in Proc, Step(p),
         NEW k \in Key, cache[k] # None, ~(Replace(p) /\ key[p] = k)
  PROVE  Quiet(k)
<1> USE DEF Go, Leave, WholeIInv, TypeOK, SourceIInv, Quiet, Missing, Shown
<1>1. ASSUME NEW j \in Key, Ask(p, j) PROVE Quiet(k)
  BY <1>1 DEF Ask, disk, ghost
<1>2. CASE Hit(p)
  <2>1. UNCHANGED <<cache, given, key>> /\ \A q \in Proc \ {p} : pc'[q] = pc[q] /\ reply'[q] = reply[q]
    BY <1>2 DEF Hit, disk, ghost
  <2>2. key[p] \in Key /\ reply'[p] = cache[key[p]].text /\ pc'[p] \in {"return", "recover"}
    BY <1>2 DEF Hit
  <2> HIDE DEF Go, Leave, WholeIInv, TypeOK, SourceIInv
  <2> QED  BY <2>1, <2>2
<1>3. CASE Recover(p)
  <2>1. /\ UNCHANGED <<given, key, reply>> /\ \A q \in Proc \ {p} : pc'[q] = pc[q]
        /\ pc[p] = "recover" /\ pc'[p] = "return" /\ key[p] \in Key
    BY <1>3 DEF Recover, call, ghost
  <2>2. cache'[k] # None /\ cache'[k].text = cache[k].text
    <3>1. CASE cache' = cache \/ k # key[p]
      BY <1>3, <3>1 DEF Recover
    <3>2. CASE k = key[p] /\ cache' # cache
      <4>1. reply[p] = cache[k].text
        BY <2>1, <3>2 DEF OldBlobsKept
      <4>2. cache'[k] = Blob(reply[p], TRUE)
        BY <1>3, <3>2 DEF Recover
      <4>3. Blob(reply[p], TRUE).text = reply[p] /\ Blob(reply[p], TRUE) # None
        BY <2>1, BlobIsAFile DEF Whole, Holding
      <4> QED  BY <4>1, <4>2, <4>3
    <3> QED  BY <3>1, <3>2
  <2> HIDE DEF Go, Leave, WholeIInv, TypeOK, SourceIInv
  <2> QED  BY <2>1, <2>2
<1>4. CASE Miss(p)
  BY <1>4 DEF Miss, IsHit, disk, call, ghost
<1>5. CASE Check(p)
  BY <1>5 DEF Check, disk, call, ghost
<1>6. ASSUME NEW r \in Reply, Answered(p, r) PROVE Quiet(k)
  BY <1>6 DEF Answered, disk
<1>7. CASE Unanswered(p)
  BY <1>7 DEF Unanswered, disk, ghost
<1>8. CASE OpenTemporary(p)
  BY <1>8 DEF OpenTemporary, Open, call, ghost
<1>9. CASE WriteTemporary(p)
  BY <1>9 DEF WriteTemporary, call, ghost
<1>10. CASE AppendLedger(p)
  BY <1>10 DEF AppendLedger, call, ghost
<1>11. CASE Settle(p)
  BY <1>11 DEF Settle, disk, call, ghost
<1>12. CASE Return(p)
  BY <1>12 DEF Return, disk
<1>13. CASE Kill(p)
  BY <1>13 DEF Kill, disk
<1>14. CASE Replace(p)
  BY <1>14 DEF Replace, call, ghost
<1> QED  BY <1>1, <1>2, <1>3, <1>4, <1>5, <1>6, <1>7, <1>8, <1>9, <1>10, <1>11, <1>12, <1>13, <1>14 DEF Step

LEMMA QuietKeepsSource ==
  ASSUME NEW k \in Key, Quiet(k), NEW f \in Putter, Source(k, f)
  PROVE  Source(k, f)'
  BY DEF Quiet, Source

LEMMA OldBlobsStep ==
  ASSUME WholeIInv, SourceIInv, NEW p \in Proc, Step(p)
  PROVE  OldBlobsKept' /\ Unseen'
<1> USE DEF Go, Leave, WholeIInv, TypeOK, SourceIInv, OldBlobsKept, Unseen, Missing, Shown
<1> USE CacheAssumption
<1>1. ASSUME NEW j \in Key, Ask(p, j) PROVE OldBlobsKept' /\ Unseen'
  BY <1>1 DEF Ask, disk, ghost
<1>2. CASE Hit(p)
  BY <1>2 DEF Hit, IsHit, disk, ghost
<1>3. CASE Recover(p)
  <2>1. /\ UNCHANGED <<given, key, reply>> /\ \A q \in Proc \ {p} : pc'[q] = pc[q]
        /\ pc[p] = "recover" /\ pc'[p] = "return" /\ key[p] \in Key /\ reply[p] \in Reply
    BY <1>3 DEF Recover, Whole, Holding, call, ghost
  <2>2. \A k \in Key : cache'[k] = cache[k] \/ (k = key[p] /\ cache'[k] = Blob(reply[p], TRUE))
    BY <1>3 DEF Recover
  <2>3. /\ Blob(reply[p], TRUE) # None /\ Blob(reply[p], TRUE).text = reply[p]
        /\ Blob(reply[p], TRUE).counts
    BY <2>1, BlobIsAFile
  <2>4. OldBlob[key[p]] # None /\ reply[p] = OldBlob[key[p]]
    BY <2>1
  <2> HIDE DEF Go, Leave, WholeIInv, TypeOK
  <2>5. ASSUME NEW k \in Key, cache'[k] = None
        PROVE  given'[k] = {} /\ \A q \in Proc : ~Shown(q, k)'
    <3>1. cache[k] = None
      BY <2>2, <2>3, <2>5
    <3>2. given[k] = {} /\ \A q \in Proc : ~Shown(q, k)
      BY <3>1
    <3> QED  BY <2>1, <2>2, <2>3, <2>5, <3>2
  <2>6. ASSUME NEW k \in Key, OldBlob[k] # None
        PROVE  cache'[k] # None /\ cache'[k].text = OldBlob[k] /\ \A q \in Proc : ~Missing(q, k)'
    <3>1. cache[k] # None /\ cache[k].text = OldBlob[k] /\ \A q \in Proc : ~Missing(q, k)
      BY <2>6
    <3> QED  BY <2>1, <2>2, <2>3, <2>4, <2>6, <3>1
  <2>7. ASSUME NEW k \in Key, cache'[k] # None, ~cache'[k].counts
        PROVE  OldBlob[k] # None
    BY <2>2, <2>3, <2>7
  <2>8. ASSUME NEW k \in Key, NEW q \in Proc, key'[q] = k, pc'[q] = "recover"
        PROVE  OldBlob[k] # None /\ reply'[q] = OldBlob[k]
    BY <2>1, <2>8
  <2> QED  BY <2>5, <2>6, <2>7, <2>8
<1>4. CASE Miss(p)
  BY <1>4 DEF Miss, IsHit, disk, call, ghost
<1>5. CASE Check(p)
  BY <1>5 DEF Check, disk, call, ghost
<1>6. ASSUME NEW r \in Reply, Answered(p, r) PROVE OldBlobsKept' /\ Unseen'
  BY <1>6 DEF Answered, disk
<1>7. CASE Unanswered(p)
  BY <1>7 DEF Unanswered, disk, ghost
<1>8. CASE OpenTemporary(p)
  BY <1>8 DEF OpenTemporary, Open, call, ghost
<1>9. CASE WriteTemporary(p)
  BY <1>9 DEF WriteTemporary, call, ghost
<1>10. CASE Replace(p)
  <2>1. /\ UNCHANGED <<given, key, reply>> /\ \A q \in Proc \ {p} : pc'[q] = pc[q]
        /\ pc[p] = "replace" /\ pc'[p] = "log" /\ key[p] \in Key
        /\ tmp[p] = reply[p] /\ reply[p] \in Reply
    BY <1>10 DEF Replace, Whole, Holding, call, ghost
  <2>2. /\ cache'[key[p]] = Blob(reply[p], TRUE)
        /\ \A k \in Key \ {key[p]} : cache'[k] = cache[k]
    BY <1>10, <2>1 DEF Replace
  <2>3. /\ Blob(reply[p], TRUE) # None /\ Blob(reply[p], TRUE).text = reply[p]
        /\ Blob(reply[p], TRUE).counts
    BY <2>1, BlobIsAFile
  <2>4. OldBlob[key[p]] = None
    BY <2>1
  <2> HIDE DEF Go, Leave, WholeIInv, TypeOK
  <2>5. ASSUME NEW k \in Key, cache'[k] = None
        PROVE  given'[k] = {} /\ \A q \in Proc : ~Shown(q, k)'
    <3>1. cache[k] = None
      BY <2>2, <2>3, <2>5
    <3>2. given[k] = {} /\ \A q \in Proc : ~Shown(q, k)
      BY <3>1
    <3> QED  BY <2>1, <2>2, <2>3, <2>5, <3>2
  <2>6. ASSUME NEW k \in Key, OldBlob[k] # None
        PROVE  cache'[k] # None /\ cache'[k].text = OldBlob[k] /\ \A q \in Proc : ~Missing(q, k)'
    <3>1. cache[k] # None /\ cache[k].text = OldBlob[k] /\ \A q \in Proc : ~Missing(q, k)
      BY <2>6
    <3> QED  BY <2>1, <2>2, <2>3, <2>4, <2>6, <3>1
  <2>7. ASSUME NEW k \in Key, cache'[k] # None, ~cache'[k].counts
        PROVE  OldBlob[k] # None
    BY <2>2, <2>3, <2>7
  <2>8. ASSUME NEW k \in Key, NEW q \in Proc, key'[q] = k, pc'[q] = "recover"
        PROVE  OldBlob[k] # None /\ reply'[q] = OldBlob[k]
    BY <2>1, <2>8
  <2> QED  BY <2>5, <2>6, <2>7, <2>8
<1>11. CASE AppendLedger(p)
  BY <1>11 DEF AppendLedger, call, ghost
<1>12. CASE Settle(p)
  BY <1>12 DEF Settle, disk, call, ghost
<1>13. CASE Return(p)
  BY <1>13 DEF Return, disk
<1>14. CASE Kill(p)
  BY <1>14 DEF Kill, disk
<1> QED  BY <1>1, <1>2, <1>3, <1>4, <1>5, <1>6, <1>7, <1>8, <1>9, <1>10, <1>11, <1>12,
            <1>13, <1>14 DEF Step

LEMMA ReplacedKeyHasSource ==
  ASSUME WholeIInv, SourceIInv, NEW p \in Proc, Replace(p), NEW k \in Key, key[p] = k
  PROVE  \E f \in Putter : Source(k, f)'
<1>1. /\ k \in Key /\ reply[p] \in Reply /\ tmp[p] = reply[p] /\ Missing(p, k)
      /\ cache'[k].text = reply[p] /\ UNCHANGED <<key, reply, given>>
      /\ pc[p] = "replace" /\ pc'[p] = "log" /\ \A q \in Proc \ {p} : pc'[q] = pc[q]
  BY BlobIsAFile DEF Replace, Go, Missing, WholeIInv, TypeOK, Whole, Holding, call, ghost
<1>2. PICK g \in Putter :
        /\ g[p] = None
        /\ \A q \in Proc : Missing(q, k) => g[q] = None
        /\ \A r \in given[k] : \E q \in Proc : g[q] = r
        /\ \A q \in Proc : Shown(q, k) => \E o \in Proc : g[o] = reply[q]
  <2>1. CASE cache[k] = None
    <3>1. [q \in Proc |-> None] \in Putter
      BY DEF Putter
    <3>2. given[k] = {} /\ \A q \in Proc : ~Shown(q, k)
      BY <1>1, <2>1 DEF SourceIInv, Unseen
    <3> QED  BY <3>1, <3>2
  <2>2. CASE cache[k] # None
    BY <1>1, <2>2 DEF SourceIInv, Sourced, Source
  <2> QED  BY <2>1, <2>2
<1> DEFINE f == [g EXCEPT ![p] = reply[p]]
<1>3. f \in Putter /\ f[p] = reply[p] /\ \A q \in Proc \ {p} : f[q] = g[q]
  BY <1>1, <1>2 DEF Putter
<1>4. given[k] \subseteq Reply /\ \A q \in Proc : Shown(q, k) => reply[q] \in Reply
  BY <1>1 DEF WholeIInv, Whole, Holding, Shown
<1>5. \A r \in Reply : (\E q \in Proc : g[q] = r) => \E q \in Proc : f[q] = r
  BY <1>2, <1>3, CacheAssumption
<1> HIDE DEF f
<1>6. \A q \in Proc : Missing(q, k)' => f[q] = None
  BY <1>1, <1>2, <1>3 DEF Missing
<1>7. \A r \in given'[k] : \E q \in Proc : f[q] = r
  BY <1>1, <1>2, <1>4, <1>5
<1>8. \A q \in Proc : Shown(q, k)' => \E o \in Proc : f[o] = reply'[q]
  <2> SUFFICES ASSUME NEW q \in Proc, Shown(q, k)' PROVE \E o \in Proc : f[o] = reply[q]
    BY <1>1
  <2>1. CASE q = p
    BY <1>3, <2>1
  <2>2. CASE q # p
    BY <1>1, <1>2, <1>4, <1>5, <2>2 DEF Shown
  <2> QED  BY <2>1, <2>2
<1> QED  BY <1>1, <1>3, <1>6, <1>7, <1>8 DEF Source

LEMMA SourceStep ==
  ASSUME WholeIInv, SourceIInv, [Next]_vars
  PROVE  SourceIInv'
<1>1. ASSUME NEW p \in Proc, Step(p) PROVE SourceIInv'
  <2>1. ASSUME NEW k \in Key, cache'[k] # None PROVE \E f \in Putter : Source(k, f)'
    <3>1. CASE Replace(p) /\ key[p] = k
      BY <3>1, ReplacedKeyHasSource
    <3>2. CASE ~(Replace(p) /\ key[p] = k) /\ cache[k] # None
      <4>1. Quiet(k)
        BY <1>1, <3>2, QuietSteps
      <4>2. PICK f \in Putter : Source(k, f)
        BY <3>2 DEF SourceIInv, Sourced
      <4> QED  BY <4>1, <4>2, QuietKeepsSource
    <3>3. CASE ~(Replace(p) /\ key[p] = k) /\ cache[k] = None
      <4>1. cache'[k] = cache[k]
        <5>1. CASE Recover(p)
          <6>1. pc[p] = "recover" /\ key[p] # k
            BY <5>1, <3>3 DEF Recover, Go, SourceIInv, Unseen, Shown
          <6> QED  BY <5>1, <6>1, <3>3 DEF Recover, WholeIInv, TypeOK
        <5>2. CASE Replace(p)
          BY <5>2, <3>3 DEF Replace, WholeIInv, TypeOK
        <5>3. CASE ~Recover(p) /\ ~Replace(p)
          BY <1>1, <5>3 DEF Step, Ask, Hit, Miss, Check, Answered, Unanswered, OpenTemporary,
             Open, WriteTemporary, AppendLedger, Settle, Return, Kill, disk
        <5> QED  BY <5>1, <5>2, <5>3
      <4> QED  BY <2>1, <3>3, <4>1
    <3> QED  BY <3>1, <3>2, <3>3
  <2> QED  BY <1>1, <2>1, OldBlobsStep DEF SourceIInv, Sourced
<1>2. CASE UNCHANGED vars
  BY <1>2 DEF SourceIInv, OldBlobsKept, Unseen, Sourced, Source, Missing, Shown,
     vars, disk, call, ghost
<1> QED  BY <1>1, <1>2 DEF Next

LEMMA SourceHolds == Spec => []SourceIInv
<1>1. Init => SourceIInv
  <2> SUFFICES ASSUME Init PROVE SourceIInv
    OBVIOUS
  <2>1. OldBlobsKept /\ Unseen
    BY BlobIsAFile, CacheAssumption DEF Init, OldBlobsKept, Unseen, Missing, Shown
  <2>2. ASSUME NEW k \in Key, cache[k] # None PROVE \E f \in Putter : Source(k, f)
    <3>1. cache[k] = Blob(OldBlob[k], FALSE) /\ OldBlob[k] \in Reply
      BY <2>2, CacheAssumption DEF Init
    <3>2. cache[k].text = OldBlob[k]
      BY <3>1, BlobIsAFile
    <3>3. [q \in Proc |-> OldBlob[k]] \in Putter
      BY <3>1 DEF Putter
    <3> QED  BY <3>2, <3>3, CacheAssumption DEF Init, Source, Missing, Shown
  <2> QED  BY <2>1, <2>2 DEF SourceIInv, Sourced
<1>2. WholeIInv /\ SourceIInv /\ [Next]_vars => SourceIInv'
  BY SourceStep
<1> QED  BY <1>1, <1>2, WholeHolds, PTL DEF Spec

(* "The draw at round k is a function of (task, seed, k) alone" holds for  *)
(* one driver; with several a key has at most one reply for each, because  *)
(* each writes it at most once, whatever is killed in between.             *)
THEOREM OneReplyPerDriver == Spec => []RepliesPerKey
<1>1. WholeIInv /\ SourceIInv => RepliesPerKey
  <2> SUFFICES ASSUME WholeIInv, SourceIInv, NEW k \in Key
               PROVE  Cardinality(given[k]) <= Cardinality(Proc)
    BY DEF RepliesPerKey
  <2>1. CASE cache[k] = None
    <3>1. given[k] = {}
      BY <2>1 DEF SourceIInv, Unseen
    <3> QED  BY <3>1, FS_EmptySet, FS_CardinalityType, CacheAssumption
  <2>2. CASE cache[k] # None
    <3>1. PICK f \in Putter : \A r \in given[k] : \E p \in Proc : f[p] = r
      BY <2>2 DEF SourceIInv, Sourced, Source
    <3> DEFINE writer == [r \in given[k] |-> CHOOSE p \in Proc : f[p] = r]
    <3>2. \A r \in given[k] : writer[r] \in Proc /\ f[writer[r]] = r
      BY <3>1
    <3>3. writer \in [given[k] -> Proc]
      BY <3>2
    <3>4. writer \in Injection(given[k], Proc)
      BY <3>2, <3>3 DEF Injection, IsInjective
    <3> QED  BY <3>4, FS_Injection, CacheAssumption
  <2> QED  BY <2>1, <2>2
<1> QED  BY <1>1, WholeHolds, SourceHolds, PTL


-----------------------------------------------------------------------------
(* Payments.  Who may still pay for a key: a driver that has missed it, or *)
(* may still miss it because it has no file; not one that has just paid    *)
(* and is about to put the reply in place.                                 *)
MayPay(k) ==
  {p \in Proc :
     \/ key[p] = k /\ pc[p] \in {"check", "call"}
     \/ cache[k] = None /\ ~(key[p] = k /\ pc[p] \in {"open", "write", "replace"})}

Paid == \A k \in Key : bought[k] + Cardinality(MayPay(k)) <= Cardinality(Proc) + kills

LEMMA PayersAreFinite ==
  ASSUME NEW k
  PROVE  /\ IsFiniteSet(MayPay(k)) /\ Cardinality(MayPay(k)) \in Nat
         /\ Cardinality(MayPay(k)) <= Cardinality(Proc) /\ Cardinality(Proc) \in Nat
<1>1. MayPay(k) \subseteq Proc
  BY DEF MayPay
<1> QED  BY <1>1, FS_Subset, FS_CardinalityType, CacheAssumption

(* A payment uses up the driver that makes it; a kill gives one back; no   *)
(* other step gives any driver a payment it had not already.               *)
LEMMA PayersStep ==
  ASSUME WholeIInv, NEW p \in Proc, Step(p), NEW k \in Key
  PROVE  \/ bought'[k] = bought[k] + 1 /\ p \in MayPay(k) /\ MayPay(k)' \subseteq MayPay(k) \ {p}
            /\ kills' = kills
         \/ bought'[k] = bought[k] /\ MayPay(k)' \subseteq MayPay(k) \cup {p} /\ kills' = kills + 1
         \/ bought'[k] = bought[k] /\ MayPay(k)' \subseteq MayPay(k) /\ kills' = kills
<1> USE DEF Go, Leave, WholeIInv, TypeOK, MayPay
<1>1. ASSUME NEW j \in Key, Ask(p, j)
      PROVE  bought'[k] = bought[k] /\ MayPay(k)' \subseteq MayPay(k) /\ kills' = kills
  BY <1>1 DEF Ask, disk, ghost
<1>2. CASE Hit(p)
  BY <1>2 DEF Hit, IsHit, disk, ghost
<1>3. CASE Recover(p)
  <2>1. /\ UNCHANGED <<bought, kills, key>> /\ pc[p] = "recover" /\ pc'[p] = "return"
        /\ \A q \in Proc \ {p} : pc'[q] = pc[q]
    BY <1>3 DEF Recover, call, ghost
  <2>2. cache'[k] = None => cache[k] = None
    <3>1. Blob(reply[p], TRUE) # None
      BY <2>1, BlobIsAFile DEF Whole, Holding
    <3> QED  BY <1>3, <3>1 DEF Recover
  <2> HIDE DEF Go, Leave, WholeIInv, TypeOK
  <2> QED  BY <2>1, <2>2
<1>4. CASE Miss(p)
  BY <1>4 DEF Miss, IsHit, disk, call, ghost
<1>5. CASE Check(p)
  BY <1>5 DEF Check, disk, call, ghost
<1>6. ASSUME NEW r \in Reply, Answered(p, r)
      PROVE  \/ bought'[k] = bought[k] + 1 /\ p \in MayPay(k) /\ MayPay(k)' \subseteq MayPay(k) \ {p}
                /\ kills' = kills
             \/ bought'[k] = bought[k] /\ MayPay(k)' \subseteq MayPay(k) /\ kills' = kills
  BY <1>6 DEF Answered, disk
<1>7. CASE Unanswered(p)
  BY <1>7 DEF Unanswered, disk, ghost
<1>8. CASE OpenTemporary(p)
  BY <1>8 DEF OpenTemporary, Open, call, ghost
<1>9. CASE WriteTemporary(p)
  BY <1>9 DEF WriteTemporary, call, ghost
<1>10. CASE Replace(p)
  <2>1. /\ UNCHANGED <<bought, kills, key>> /\ pc[p] = "replace" /\ pc'[p] = "log"
        /\ \A q \in Proc \ {p} : pc'[q] = pc[q]
    BY <1>10 DEF Replace, call, ghost
  <2>2. cache'[k] = None => cache[k] = None /\ key[p] # k
    <3>1. Blob(tmp[p], TRUE) # None
      BY <2>1, BlobIsAFile DEF Whole, Holding
    <3> QED  BY <1>10, <3>1 DEF Replace
  <2> HIDE DEF Go, Leave, WholeIInv, TypeOK
  <2> QED  BY <2>1, <2>2
<1>11. CASE AppendLedger(p)
  BY <1>11 DEF AppendLedger, call, ghost
<1>12. CASE Settle(p)
  BY <1>12 DEF Settle, disk, call, ghost
<1>13. CASE Return(p)
  BY <1>13 DEF Return, disk
<1>14. CASE Kill(p)
  BY <1>14 DEF Kill, disk
<1> QED  BY <1>1, <1>2, <1>3, <1>4, <1>5, <1>6, <1>7, <1>8, <1>9, <1>10, <1>11, <1>12,
            <1>13, <1>14 DEF Step

LEMMA PaidStep ==
  ASSUME WholeIInv, Paid, [Next]_vars
  PROVE  Paid'
<1>1. ASSUME NEW p \in Proc, Step(p), NEW k \in Key
      PROVE  bought'[k] + Cardinality(MayPay(k)') <= Cardinality(Proc) + kills'
  <2> DEFINE S == MayPay(k)
             T == MayPay(k)'
  <2>1. /\ bought[k] + Cardinality(S) <= Cardinality(Proc) + kills
        /\ bought[k] \in Nat /\ kills \in Nat
        /\ IsFiniteSet(S) /\ Cardinality(S) \in Nat /\ Cardinality(Proc) \in Nat
    BY PayersAreFinite DEF Paid, WholeIInv, TypeOK
  <2>2. \/ bought'[k] = bought[k] + 1 /\ p \in S /\ T \subseteq S \ {p} /\ kills' = kills
        \/ bought'[k] = bought[k] /\ T \subseteq S \cup {p} /\ kills' = kills + 1
        \/ bought'[k] = bought[k] /\ T \subseteq S /\ kills' = kills
    BY <1>1, PayersStep DEF WholeIInv
  <2> HIDE DEF S, T
  <2>3. CASE bought'[k] = bought[k] + 1 /\ p \in S /\ T \subseteq S \ {p} /\ kills' = kills
    <3>1. IsFiniteSet(S \ {p}) /\ Cardinality(S \ {p}) = Cardinality(S) - 1
      BY <2>1, <2>3, FS_RemoveElement
    <3>2. Cardinality(T) <= Cardinality(S \ {p}) /\ Cardinality(T) \in Nat
      BY <2>3, <3>1, FS_Subset, FS_CardinalityType
    <3> QED  BY <2>1, <2>3, <3>1, <3>2 DEF T
  <2>4. CASE bought'[k] = bought[k] /\ T \subseteq S \cup {p} /\ kills' = kills + 1
    <3>1. /\ IsFiniteSet(S \cup {p}) /\ Cardinality(S \cup {p}) \in Nat
          /\ Cardinality(S \cup {p}) <= Cardinality(S) + 1
      <4>1. /\ IsFiniteSet(S \cup {p})
            /\ Cardinality(S \cup {p}) = Cardinality(S) \/ Cardinality(S \cup {p}) = Cardinality(S) + 1
        BY <2>1, FS_AddElement
      <4> QED  BY <2>1, <4>1
    <3>2. Cardinality(T) <= Cardinality(S \cup {p}) /\ Cardinality(T) \in Nat
      BY <2>4, <3>1, FS_Subset, FS_CardinalityType
    <3> QED  BY <2>1, <2>4, <3>1, <3>2 DEF T
  <2>5. CASE bought'[k] = bought[k] /\ T \subseteq S /\ kills' = kills
    <3>1. Cardinality(T) <= Cardinality(S) /\ Cardinality(T) \in Nat
      BY <2>1, <2>5, FS_Subset, FS_CardinalityType
    <3> QED  BY <2>1, <2>5, <3>1 DEF T
  <2> QED  BY <2>2, <2>3, <2>4, <2>5
<1>2. CASE UNCHANGED vars
  BY <1>2 DEF Paid, MayPay, vars, disk, call, ghost
<1> QED  BY <1>1, <1>2 DEF Next, Paid

(* "Re-running a cell still replays from cache for free": a key is paid    *)
(* for once per driver and once more per kill, whatever the interleaving.  *)
THEOREM KeysArePaidOnce == Spec => []PaymentsPerKey
<1>1. Init => Paid
  BY PayersAreFinite DEF Init, Paid
<1>2. WholeIInv /\ Paid /\ [Next]_vars => Paid'
  BY PaidStep
<1>3. WholeIInv /\ Paid => PaymentsPerKey
  BY PayersAreFinite DEF WholeIInv, TypeOK, Paid, PaymentsPerKey
<1> QED  BY <1>1, <1>2, <1>3, WholeHolds, PTL DEF Spec

=============================================================================
