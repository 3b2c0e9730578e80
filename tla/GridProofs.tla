----------------------------- MODULE GridProofs -----------------------------
(***************************************************************************)
(* Theorems about the grid: for every number of presets, tasks, shards     *)
(* and machines, and any faults.                                           *)
(***************************************************************************)
EXTENDS Grid, NaturalsInduction, WellFoundedInduction, TLAPS

(* Every non-empty set of naturals has a least element.                    *)
LEMMA LeastNumber ==
  ASSUME NEW T, T \subseteq Nat, T # {}
  PROVE  \E m \in T : \A n \in T : m <= n
<1> DEFINE Less == {ss \in Nat \X Nat : ss[1] < ss[2]}
<1>1. IsWellFoundedOn(Less, Nat)
  BY NatLessThanWellFounded DEF OpToRel
<1>2. \E m \in T : \A n \in T : ~(<<n, m>> \in Less)
  <2> HIDE DEF Less
  <2> QED  BY <1>1, WFMin
<1>3. \A m, n \in Nat : ~(<<n, m>> \in Less) => m <= n
  OBVIOUS
<1> QED  BY <1>2, <1>3

-----------------------------------------------------------------------------
(* The inductive invariant: what the shard logs and the merged log hold of *)
(* a cell, and what a merge is writing of it, is a sequence of rounds,     *)
(* without gaps.                                                           *)
IsSequence(s) == \E T : s \in Seq(T)

GridIInv ==
  /\ logs \in [File -> [Cell -> Seq(BOOLEAN)]]
  /\ \A c \in Cell : IsSequence(merged[c]) /\ IsSequence(kept[c])

(* The numbers at hand form an interval if each implies those before it.   *)
LEMMA InitialSegment ==
  ASSUME NEW N \in Nat, NEW D, D \subseteq 1..N,
         \A n \in D : \A m \in 1..n : m \in D
  PROVE  \E k \in Nat : D = 1..k
<1> DEFINE Ends == {k \in Nat : k + 1 \notin D}
<1>1. N \in Ends
  OBVIOUS
<1>2. PICK k \in Ends : \A n \in Ends : k <= n
  <2> HIDE DEF Ends
  <2>1. Ends \subseteq Nat
    BY DEF Ends
  <2> QED  BY <1>1, <2>1, LeastNumber
<1>3. ASSUME NEW n \in 1..k
      PROVE  n \in D
  <2>1. n - 1 \in Nat /\ n - 1 < k
    BY <1>2
  <2>2. n - 1 \notin Ends
    BY <1>2, <2>1
  <2> QED  BY <2>1, <2>2
<1>4. ASSUME NEW n \in D
      PROVE  n <= k
  <2>1. SUFFICES ASSUME k + 1 <= n PROVE FALSE
    BY <1>2
  <2>2. k + 1 \in 1..n
    BY <1>2, <2>1
  <2> QED  BY <1>2, <2>2
<1>5. k \in Nat /\ D \subseteq Nat /\ \A n \in D : n >= 1
  BY <1>2
<1>6. D = 1..k
  <2> HIDE DEF Ends
  <2>1. ASSUME NEW n \in D PROVE n \in 1..k
    BY <1>4, <1>5
  <2> QED  BY <1>3, <2>1
<1> QED  BY <1>5, <1>6

(* What the shards hold of a cell, the last file winning round by round,   *)
(* has no gap: every file starts with the first round.                     *)
LEMMA ShardRowsAreSequences ==
  ASSUME GridAssumption, GridIInv, NEW c \in Cell
  PROVE  IsSequence(ShardRows[c])
<1> DEFINE D == {n \in 1..Budget : Holders(c, n) # {}}
           s == ShardRows[c]
<1>1. Budget \in Nat
  BY DEF GridAssumption
<1>2. ASSUME NEW n \in D, NEW m \in 1..n
      PROVE  m \in D
  <2>1. PICK f \in File : n \in DOMAIN logs[f][c]
    BY DEF Holders
  <2>2. logs[f][c] \in Seq(BOOLEAN)
    BY DEF GridIInv
  <2>3. m \in DOMAIN logs[f][c]
    BY <2>1, <2>2
  <2>4. m \in 1..Budget
    BY <1>1
  <2> QED  BY <2>3, <2>4 DEF Holders
<1>3. PICK k \in Nat : D = 1..k
  <2>1. D \subseteq 1..Budget
    OBVIOUS
  <2> HIDE DEF D
  <2> QED  BY <1>1, <1>2, <2>1, InitialSegment
<1>4. s = [n \in D |-> s[n]]
  BY DEF ShardRows
<1>5. s = [n \in 1..k |-> s[n]]
  BY <1>3, <1>4
<1>6. s \in Seq({s[n] : n \in 1..k})
  <2> HIDE DEF s
  <2> QED  BY <1>5
<1> QED  BY <1>6 DEF IsSequence

(* Writing rows over rows keeps every round of both.                       *)
LEMMA OverwriteKeeps ==
  ASSUME NEW older, NEW newer, NEW c \in Cell,
         IsSequence(older[c]), IsSequence(newer[c])
  PROVE  /\ IsSequence(Overwrite(older, newer)[c])
         /\ Len(Overwrite(older, newer)[c]) >= Len(older[c])
<1>1. PICK T : older[c] \in Seq(T)
  BY DEF IsSequence
<1>2. PICK U : newer[c] \in Seq(U)
  BY DEF IsSequence
<1> DEFINE a == older[c]
           b == newer[c]
           rest == SubSeq(a, Len(b) + 1, Len(a))
<1>3. Overwrite(older, newer)[c] = b \o rest
  BY DEF Overwrite
<1>4. a \in Seq(T \cup U) /\ b \in Seq(T \cup U)
  BY <1>1, <1>2
<1> HIDE DEF a, b
<1>5. rest \in Seq(T \cup U)
  BY <1>4
<1>6. Len(rest) = IF Len(b) + 1 <= Len(a) THEN Len(a) - Len(b) ELSE 0
  BY <1>4
<1>7. b \o rest \in Seq(T \cup U) /\ Len(b \o rest) = Len(b) + Len(rest)
  <2> HIDE DEF rest
  <2> QED  BY <1>4, <1>5
<1>8. Len(a) \in Nat /\ Len(b) \in Nat
  BY <1>4
<1>9. Len(b \o rest) >= Len(a)
  BY <1>6, <1>7, <1>8
<1> QED  BY <1>3, <1>7, <1>9 DEF a, IsSequence

-----------------------------------------------------------------------------
LEMMA NoRowsAreSequences ==
  /\ NoRows \in [Cell -> Seq(BOOLEAN)]
  /\ \A c \in Cell : IsSequence(NoRows[c]) /\ Len(NoRows[c]) = 0
<1>1. NoRows \in [Cell -> Seq(BOOLEAN)]
  BY DEF NoRows
<1>2. \A c \in Cell : Len(NoRows[c]) = 0
  BY DEF NoRows
<1> QED  BY <1>1, <1>2 DEF IsSequence

LEMMA GridInitIInv == GridInit => GridIInv
  BY NoRowsAreSequences DEF GridInit, GridIInv

(* A log cut short has of each cell the first rounds it had.               *)
LEMMA FirstRowsOf ==
  ASSUME GridAssumption, NEW upto \in Cuts, NEW rows, NEW c \in Cell, IsSequence(rows[c])
  PROVE  LET short == FirstRows(rows, upto)[c]
         IN  /\ IsSequence(short)
             /\ DOMAIN short = 1..Len(short) /\ Len(short) \in Nat
             /\ Len(short) <= Len(rows[c])
             /\ \A k \in DOMAIN short : k \in DOMAIN rows[c] /\ short[k] = rows[c][k]
<1> DEFINE s == rows[c]
           n == IF upto[c] <= Len(s) THEN upto[c] ELSE Len(s)
<1>1. PICK T : s \in Seq(T)
  BY DEF IsSequence
<1>2. upto[c] \in Nat
  BY DEF GridAssumption
<1>3. FirstRows(rows, upto)[c] = SubSeq(s, 1, n)
  BY DEF FirstRows
<1> HIDE DEF s
<1>4. n \in Nat /\ n <= Len(s)
  BY <1>1, <1>2
<1> HIDE DEF n
<1>5. /\ SubSeq(s, 1, n) \in Seq(T) /\ Len(SubSeq(s, 1, n)) = n
      /\ DOMAIN SubSeq(s, 1, n) = 1..n
      /\ \A k \in 1..n : k \in DOMAIN s /\ SubSeq(s, 1, n)[k] = s[k]
  BY <1>1, <1>4
<1> QED  BY <1>3, <1>4, <1>5 DEF s, IsSequence

(* A merge has all of the merged log in hand when it is listed; by hand,   *)
(* the shard logs alone are merged only if they hold as much, unless that  *)
(* is forced.                                                              *)
LEMMA MergesKeep ==
  ASSUME GridAssumption, GridIInv,
         \/ Consolidate /\ stage' = "merge"
         \/ \E force \in BOOLEAN : MergeByHand(force)
  PROVE  /\ stage \in {"preset", "idle"} /\ stage' \in {"merge", "byhand"}
         /\ logs' = logs /\ merged' = NoRows
         /\ \A c \in Cell : IsSequence(kept'[c])
         /\ forced' \/ \A c \in Cell : Len(kept'[c]) >= Len(merged[c])
<1>1. CASE Consolidate /\ stage' = "merge"
  <2>1. stage = "preset" /\ logs' = logs /\ merged' = NoRows /\ kept' = MergedFirst
    BY <1>1 DEF Consolidate, OpenMerged, End, Idle
  <2>2. ASSUME NEW c \in Cell
        PROVE  IsSequence(kept'[c]) /\ Len(kept'[c]) >= Len(merged[c])
    <3>1. IsSequence(merged[c])
      BY DEF GridIInv
    <3> QED  BY <2>1, <3>1, ShardRowsAreSequences, OverwriteKeeps DEF MergedFirst
  <2> QED  BY <1>1, <2>1, <2>2
<1>2. ASSUME NEW force \in BOOLEAN, MergeByHand(force)
      PROVE  /\ stage \in {"preset", "idle"} /\ stage' \in {"merge", "byhand"}
             /\ logs' = logs /\ merged' = NoRows
             /\ \A c \in Cell : IsSequence(kept'[c])
             /\ forced' \/ \A c \in Cell : Len(kept'[c]) >= Len(merged[c])
  <2>1. /\ stage = "idle" /\ stage' = "byhand" /\ logs' = logs
        /\ merged' = NoRows /\ kept' = ShardRows
        /\ forced' <=> (forced \/ Orphans # {})
    BY <1>2 DEF MergeByHand, OpenMerged
  <2>2. \A c \in Cell : IsSequence(kept'[c])
    BY <2>1, ShardRowsAreSequences
  <2>3. ASSUME Orphans = {}, NEW c \in Cell
        PROVE  Len(kept'[c]) >= Len(merged[c])
    <3>1. ~(Len(merged[c]) > Len(ShardRows[c]))
      BY <2>3 DEF Orphans
    <3>2. PICK T : merged[c] \in Seq(T)
      BY DEF GridIInv, IsSequence
    <3>3. PICK U : ShardRows[c] \in Seq(U)
      BY ShardRowsAreSequences DEF IsSequence
    <3>4. Len(merged[c]) \in Nat /\ Len(ShardRows[c]) \in Nat
      BY <3>2, <3>3
    <3> QED  BY <2>1, <3>1, <3>4
  <2> QED  BY <2>1, <2>2, <2>3
<1> QED  BY <1>1, <1>2

(* A round appended to rows, or written over one of them.                  *)
LEMMA RoundWritten ==
  ASSUME NEW S, NEW r \in Seq(S), NEW b \in S
  PROVE  /\ Append(r, b) \in Seq(S)
         /\ \A i \in DOMAIN r : [r EXCEPT ![i] = b] \in Seq(S)
OBVIOUS

(* The steps that neither open the merged log nor write it.                *)
Apart ==
  /\ UNCHANGED mergedVars
  /\ stage \in {"merge", "byhand"} <=> stage' \in {"merge", "byhand"}

LEMMA StepApart ==
  ASSUME [GridNext]_gridVars
  PROVE  \/ Apart /\ (logs' = logs \/ RunRound \/ \E f \in File : LoseLog(f))
         \/ Consolidate /\ stage' = "merge"
         \/ \E force \in BOOLEAN : MergeByHand(force)
         \/ FinishMerge \/ CutMerge
<1> USE DEF Apart
<1>1. ASSUME NEW m \in Machine, NEW n \in ShardCounts, Reproduce(m, n)
      PROVE  Apart /\ logs' = logs
  BY <1>1 DEF Reproduce, End, Idle
<1>2. ASSUME NEW f \in File, RunShard(f)
      PROVE  Apart /\ logs' = logs
  BY <1>2 DEF RunShard
<1>3. CASE SkipCell \/ ShardEnds \/ Recheck \/ StopShard \/ Kill
  BY <1>3 DEF SkipCell, ShardEnds, Recheck, StopShard, Kill, End, Idle, Walking
<1>4. CASE Consolidate
  <2>1. CASE stage' # "merge"
    BY <1>4, <2>1 DEF Consolidate, OpenMerged, End, Idle
  <2> QED  BY <1>4, <2>1
<1>5. CASE RunRound
  BY <1>5 DEF RunRound, Walking
<1>6. ASSUME NEW f \in File, LoseLog(f)
      PROVE  Apart
  BY <1>6 DEF LoseLog
<1>7. CASE UNCHANGED gridVars
  BY <1>7 DEF gridVars
<1> QED
  BY <1>1, <1>2, <1>3, <1>4, <1>5, <1>6, <1>7 DEF GridNext, Command

LEMMA GridStep ==
  ASSUME GridAssumption, GridIInv, [GridNext]_gridVars
  PROVE  GridIInv'
<1>1. logs' \in [File -> [Cell -> Seq(BOOLEAN)]]
  <2>1. CASE logs' = logs
    BY <2>1 DEF GridIInv
  <2>2. CASE RunRound
    <3> DEFINE rows == logs[shard][Current]
               longer == IF round + 1 \in DOMAIN rows THEN [rows EXCEPT ![round + 1] = Accepts]
                         ELSE Append(rows, Accepts)
    <3>1. logs' = [logs EXCEPT ![shard] = [logs[shard] EXCEPT ![Current] = longer]]
      BY <2>2 DEF RunRound
    <3>2. Accepts \in BOOLEAN
      BY DEF Accepts
    <3>3. ASSUME shard \in File, Current \in Cell
          PROVE  longer \in Seq(BOOLEAN)
      <4>1. rows \in Seq(BOOLEAN)
        BY <3>3 DEF GridIInv
      <4>2. /\ Append(rows, Accepts) \in Seq(BOOLEAN)
            /\ \A i \in DOMAIN rows : [rows EXCEPT ![i] = Accepts] \in Seq(BOOLEAN)
        <5> HIDE DEF rows
        <5> QED  BY <3>2, <4>1, RoundWritten
      <4> QED  BY <4>2
    <3> HIDE DEF longer
    <3> QED  BY <3>1, <3>3 DEF GridIInv
  <2>3. ASSUME NEW f \in File, LoseLog(f)
        PROVE  logs' \in [File -> [Cell -> Seq(BOOLEAN)]]
    BY <2>3, NoRowsAreSequences DEF LoseLog, GridIInv
  <2>4. FinishMerge \/ CutMerge => logs' = logs
    BY DEF FinishMerge, CutMerge
  <2> QED  BY <2>1, <2>2, <2>3, <2>4, StepApart, MergesKeep
<1>2. \A c \in Cell : IsSequence(merged'[c]) /\ IsSequence(kept'[c])
  <2>1. CASE UNCHANGED mergedVars
    BY <2>1 DEF mergedVars, GridIInv
  <2>2. CASE (Consolidate /\ stage' = "merge") \/ \E force \in BOOLEAN : MergeByHand(force)
    BY <2>2, MergesKeep, NoRowsAreSequences
  <2>3. CASE FinishMerge
    BY <2>3, NoRowsAreSequences DEF FinishMerge, GridIInv
  <2>4. CASE CutMerge
    <3>1. kept' = NoRows /\ (merged' = NoRows \/ \E upto \in Cuts : merged' = FirstRows(kept, upto))
      BY <2>4 DEF CutMerge
    <3>2. \A upto \in Cuts, c \in Cell : IsSequence(FirstRows(kept, upto)[c])
      BY FirstRowsOf DEF GridIInv
    <3> QED  BY <3>1, <3>2, NoRowsAreSequences
  <2> QED  BY <2>1, <2>2, <2>3, <2>4, StepApart DEF Apart
<1> QED  BY <1>1, <1>2 DEF GridIInv

LEMMA LogStep ==
  ASSUME GridAssumption, GridIInv, [GridNext]_gridVars
  PROVE  forced' \/ CutMerge \/ \A c \in Cell : Len(Log'[c]) >= Len(Log[c])
<1>1. ASSUME NEW c \in Cell
      PROVE  Len(Log[c]) >= Len(Log[c])
  <2>1. PICK T : Log[c] \in Seq(T)
    BY DEF GridIInv, IsSequence, Log
  <2> QED  BY <2>1
<1>2. CASE Log' = Log
  BY <1>1, <1>2
<1>3. Apart => Log' = Log
  BY DEF Apart, mergedVars, Log
<1>4. FinishMerge => Log' = Log
  BY DEF FinishMerge, Log
<1>5. CASE (Consolidate /\ stage' = "merge") \/ \E force \in BOOLEAN : MergeByHand(force)
  <2>1. Log = merged /\ Log' = kept'
    BY <1>5, MergesKeep DEF Log
  <2> QED  BY <1>5, <2>1, MergesKeep
<1> QED  BY <1>2, <1>3, <1>4, <1>5, StepApart

(* "Nothing already there is lost": whatever shards are cut, run, stopped, *)
(* lost and run again, on whatever machines, no merge drops a round of the *)
(* merged log unless it was forced; only a kill in the middle of a merge's *)
(* write does.                                                             *)
THEOREM MergesLoseNothing == GridSpec => RoundsKept
<1> DEFINE Kept == forced' \/ CutMerge \/ \A c \in Cell : Len(Log'[c]) >= Len(Log[c])
<1>1. GridInit => GridIInv
  BY GridInitIInv
<1>2. GridIInv /\ [GridNext]_gridVars => GridIInv'
  BY GridStep, GridAssumption
<1>3. GridIInv /\ [GridNext]_gridVars => [Kept]_gridVars
  BY LogStep, GridAssumption
<1> QED  BY <1>1, <1>2, <1>3, PTL DEF GridSpec, RoundsKept

-----------------------------------------------------------------------------
(* The ranges of a shard count: they stay in the universe and leave no     *)
(* task out.                                                               *)
LEMMA SizeType == \A n \in Nat \ {0} : Size(n) \in Nat \ {0}
<1> SUFFICES ASSUME NEW n \in Nat \ {0} PROVE Size(n) \in Nat \ {0}
  OBVIOUS
<1>1. \A a \in Nat, b \in Nat \ {0} : (a + b) \div b \in Nat \ {0}
  BY Z3
<1>2. (Tasks - 1) + n = Tasks + n - 1 /\ Tasks - 1 \in Nat
  BY GridAssumption
<1>3. (Tasks + n - 1) \div n \in Nat \ {0}
  BY <1>1, <1>2
<1> QED  BY <1>3 DEF Size

LEMMA RangeIn ==
  ASSUME NEW n \in Nat \ {0}, NEW i \in 0..(Tasks - 1) \div Size(n)
  PROVE  Size(n) * i + 1 \in 1..Tasks /\ Size(n) * (i + 1) \in Nat \ {0}
<1> PICK s \in Nat \ {0} : s = Size(n)
  BY SizeType
<1> PICK t \in Nat : t = Tasks - 1
  BY GridAssumption
<1>1. \A a \in Nat, b \in Nat \ {0} : a \div b \in Nat /\ b * (a \div b) <= a
  BY Z3
<1>2. t \div s \in Nat /\ s * (t \div s) <= t /\ i \in Nat /\ i <= t \div s
  BY <1>1
<1>3. \A b, x, y \in Nat : x <= y => b * x \in Nat /\ b * x <= b * y
  BY Z3
<1>4. s * i \in Nat /\ s * i <= s * (t \div s)
  BY <1>2, <1>3
<1>5. s * (i + 1) = s * i + s
  BY <1>2, Z3
<1>6. s * i <= t /\ s * (i + 1) \in Nat \ {0}
  BY <1>2, <1>4, <1>5
<1> QED  BY <1>4, <1>6, GridAssumption

LEMMA FileType ==
  ASSUME NEW f \in File
  PROVE  /\ f.preset \in 1..Presets
         /\ f.range = <<f.range[1], f.range[2]>>
         /\ f.range[1] \in 1..Tasks /\ f.range[2] \in 1..Tasks
         /\ f = [preset |-> f.preset, range |-> f.range]
<1>1. PICK n \in ShardCounts : f \in Shard(n)
  BY DEF File
<1>2. n \in Nat \ {0} /\ Tasks \in Nat \ {0}
  BY GridAssumption
<1>3. f.preset \in 1..Presets /\ f.range \in Ranges(n)
      /\ f = [preset |-> f.preset, range |-> f.range]
  BY <1>1 DEF Shard
<1>4. PICK i \in 0..(Tasks - 1) \div Size(n) :
        f.range = <<Size(n) * i + 1, IF Size(n) * (i + 1) > Tasks THEN Tasks ELSE Size(n) * (i + 1)>>
  BY <1>3 DEF Ranges
<1>5. Size(n) * i + 1 \in 1..Tasks /\ Size(n) * (i + 1) \in Nat \ {0}
  BY <1>2, RangeIn
<1> QED  BY <1>2, <1>3, <1>4, <1>5

LEMMA RangesCover ==
  ASSUME NEW n \in ShardCounts, NEW c \in Cell
  PROVE  \E f \in Shard(n) : f \in File /\ Holds(f, c)
<1>1. c.preset \in 1..Presets /\ c.task \in 1..Tasks
  BY DEF Cell
<1>2. n \in Nat \ {0} /\ Tasks \in Nat \ {0}
  BY GridAssumption
<1> PICK s \in Nat \ {0} : s = Size(n)
  BY <1>2, SizeType
<1> PICK t \in Nat : t = c.task - 1
  BY <1>1
<1> DEFINE i == t \div s
           lo == s * i + 1
           hi == IF s * (i + 1) > Tasks THEN Tasks ELSE s * (i + 1)
           f == [preset |-> c.preset, range |-> <<lo, hi>>]
<1>3. \A a \in Nat, b \in Nat \ {0} :
        a \div b \in Nat /\ b * (a \div b) <= a /\ a < b * ((a \div b) + 1)
  BY Z3
<1>4. i \in Nat /\ s * i <= t /\ t < s * (i + 1) /\ s * i \in Nat /\ s * (i + 1) \in Nat
  <2>1. i \in Nat /\ s * i <= t /\ t < s * (i + 1)
    BY <1>3
  <2>2. \A b, x \in Nat : b * x \in Nat
    BY Z3
  <2> QED  BY <2>1, <2>2
<1>5. i <= (Tasks - 1) \div s
  <2>1. \A a, d \in Nat, b \in Nat \ {0} : a <= d => a \div b <= d \div b
    BY Z3
  <2>2. Tasks - 1 \in Nat /\ t <= Tasks - 1
    BY <1>1, <1>2
  <2> QED  BY <2>1, <2>2
<1>6. i \in 0..(Tasks - 1) \div Size(n)
  BY <1>2, <1>3, <1>4, <1>5
<1> HIDE DEF i
<1>7. f \in Shard(n)
  BY <1>1, <1>6 DEF Shard, Ranges
<1>8. lo <= c.task /\ c.task <= hi
  BY <1>1, <1>4
<1>9. Holds(f, c)
  <2>1. lo \in Nat /\ hi \in Nat
    BY <1>2, <1>4
  <2> QED  BY <1>1, <1>8, <2>1 DEF Holds
<1> HIDE DEF f
<1> QED  BY <1>7, <1>9 DEF File

-----------------------------------------------------------------------------
(* Shard logs have an order: of any files, one is read last.               *)
LEMMA GreatestNumber ==
  ASSUME NEW N \in Nat, NEW T, T \subseteq 0..N, T # {}
  PROVE  \E m \in T : \A n \in T : n <= m
<1> DEFINE U == {N - x : x \in T}
<1>1. U \subseteq Nat /\ U # {}
  <2>1. PICK x \in T : TRUE
    OBVIOUS
  <2>2. N - x \in U
    OBVIOUS
  <2> QED  BY <2>2
<1>2. PICK u \in U : \A v \in U : u <= v
  <2> HIDE DEF U
  <2> QED  BY <1>1, LeastNumber
<1>3. PICK m \in T : u = N - m
  BY <1>2
<1>4. \A n \in T : N - m <= N - n
  BY <1>2, <1>3
<1> QED  BY <1>4

LEMMA LastFileIsOne ==
  ASSUME NEW fs, fs \subseteq File, fs # {}
  PROVE  LastFile(fs) \in fs
<1>1. Presets \in Nat /\ Tasks \in Nat
  BY GridAssumption
<1>2. \A g \in fs : /\ g.preset \in 0..Presets
                    /\ g.range[1] \in 0..Tasks /\ g.range[2] \in 0..Tasks
                    /\ g = [preset |-> g.preset, range |-> <<g.range[1], g.range[2]>>]
  BY <1>1, FileType
<1> DEFINE P == {g.preset : g \in fs}
<1>3. PICK p \in P : \A q \in P : q <= p
  <2>1. P \subseteq 0..Presets /\ P # {}
    BY <1>2
  <2> HIDE DEF P
  <2> QED  BY <1>1, <2>1, GreatestNumber
<1> DEFINE fs1 == {g \in fs : g.preset = p}
           L == {g.range[1] : g \in fs1}
<1>4. PICK l \in L : \A q \in L : q <= l
  <2>1. L \subseteq 0..Tasks /\ L # {}
    BY <1>2, <1>3
  <2> HIDE DEF L
  <2> QED  BY <1>1, <2>1, GreatestNumber
<1> DEFINE fs2 == {g \in fs1 : g.range[1] = l}
           H == {g.range[2] : g \in fs2}
<1>5. PICK h \in H : \A q \in H : q <= h
  <2>1. H \subseteq 0..Tasks /\ H # {}
    BY <1>2, <1>4
  <2> HIDE DEF H
  <2> QED  BY <1>1, <2>1, GreatestNumber
<1>6. PICK f \in fs2 : f.range[2] = h
  BY <1>5
<1>7. ASSUME NEW g \in fs \ {f}
      PROVE  FileBefore(g, f)
  <2>1. /\ g.preset \in Nat /\ g.range[1] \in Nat /\ g.range[2] \in Nat
        /\ p \in Nat /\ l \in Nat /\ h \in Nat
        /\ f.preset = p /\ f.range[1] = l /\ f.range[2] = h
    BY <1>2, <1>6
  <2>2. g.preset <= p
    BY <1>3
  <2>3. g.preset = p => g.range[1] <= l
    BY <1>4
  <2>4. g.preset = p /\ g.range[1] = l => g.range[2] <= h
    BY <1>5
  <2>5. ~(g.preset = p /\ g.range[1] = l /\ g.range[2] = h)
    BY <1>2, <1>6
  <2> QED  BY <2>1, <2>2, <2>3, <2>4, <2>5 DEF FileBefore
<1> QED  BY <1>6, <1>7 DEF LastFile

-----------------------------------------------------------------------------
(* What a merge of logs that nowhere differ is: each of its rounds is one  *)
(* of an input, and it has every round of every input.                     *)
IsLog(one) == \A c \in Cell : IsSequence(one[c]) /\ Len(one[c]) <= Budget

Overlays(inputs, out) ==
  \A c \in Cell :
    /\ \A k \in DOMAIN out[c] : \E a \in inputs : k \in DOMAIN a[c] /\ out[c][k] = a[c][k]
    /\ \A a \in inputs : \A k \in DOMAIN a[c] : k \in DOMAIN out[c] /\ out[c][k] = a[c][k]

LogsFit ==
  /\ \A f \in File : IsLog(logs[f])
  /\ IsLog(merged) /\ IsLog(kept)

LEMMA NoRowsFit == IsLog(NoRows)
  BY NoRowsAreSequences, GridAssumption DEF IsLog

LEMMA SequenceDomain ==
  ASSUME NEW s, IsSequence(s)
  PROVE  Len(s) \in Nat /\ DOMAIN s = 1..Len(s)
<1>1. PICK T : s \in Seq(T)
  BY DEF IsSequence
<1> QED  BY <1>1

LEMMA LogDomain ==
  ASSUME NEW one, IsLog(one), NEW c \in Cell
  PROVE  /\ Len(one[c]) \in Nat /\ DOMAIN one[c] = 1..Len(one[c])
         /\ DOMAIN one[c] \subseteq 1..Budget
<1>1. Len(one[c]) \in Nat /\ DOMAIN one[c] = 1..Len(one[c]) /\ Len(one[c]) <= Budget
  BY SequenceDomain DEF IsLog
<1> QED  BY <1>1, GridAssumption

LEMMA ShardRound ==
  ASSUME NEW c \in Cell, NEW k \in DOMAIN ShardRows[c]
  PROVE  \E f \in File : k \in DOMAIN logs[f][c] /\ ShardRows[c][k] = logs[f][c][k]
<1>1. k \in 1..Budget /\ Holders(c, k) # {} /\ Holders(c, k) \subseteq File
  BY DEF ShardRows, Holders
<1>2. LastFile(Holders(c, k)) \in Holders(c, k)
  BY <1>1, LastFileIsOne
<1>3. ShardRows[c][k] = logs[LastFile(Holders(c, k))][c][k]
  BY DEF ShardRows
<1> QED  BY <1>2, <1>3 DEF Holders

LEMMA ShardRowsFit ==
  ASSUME GridIInv
  PROVE  IsLog(ShardRows)
<1>1. ASSUME NEW c \in Cell
      PROVE  IsSequence(ShardRows[c]) /\ Len(ShardRows[c]) <= Budget
  <2>1. IsSequence(ShardRows[c])
    BY ShardRowsAreSequences, GridAssumption
  <2>2. Len(ShardRows[c]) \in Nat /\ DOMAIN ShardRows[c] = 1..Len(ShardRows[c])
    BY <2>1, SequenceDomain
  <2>3. DOMAIN ShardRows[c] \subseteq 1..Budget /\ Budget \in Nat
    BY GridAssumption DEF ShardRows
  <2> QED  BY <2>1, <2>2, <2>3
<1> QED  BY <1>1 DEF IsLog

LEMMA ShardsOverlay ==
  ASSUME GridIInv, LogsFit, ~Conflicting(ShardLogs)
  PROVE  Overlays(ShardLogs, ShardRows) /\ IsLog(ShardRows)
<1>1. ASSUME NEW c \in Cell, NEW f \in File, NEW k \in DOMAIN logs[f][c]
      PROVE  k \in DOMAIN ShardRows[c] /\ ShardRows[c][k] = logs[f][c][k]
  <2>1. k \in 1..Budget
    BY LogDomain DEF LogsFit
  <2>2. f \in Holders(c, k)
    BY DEF Holders
  <2>3. k \in DOMAIN ShardRows[c]
    BY <2>1, <2>2 DEF ShardRows
  <2>4. PICK g \in File : k \in DOMAIN logs[g][c] /\ ShardRows[c][k] = logs[g][c][k]
    BY <2>3, ShardRound
  <2>5. ~Differ(logs[g], logs[f])
    BY DEF Conflicting, ShardLogs
  <2> QED  BY <2>3, <2>4, <2>5 DEF Differ
<1>2. Overlays(ShardLogs, ShardRows)
  BY <1>1, ShardRound DEF Overlays, ShardLogs
<1> QED  BY <1>2, ShardRowsFit

LEMMA OverwriteRounds ==
  ASSUME NEW older, NEW newer, NEW c \in Cell, IsLog(older), IsLog(newer)
  PROVE  /\ DOMAIN Overwrite(older, newer)[c] = DOMAIN older[c] \cup DOMAIN newer[c]
         /\ \A k \in DOMAIN Overwrite(older, newer)[c] :
              Overwrite(older, newer)[c][k] = IF k \in DOMAIN newer[c] THEN newer[c][k] ELSE older[c][k]
         /\ IsSequence(Overwrite(older, newer)[c])
         /\ Len(Overwrite(older, newer)[c]) <= Budget
<1>1. PICK T : older[c] \in Seq(T)
  BY DEF IsLog, IsSequence
<1>2. PICK U : newer[c] \in Seq(U)
  BY DEF IsLog, IsSequence
<1> DEFINE a == older[c]
           b == newer[c]
           rest == SubSeq(a, Len(b) + 1, Len(a))
           out == b \o rest
<1>3. Overwrite(older, newer)[c] = out
  BY DEF Overwrite
<1>4. a \in Seq(T \cup U) /\ b \in Seq(T \cup U) /\ Len(a) <= Budget /\ Len(b) <= Budget
  BY <1>1, <1>2 DEF IsLog
<1>5. Budget \in Nat /\ Len(a) \in Nat /\ Len(b) \in Nat
      /\ DOMAIN a = 1..Len(a) /\ DOMAIN b = 1..Len(b)
  BY <1>4, GridAssumption
<1> HIDE DEF a, b
<1>6. /\ rest \in Seq(T \cup U)
      /\ Len(rest) = IF Len(b) + 1 <= Len(a) THEN Len(a) - Len(b) ELSE 0
      /\ \A k \in 1..Len(rest) : rest[k] = a[Len(b) + k]
  BY <1>4, <1>5
<1> HIDE DEF rest
<1>7. /\ out \in Seq(T \cup U) /\ Len(out) = Len(b) + Len(rest)
      /\ \A k \in 1..Len(out) : out[k] = IF k <= Len(b) THEN b[k] ELSE rest[k - Len(b)]
  BY <1>4, <1>6
<1> HIDE DEF out
<1>8. DOMAIN out = 1..Len(out) /\ Len(out) = IF Len(b) + 1 <= Len(a) THEN Len(a) ELSE Len(b)
  <2>1. DOMAIN out = 1..Len(out) /\ Len(out) = Len(b) + Len(rest)
    BY <1>7
  <2>2. \A x, y \in Nat : y + (IF y + 1 <= x THEN x - y ELSE 0) = IF y + 1 <= x THEN x ELSE y
    OBVIOUS
  <2> QED  BY <1>5, <1>6, <2>1, <2>2
<1>9. DOMAIN out = DOMAIN a \cup DOMAIN b /\ Len(out) <= Budget
  BY <1>4, <1>5, <1>8
<1>10. ASSUME NEW k \in DOMAIN out
       PROVE  out[k] = IF k \in DOMAIN b THEN b[k] ELSE a[k]
  <2>1. CASE k \in DOMAIN b
    <3>1. k \in 1..Len(out) /\ k <= Len(b)
      BY <1>5, <1>8, <2>1
    <3>2. out[k] = b[k]
      BY <1>7, <3>1
    <3> QED  BY <2>1, <3>2
  <2>2. CASE k \notin DOMAIN b
    <3>1. ~(k <= Len(b)) /\ k \in 1..Len(out)
      BY <1>5, <1>8, <2>2
    <3>2. k - Len(b) \in 1..Len(rest) /\ Len(b) + (k - Len(b)) = k
      <4>1. \A x, y, z \in Nat :
              z \in 1..(IF y + 1 <= x THEN x ELSE y) /\ ~(z <= y) =>
                z - y \in 1..(IF y + 1 <= x THEN x - y ELSE 0) /\ y + (z - y) = z
        OBVIOUS
      <4>2. k \in Nat
        BY <3>1
      <4>3. k \in 1..(IF Len(b) + 1 <= Len(a) THEN Len(a) ELSE Len(b))
        BY <1>8, <3>1
      <4>4. /\ k - Len(b) \in 1..(IF Len(b) + 1 <= Len(a) THEN Len(a) - Len(b) ELSE 0)
            /\ Len(b) + (k - Len(b)) = k
        BY <1>5, <3>1, <4>1, <4>2, <4>3
      <4> QED  BY <1>6, <4>4
    <3>3. out[k] = rest[k - Len(b)] /\ rest[k - Len(b)] = a[Len(b) + (k - Len(b))]
      BY <1>6, <1>7, <3>1, <3>2
    <3> QED  BY <2>2, <3>2, <3>3
  <2> QED  BY <2>1, <2>2
<1>11. IsSequence(out)
  BY <1>7 DEF IsSequence
<1> QED  BY <1>3, <1>9, <1>10, <1>11 DEF a, b

LEMMA MergeOverlays ==
  ASSUME GridIInv, LogsFit, ~Conflicting(ShardLogs \cup {merged})
  PROVE  Overlays(ShardLogs \cup {merged}, MergedFirst) /\ IsLog(MergedFirst)
<1>1. ~Conflicting(ShardLogs)
  BY DEF Conflicting
<1>2. Overlays(ShardLogs, ShardRows) /\ IsLog(ShardRows)
  BY <1>1, ShardsOverlay
<1>3. IsLog(merged)
  BY DEF LogsFit
<1>4. \A c \in Cell :
        /\ DOMAIN MergedFirst[c] = DOMAIN merged[c] \cup DOMAIN ShardRows[c]
        /\ \A k \in DOMAIN MergedFirst[c] :
             MergedFirst[c][k] = IF k \in DOMAIN ShardRows[c] THEN ShardRows[c][k] ELSE merged[c][k]
        /\ IsSequence(MergedFirst[c]) /\ Len(MergedFirst[c]) <= Budget
  BY <1>2, <1>3, OverwriteRounds DEF MergedFirst
<1>5. ASSUME NEW c \in Cell, NEW k \in DOMAIN MergedFirst[c]
      PROVE  \E a \in ShardLogs \cup {merged} : k \in DOMAIN a[c] /\ MergedFirst[c][k] = a[c][k]
  <2>1. CASE k \in DOMAIN ShardRows[c]
    <3>1. PICK a \in ShardLogs : k \in DOMAIN a[c] /\ ShardRows[c][k] = a[c][k]
      BY <1>2, <2>1 DEF Overlays
    <3> QED  BY <1>4, <2>1, <3>1
  <2>2. CASE k \notin DOMAIN ShardRows[c]
    BY <1>4, <2>2
  <2> QED  BY <2>1, <2>2
<1>6. ASSUME NEW c \in Cell, NEW a \in ShardLogs \cup {merged}, NEW k \in DOMAIN a[c]
      PROVE  k \in DOMAIN MergedFirst[c] /\ MergedFirst[c][k] = a[c][k]
  <2>1. k \in DOMAIN MergedFirst[c]
    BY <1>2, <1>4 DEF Overlays
  <2>2. PICK b \in ShardLogs \cup {merged} : k \in DOMAIN b[c] /\ MergedFirst[c][k] = b[c][k]
    BY <1>5, <2>1
  <2>3. ~Differ(b, a)
    BY DEF Conflicting
  <2> QED  BY <2>1, <2>2, <2>3 DEF Differ
<1> QED  BY <1>4, <1>5, <1>6 DEF Overlays, IsLog

-----------------------------------------------------------------------------
(* A complete cell of a log is the episode of one machine.  While logs     *)
(* nowhere differ, so is a complete cell of their merge, although its      *)
(* rounds come from several files.                                         *)
OneEpisode(c, given) ==
  RowsDone(c, given) =>
    \E m \in Machine : \A k \in DOMAIN Episode(m, c) :
      k \in DOMAIN given /\ given[k] = Episode(m, c)[k]

LEMMA NothingIsNotDone ==
  ASSUME NEW c \in Cell
  PROVE  ~RowsDone(c, NoRows[c])
<1>1. NoRows[c] = <<>>
  BY DEF NoRows
<1> QED  BY <1>1, GridAssumption DEF RowsDone

LEMMA OverlayDone ==
  ASSUME NEW inputs, NEW out, Overlays(inputs, out), IsLog(out),
         \A a \in inputs : IsLog(a), NEW c \in Cell
  PROVE  /\ RowsDone(c, out[c]) => \E a \in inputs : RowsDone(c, a[c])
         /\ \A a \in inputs : RowsDone(c, a[c]) => RowsDone(c, out[c])
<1>1. \A a \in inputs \cup {out} :
        /\ Len(a[c]) \in Nat /\ DOMAIN a[c] = 1..Len(a[c])
        /\ DOMAIN a[c] \subseteq 1..Budget
  BY LogDomain
<1>2. Budget \in Nat \ {0}
  BY GridAssumption
<1>3. \A a \in inputs \cup {out} : Len(a[c]) >= Budget <=> Budget \in DOMAIN a[c]
  <2> SUFFICES ASSUME NEW a \in inputs \cup {out}
               PROVE  Len(a[c]) >= Budget <=> Budget \in DOMAIN a[c]
    OBVIOUS
  <2>1. Len(a[c]) \in Nat /\ DOMAIN a[c] = 1..Len(a[c])
    BY <1>1
  <2> QED  BY <1>2, <2>1
<1>4. /\ \A k \in DOMAIN out[c] : \E a \in inputs : k \in DOMAIN a[c] /\ out[c][k] = a[c][k]
      /\ \A a \in inputs : \A k \in DOMAIN a[c] : k \in DOMAIN out[c] /\ out[c][k] = a[c][k]
  BY DEF Overlays
<1> QED  BY <1>3, <1>4 DEF RowsDone

LEMMA OverlayEpisode ==
  ASSUME NEW inputs, NEW out, Overlays(inputs, out), IsLog(out),
         \A a \in inputs : IsLog(a), NEW c \in Cell,
         \A a \in inputs : OneEpisode(c, a[c])
  PROVE  OneEpisode(c, out[c])
<1> SUFFICES ASSUME RowsDone(c, out[c])
             PROVE  \E m \in Machine : \A k \in DOMAIN Episode(m, c) :
                      k \in DOMAIN out[c] /\ out[c][k] = Episode(m, c)[k]
  BY DEF OneEpisode
<1>1. PICK a \in inputs : RowsDone(c, a[c])
  BY OverlayDone
<1>2. PICK m \in Machine : \A k \in DOMAIN Episode(m, c) :
        k \in DOMAIN a[c] /\ a[c][k] = Episode(m, c)[k]
  BY <1>1 DEF OneEpisode
<1>3. \A k \in DOMAIN a[c] : k \in DOMAIN out[c] /\ out[c][k] = a[c][k]
  BY DEF Overlays
<1> QED  BY <1>2, <1>3

(* Nor does a log cut short have half an episode in a complete cell: what  *)
(* completes the cell is the round that ends the episode.                  *)
LEMMA FirstRowsEpisode ==
  ASSUME NEW upto \in Cuts, NEW rows, IsLog(rows), NEW c \in Cell, OneEpisode(c, rows[c])
  PROVE  OneEpisode(c, FirstRows(rows, upto)[c])
<1> DEFINE short == FirstRows(rows, upto)[c]
           whole == rows[c]
<1>1. /\ DOMAIN short = 1..Len(short) /\ Len(short) \in Nat /\ Len(short) <= Len(whole)
      /\ \A k \in DOMAIN short : k \in DOMAIN whole /\ short[k] = whole[k]
  BY FirstRowsOf, GridAssumption DEF IsLog
<1>2. /\ Len(whole) \in Nat /\ Len(whole) <= Budget /\ DOMAIN whole = 1..Len(whole)
      /\ Budget \in Nat
  BY LogDomain, GridAssumption DEF IsLog
<1> HIDE DEF short, whole
<1> SUFFICES ASSUME RowsDone(c, short)
             PROVE  \E m \in Machine : \A k \in DOMAIN Episode(m, c) :
                      k \in DOMAIN short /\ short[k] = Episode(m, c)[k]
  BY DEF OneEpisode, short
<1>3. RowsDone(c, whole)
  BY <1>1, <1>2 DEF RowsDone
<1>4. PICK m \in Machine : \A k \in DOMAIN Episode(m, c) :
        k \in DOMAIN whole /\ whole[k] = Episode(m, c)[k]
  BY <1>3 DEF OneEpisode, whole
<1> DEFINE at == AcceptAt[m][c]
           last == IF at = 0 \/ c.preset \in ForceFull THEN Budget ELSE at
<1>5. /\ DOMAIN Episode(m, c) = 1..last
      /\ \A k \in DOMAIN Episode(m, c) : Episode(m, c)[k] = (k = at)
  BY DEF Episode
<1>6. at \in 0..Budget
  BY GridAssumption
<1> HIDE DEF at
<1>7. last <= Len(short)
  <2>1. CASE Len(short) >= Budget
    BY <1>1, <1>2, <1>6, <2>1
  <2>2. CASE c.preset \notin ForceFull /\ \E k \in DOMAIN short : short[k]
    <3>1. PICK k \in DOMAIN short : short[k] /\ whole[k] /\ k \in DOMAIN whole
      BY <1>1, <2>2
    <3>2. k \in Nat /\ k <= Len(short) /\ k <= Budget /\ k >= 1
      BY <1>1, <1>2, <3>1
    <3>3. CASE k <= last
      <4>1. k \in DOMAIN Episode(m, c)
        BY <1>2, <1>5, <1>6, <3>2, <3>3
      <4>2. k = at
        BY <1>4, <1>5, <3>1, <4>1
      <4> QED  BY <1>6, <2>2, <3>2, <4>2
    <3>4. CASE ~(k <= last)
      BY <1>1, <1>2, <1>6, <3>2, <3>4
    <3> QED  BY <3>3, <3>4
  <2> QED  BY <2>1, <2>2 DEF RowsDone
<1>8. ASSUME NEW k \in DOMAIN Episode(m, c)
      PROVE  k \in DOMAIN short /\ short[k] = Episode(m, c)[k]
  <2>1. k \in 1..Len(short)
    BY <1>1, <1>2, <1>5, <1>6, <1>7
  <2> QED  BY <1>1, <1>4, <2>1
<1> QED  BY <1>8

-----------------------------------------------------------------------------
(* The walk of a shard.  The cells it has before it and has to run are not *)
(* complete in its log, and the rounds of the cell it is at are the first  *)
(* rounds of this machine's episode, over what an older run left.          *)
Ahead(c) == Holds(shard, c) /\ c.task >= pos

Walk ==
  stage = "shard" =>
    /\ shard \in File /\ pos \in Nat \ {0} /\ pos >= shard.range[1]
    /\ round \in 0..Budget - 1
    /\ machine \in Machine
    /\ done \subseteq Complete(logs[shard]) \cup Complete(merged)
    /\ round > 0 => Walking /\ Current \notin done
    /\ \A c \in Cell \ done : Ahead(c) => ~RowsDone(c, logs[shard][c])
    /\ \A k \in 1..round :
         /\ k \in DOMAIN logs[shard][Current]
         /\ logs[shard][Current][k] = (AcceptAt[machine][Current] = k)
         /\ shard.preset \notin ForceFull => AcceptAt[machine][Current] # k

ShardEpisodes == \A f \in File, c \in Cell : OneEpisode(c, logs[f][c])

MergedEpisodes ==
  ~reported => \A c \in Cell : OneEpisode(c, merged[c]) /\ OneEpisode(c, kept[c])

LEMMA NoRowsEpisodes == \A c \in Cell : OneEpisode(c, NoRows[c])
  BY NothingIsNotDone DEF OneEpisode

WalkIInv ==
  /\ GridIInv /\ LogsFit
  /\ stage \in {"preset", "shard", "merge"} => machine \in Machine
  /\ Walk /\ ShardEpisodes /\ MergedEpisodes

LEMMA WalkInit == GridInit => WalkIInv
<1> SUFFICES ASSUME GridInit PROVE WalkIInv
  OBVIOUS
<1>1. GridIInv
  BY GridInitIInv
<1> QED
  BY <1>1, NoRowsFit, NoRowsEpisodes DEF GridInit, WalkIInv, LogsFit, Walk, ShardEpisodes, MergedEpisodes

(* One round of the running shard.                                         *)
RoundRows ==
  LET was == logs[shard][Current]
  IN  IF round + 1 \in DOMAIN was THEN [was EXCEPT ![round + 1] = Accepts]
      ELSE Append(was, Accepts)

CellOver == round + 1 = Budget \/ (Accepts /\ shard.preset \notin ForceFull)

LEMMA CurrentCell ==
  ASSUME WalkIInv, Walking
  PROVE  /\ Current \in Cell /\ shard \in File /\ Ahead(Current)
         /\ Current.preset = shard.preset /\ Current.task = pos
<1>1. shard \in File /\ pos \in Nat \ {0} /\ pos >= shard.range[1] /\ pos <= shard.range[2]
  BY DEF WalkIInv, Walk, Walking
<1>2. /\ shard.preset \in 1..Presets /\ shard.range[1] \in 1..Tasks
      /\ shard.range[2] \in 1..Tasks /\ Tasks \in Nat
  BY <1>1, FileType, GridAssumption
<1>3. Current \in Cell
  BY <1>1, <1>2 DEF Current, Cell
<1>4. Current.preset = shard.preset /\ Current.task = pos
  BY DEF Current
<1>5. Ahead(Current)
  BY <1>1, <1>2, <1>4 DEF Ahead, Holds
<1> QED  BY <1>1, <1>3, <1>4, <1>5

LEMMA RoundShape ==
  ASSUME WalkIInv, RunRound
  PROVE  /\ Current \in Cell /\ shard \in File /\ machine \in Machine
         /\ Current.preset = shard.preset
         /\ ~RowsDone(Current, logs[shard][Current])
         /\ logs' = [logs EXCEPT ![shard] = [logs[shard] EXCEPT ![Current] = RoundRows]]
         /\ RoundRows \in Seq(BOOLEAN) /\ Len(RoundRows) <= Budget
         /\ DOMAIN RoundRows = DOMAIN logs[shard][Current] \cup {round + 1}
         /\ RoundRows[round + 1] = Accepts
         /\ \A k \in DOMAIN logs[shard][Current] :
              k # round + 1 => RoundRows[k] = logs[shard][Current][k]
         /\ Len(RoundRows) >= Budget <=> round + 1 = Budget
<1> DEFINE was == logs[shard][Current]
<1>1. Walking /\ Current \notin done /\ stage = "shard"
  BY DEF RunRound, Walking
<1>2. /\ Current \in Cell /\ shard \in File /\ Ahead(Current)
      /\ Current.preset = shard.preset
  BY <1>1, CurrentCell
<1>3. machine \in Machine /\ ~RowsDone(Current, was) /\ round \in 0..Budget - 1
      /\ \A k \in 1..round : k \in DOMAIN was
  BY <1>1, <1>2 DEF WalkIInv, Walk
<1>4. was \in Seq(BOOLEAN) /\ Accepts \in BOOLEAN /\ Budget \in Nat
  BY <1>2, GridAssumption DEF WalkIInv, GridIInv, Accepts
<1>5. Len(was) < Budget /\ Len(was) \in Nat
  BY <1>3, <1>4 DEF RowsDone
<1>6. logs' = [logs EXCEPT ![shard] = [logs[shard] EXCEPT ![Current] = RoundRows]]
  BY DEF RunRound, RoundRows
<1> HIDE DEF was
<1> PICK n \in Nat : n = round + 1
  BY <1>3
<1>7. n > 0 /\ n <= Budget /\ n <= Len(was) + 1
  <2>1. round = 0 \/ round \in 1..round
    BY <1>3
  <2>2. round <= Len(was)
    BY <1>3, <1>4, <2>1
  <2>3. round \in Nat /\ round + 1 <= Budget
    BY <1>3, <1>4
  <2> QED  BY <1>5, <2>2, <2>3
<1>8. RoundRows = IF n \in DOMAIN was THEN [was EXCEPT ![n] = Accepts] ELSE Append(was, Accepts)
  BY DEF RoundRows, was
<1>9. CASE n \in DOMAIN was
  <2>1. /\ RoundRows \in Seq(BOOLEAN) /\ Len(RoundRows) = Len(was)
        /\ DOMAIN RoundRows = DOMAIN was
        /\ RoundRows[n] = Accepts
        /\ \A k \in DOMAIN was : k # n => RoundRows[k] = was[k]
    BY <1>4, <1>8, <1>9
  <2>2. n <= Len(was)
    BY <1>4, <1>9
  <2> QED  BY <1>2, <1>3, <1>4, <1>5, <1>6, <1>9, <2>1, <2>2 DEF was
<1>10. CASE n \notin DOMAIN was
  <2>1. n = Len(was) + 1
    BY <1>4, <1>5, <1>7, <1>10
  <2>2. /\ RoundRows \in Seq(BOOLEAN) /\ Len(RoundRows) = n
        /\ DOMAIN RoundRows = DOMAIN was \cup {n}
        /\ RoundRows[n] = Accepts
        /\ \A k \in DOMAIN was : k # n => RoundRows[k] = was[k]
    BY <1>4, <1>8, <1>10, <2>1
  <2> QED  BY <1>2, <1>3, <1>4, <1>5, <1>6, <1>7, <2>1, <2>2 DEF was
<1> QED  BY <1>9, <1>10

LEMMA RoundOutcome ==
  ASSUME WalkIInv, RunRound
  PROVE  /\ RowsDone(Current, RoundRows) <=> CellOver
         /\ OneEpisode(Current, RoundRows)
         /\ \A k \in 1..round + 1 :
              /\ k \in DOMAIN RoundRows
              /\ RoundRows[k] = (AcceptAt[machine][Current] = k)
         /\ ~CellOver /\ shard.preset \notin ForceFull =>
              \A k \in 1..round + 1 : AcceptAt[machine][Current] # k
<1> DEFINE was == logs[shard][Current]
           at == AcceptAt[machine][Current]
<1>1. /\ Current \in Cell /\ machine \in Machine /\ Current.preset = shard.preset
      /\ ~RowsDone(Current, was)
      /\ DOMAIN RoundRows = DOMAIN was \cup {round + 1}
      /\ RoundRows[round + 1] = Accepts
      /\ \A k \in DOMAIN was : k # round + 1 => RoundRows[k] = was[k]
      /\ Len(RoundRows) >= Budget <=> round + 1 = Budget
  BY RoundShape
<1>2. /\ round \in 0..Budget - 1 /\ Budget \in Nat
      /\ \A k \in 1..round : /\ k \in DOMAIN was /\ was[k] = (at = k)
                             /\ shard.preset \notin ForceFull => at # k
  BY GridAssumption DEF WalkIInv, Walk, RunRound, Walking
<1>3. at \in 0..Budget
  BY <1>1, GridAssumption
<1>4. Accepts = (at = round + 1)
  BY DEF Accepts
<1> HIDE DEF was, at
<1>5. RowsDone(Current, RoundRows) <=> CellOver
  <2>1. shard.preset \notin ForceFull => \A k \in DOMAIN was : ~was[k]
    BY <1>1 DEF RowsDone
  <2>2. (\E k \in DOMAIN RoundRows : RoundRows[k]) /\ shard.preset \notin ForceFull <=>
          Accepts /\ shard.preset \notin ForceFull
    BY <1>1, <2>1
  <2> QED  BY <1>1, <2>2 DEF RowsDone, CellOver
<1>6. ASSUME NEW k \in 1..round + 1
      PROVE  k \in DOMAIN RoundRows /\ RoundRows[k] = (at = k)
  <2>1. CASE k = round + 1
    BY <1>1, <1>4, <2>1
  <2>2. CASE k # round + 1
    <3>1. k \in 1..round
      BY <1>2, <2>2
    <3> QED  BY <1>1, <1>2, <2>2, <3>1
  <2> QED  BY <2>1, <2>2
<1>7. ASSUME ~CellOver, shard.preset \notin ForceFull, NEW k \in 1..round + 1
      PROVE  at # k
  <2>1. k = round + 1 \/ k \in 1..round
    BY <1>2
  <2> QED  BY <1>2, <1>4, <1>7, <2>1 DEF CellOver
<1>8. OneEpisode(Current, RoundRows)
  <2>1. SUFFICES ASSUME CellOver
                 PROVE  \A k \in DOMAIN Episode(machine, Current) :
                          /\ k \in DOMAIN RoundRows
                          /\ RoundRows[k] = Episode(machine, Current)[k]
    BY <1>1, <1>5 DEF OneEpisode
  <2>2. /\ DOMAIN Episode(machine, Current)
             = 1..(IF at = 0 \/ shard.preset \in ForceFull THEN Budget ELSE at)
        /\ \A k \in DOMAIN Episode(machine, Current) : Episode(machine, Current)[k] = (k = at)
    BY <1>1 DEF Episode, at
  <2>3. DOMAIN Episode(machine, Current) \subseteq 1..round + 1
    <3>1. round + 1 \in 1..Budget /\ (round + 1 = Budget \/ (at = round + 1 /\ shard.preset \notin ForceFull))
      <4>1. round + 1 \in 1..Budget
        BY <1>2
      <4>2. round + 1 = Budget \/ (at = round + 1 /\ shard.preset \notin ForceFull)
        BY <1>4, <2>1 DEF CellOver
      <4> QED  BY <4>1, <4>2
    <3>2. CASE at = 0 \/ shard.preset \in ForceFull
      BY <2>2, <3>1, <3>2
    <3>3. CASE ~(at = 0 \/ shard.preset \in ForceFull)
      <4>1. DOMAIN Episode(machine, Current) = 1..at /\ at <= round + 1
        BY <1>3, <2>2, <3>1, <3>3
      <4> QED  BY <1>3, <3>1, <4>1
    <3> QED  BY <3>2, <3>3
  <2> QED  BY <1>6, <2>2, <2>3
<1> QED  BY <1>5, <1>6, <1>7, <1>8 DEF at

(* A round touches one cell of one log, and that cell was not complete.    *)
LEMMA RoundFrame ==
  ASSUME WalkIInv, RunRound
  PROVE  /\ \A f \in File, c \in Cell :
              logs'[f][c] = IF f = shard /\ c = Current THEN RoundRows ELSE logs[f][c]
         /\ \A f \in File : Complete(logs[f]) \subseteq Complete(logs'[f])
<1>1. /\ Current \in Cell /\ shard \in File
      /\ ~RowsDone(Current, logs[shard][Current])
      /\ logs' = [logs EXCEPT ![shard] = [logs[shard] EXCEPT ![Current] = RoundRows]]
  BY RoundShape
<1>2. logs \in [File -> [Cell -> Seq(BOOLEAN)]]
  BY DEF WalkIInv, GridIInv
<1>3. \A f \in File, c \in Cell :
        logs'[f][c] = IF f = shard /\ c = Current THEN RoundRows ELSE logs[f][c]
  BY <1>1, <1>2
<1>4. ASSUME NEW f \in File, NEW c \in Complete(logs[f])
      PROVE  c \in Complete(logs'[f])
  <2>1. c \in Cell /\ RowsDone(c, logs[f][c])
    BY DEF Complete
  <2>2. ~(f = shard /\ c = Current)
    BY <1>1, <2>1
  <2>3. logs'[f][c] = logs[f][c]
    BY <1>3, <2>1, <2>2
  <2> QED  BY <2>1, <2>3 DEF Complete
<1> QED  BY <1>3, <1>4

LEMMA RoundWalk ==
  ASSUME WalkIInv, RunRound
  PROVE  Walk'
<1>1. /\ Walking /\ Current \notin done /\ stage = "shard" /\ stage' = "shard"
      /\ UNCHANGED <<merged, machine, shard, done>>
      /\ IF CellOver THEN pos' = pos + 1 /\ round' = 0
                     ELSE pos' = pos /\ round' = round + 1
  BY DEF RunRound, Walking, CellOver, mergedVars
<1>2. /\ shard \in File /\ machine \in Machine /\ Current \in Cell
      /\ Current.preset = shard.preset /\ Current.task = pos
  BY <1>1, CurrentCell, RoundShape
<1>3. /\ pos \in Nat \ {0} /\ pos >= shard.range[1] /\ round \in 0..Budget - 1
      /\ shard.range[1] \in 1..Tasks /\ Tasks \in Nat /\ Budget \in Nat \ {0}
  BY <1>1, <1>2, FileType, GridAssumption DEF WalkIInv, Walk
<1>4. \A f \in File, c \in Cell :
        logs'[f][c] = IF f = shard /\ c = Current THEN RoundRows ELSE logs[f][c]
  BY RoundFrame
<1>5. done' \subseteq Complete(logs'[shard]) \cup Complete(merged)
  BY <1>1, <1>2, RoundFrame DEF WalkIInv, Walk
<1>6. \A c \in Cell \ done : Ahead(c) => ~RowsDone(c, logs[shard][c])
  BY <1>1 DEF WalkIInv, Walk
<1>7. /\ RowsDone(Current, RoundRows) <=> CellOver
      /\ \A k \in 1..round + 1 :
           /\ k \in DOMAIN RoundRows
           /\ RoundRows[k] = (AcceptAt[machine][Current] = k)
      /\ ~CellOver /\ shard.preset \notin ForceFull =>
           \A k \in 1..round + 1 : AcceptAt[machine][Current] # k
  BY RoundOutcome
<1>8. shard' \in File /\ machine' \in Machine /\ pos' \in Nat \ {0} /\ pos' >= shard'.range[1]
  BY <1>1, <1>2, <1>3
<1>9. CASE CellOver
  <2>1. pos' = pos + 1 /\ round' = 0
    BY <1>1, <1>9
  <2>2. ASSUME NEW c \in Cell \ done, Ahead(c)'
        PROVE  ~RowsDone(c, logs'[shard][c])
    <3>1. Holds(shard, c) /\ c.task >= pos + 1 /\ c.task \in Nat
      BY <1>1, <2>1, <2>2, GridAssumption DEF Ahead, Holds, Cell
    <3>2. Ahead(c) /\ c # Current
      BY <1>2, <1>3, <3>1 DEF Ahead
    <3> QED  BY <1>2, <1>4, <1>6, <3>2
  <2>3. round' \in 0..Budget - 1 /\ ~(round' > 0) /\ 1..round' = {}
    BY <1>3, <2>1
  <2> QED  BY <1>1, <1>5, <1>8, <2>2, <2>3 DEF Walk
<1>10. CASE ~CellOver
  <2>1. pos' = pos /\ round' = round + 1 /\ round + 1 # Budget
    BY <1>1, <1>10 DEF CellOver
  <2>2. round' \in 0..Budget - 1
    BY <1>3, <2>1
  <2>3. Current' = Current /\ Walking' /\ Current' \notin done'
    BY <1>1, <2>1 DEF Current, Walking
  <2>4. ASSUME NEW c \in Cell \ done, Ahead(c)'
        PROVE  ~RowsDone(c, logs'[shard][c])
    <3>1. Ahead(c)
      BY <1>1, <2>1, <2>4 DEF Ahead
    <3> QED  BY <1>2, <1>4, <1>6, <1>7, <1>10, <3>1
  <2>5. logs'[shard][Current] = RoundRows
    BY <1>2, <1>4
  <2>6. \A k \in 1..round' :
          /\ k \in DOMAIN logs'[shard][Current]
          /\ logs'[shard][Current][k] = (AcceptAt[machine][Current] = k)
          /\ shard.preset \notin ForceFull => AcceptAt[machine][Current] # k
    BY <1>7, <1>10, <2>1, <2>5
  <2> QED  BY <1>1, <1>5, <1>8, <2>2, <2>3, <2>4, <2>6 DEF Walk
<1> QED  BY <1>9, <1>10

LEMMA RoundStep == WalkIInv /\ RunRound => WalkIInv'
<1> SUFFICES ASSUME WalkIInv, RunRound PROVE WalkIInv'
  OBVIOUS
<1>1. GridIInv'
  BY GridStep, GridAssumption DEF WalkIInv, GridNext, Command
<1>2. \A f \in File, c \in Cell :
        logs'[f][c] = IF f = shard /\ c = Current THEN RoundRows ELSE logs[f][c]
  BY RoundFrame
<1>3. UNCHANGED <<merged, kept, machine, reported, stage>>
  BY DEF RunRound, mergedVars
<1>4. LogsFit'
  <2>1. IsSequence(RoundRows) /\ Len(RoundRows) <= Budget
    BY RoundShape DEF IsSequence
  <2> QED  BY <1>2, <1>3, <2>1 DEF LogsFit, IsLog, WalkIInv
<1>5. ShardEpisodes'
  <2>1. OneEpisode(Current, RoundRows)
    BY RoundOutcome
  <2> QED  BY <1>2, <2>1 DEF ShardEpisodes, WalkIInv
<1>6. MergedEpisodes'
  BY <1>3 DEF MergedEpisodes, WalkIInv
<1> QED  BY <1>1, <1>3, <1>4, <1>5, <1>6, RoundWalk DEF WalkIInv

(* The steps between the shards' rounds.                                   *)
LEMMA QuietStep ==
  ASSUME WalkIInv, GridIInv', UNCHANGED <<logs, merged, kept, reported>>,
         stage' # "shard", stage' # "idle" => machine' \in Machine
  PROVE  WalkIInv'
  BY DEF WalkIInv, LogsFit, Walk, ShardEpisodes, MergedEpisodes

LEMMA StartStep ==
  ASSUME WalkIInv, GridIInv', NEW f \in File, RunShard(f)
  PROVE  WalkIInv'
<1>1. /\ stage = "preset" /\ stage' = "shard" /\ shard' = f
      /\ pos' = f.range[1] /\ done' = ResumeIndex(f) /\ round' = 0
      /\ UNCHANGED <<logs, merged, kept, machine, reported>>
  BY DEF RunShard, mergedVars
<1>2. pos' \in Nat \ {0} /\ pos' >= f.range[1] /\ round' \in 0..Budget - 1
      /\ ~(round' > 0) /\ 1..round' = {}
  BY <1>1, FileType, GridAssumption
<1>3. machine' \in Machine
  BY <1>1 DEF WalkIInv
<1>4. done' \subseteq Complete(logs'[f]) \cup Complete(merged')
      /\ \A c \in Cell \ done' : ~RowsDone(c, logs'[f][c])
  BY <1>1 DEF ResumeIndex, Complete
<1>5. Walk'
  BY <1>1, <1>2, <1>3, <1>4 DEF Walk
<1> QED  BY <1>1, <1>3, <1>5 DEF WalkIInv, LogsFit, ShardEpisodes, MergedEpisodes

LEMMA SkipStep ==
  ASSUME WalkIInv, GridIInv', SkipCell
  PROVE  WalkIInv'
<1>1. /\ Walking /\ Current \in done /\ pos' = pos + 1 /\ stage = "shard"
      /\ UNCHANGED <<logs, merged, kept, machine, reported, shard, done, round, stage>>
  BY DEF SkipCell, Walking, mergedVars
<1>2. /\ shard \in File /\ pos \in Nat \ {0} /\ pos >= shard.range[1]
      /\ round \in 0..Budget - 1 /\ ~(round > 0)
      /\ shard.range[1] \in 1..Tasks /\ Tasks \in Nat
  BY <1>1, FileType, GridAssumption DEF WalkIInv, Walk
<1>3. round = 0 /\ 1..round = {} /\ pos' \in Nat \ {0} /\ pos' >= shard.range[1]
  BY <1>1, <1>2, GridAssumption
<1>4. ASSUME NEW c \in Cell \ done, Ahead(c)'
      PROVE  ~RowsDone(c, logs[shard][c])
  <2>1. Ahead(c)
    BY <1>1, <1>2, <1>4 DEF Ahead, Cell
  <2> QED  BY <1>1, <1>4, <2>1 DEF WalkIInv, Walk
<1>5. Walk'
  BY <1>1, <1>2, <1>3, <1>4 DEF WalkIInv, Walk
<1> QED  BY <1>1, <1>5 DEF WalkIInv, LogsFit, ShardEpisodes, MergedEpisodes

(* A merge that is not reported is of logs that nowhere differ.            *)
LEMMA MergeHolds ==
  ASSUME WalkIInv, NEW inputs, NEW out, Overlays(inputs, out), IsLog(out),
         inputs = ShardLogs \/ (inputs = ShardLogs \cup {merged} /\ ~reported)
  PROVE  /\ \A c \in Cell : OneEpisode(c, out[c])
         /\ \A a \in inputs : Complete(a) \subseteq Complete(out)
<1>1. \A a \in inputs : IsLog(a) /\ \A c \in Cell : OneEpisode(c, a[c])
  BY DEF WalkIInv, LogsFit, ShardLogs, ShardEpisodes, MergedEpisodes
<1>2. \A c \in Cell : OneEpisode(c, out[c])
  BY <1>1, OverlayEpisode
<1>3. \A a \in inputs, c \in Cell : RowsDone(c, a[c]) => RowsDone(c, out[c])
  BY <1>1, OverlayDone
<1> QED  BY <1>2, <1>3 DEF Complete

LEMMA MergedFirstFits ==
  ASSUME WalkIInv
  PROVE  IsLog(MergedFirst)
  BY ShardRowsFit, OverwriteRounds DEF MergedFirst, IsLog, WalkIInv, LogsFit

LEMMA ConsolidateStep ==
  ASSUME WalkIInv, GridIInv', Consolidate
  PROVE  /\ WalkIInv'
         /\ ~reported' /\ stage' = "merge" => Complete(merged) \subseteq Complete(kept')
<1>1. /\ stage = "preset" /\ stage' \in {"preset", "merge", "idle"}
      /\ \/ stage' # "merge" /\ UNCHANGED <<merged, kept>>
         \/ stage' = "merge" /\ merged' = NoRows /\ kept' = MergedFirst
      /\ logs' = logs /\ (stage' # "idle" => machine' = machine)
      /\ reported' = (reported \/ Conflicting(ShardLogs \cup {merged}))
  BY DEF Consolidate, OpenMerged, End, Idle, mergedVars
<1>2. ~reported' => ~reported /\ ~Conflicting(ShardLogs \cup {merged})
  BY <1>1
<1>3. LogsFit'
  BY <1>1, MergedFirstFits, NoRowsFit DEF WalkIInv, LogsFit
<1>4. ~reported' => /\ \A c \in Cell : OneEpisode(c, MergedFirst[c])
                    /\ Complete(merged) \subseteq Complete(MergedFirst)
  BY <1>2, MergeOverlays, MergeHolds DEF WalkIInv
<1>5. MergedEpisodes'
  BY <1>1, <1>2, <1>4, NoRowsEpisodes DEF WalkIInv, MergedEpisodes
<1> QED  BY <1>1, <1>3, <1>4, <1>5 DEF WalkIInv, Walk, ShardEpisodes

LEMMA HandStep ==
  ASSUME WalkIInv, GridIInv', NEW force \in BOOLEAN, MergeByHand(force)
  PROVE  WalkIInv'
<1>1. /\ stage = "idle" /\ stage' = "byhand" /\ logs' = logs
      /\ merged' = NoRows /\ kept' = ShardRows
      /\ reported' = (reported \/ Conflicting(ShardLogs))
  BY DEF MergeByHand, OpenMerged
<1>2. LogsFit'
  BY <1>1, ShardRowsFit, NoRowsFit DEF WalkIInv, LogsFit
<1>3. ~reported' => \A c \in Cell : OneEpisode(c, ShardRows[c])
  BY <1>1, ShardsOverlay, MergeHolds DEF WalkIInv
<1>4. MergedEpisodes'
  BY <1>1, <1>3, NoRowsEpisodes DEF MergedEpisodes
<1> QED  BY <1>1, <1>2, <1>4 DEF WalkIInv, Walk, ShardEpisodes

(* The write of a merge, completed or cut short.                           *)
LEMMA FinishStep ==
  ASSUME WalkIInv, GridIInv', FinishMerge
  PROVE  WalkIInv'
<1>1. /\ stage \in {"merge", "byhand"}
      /\ stage' \in {"preset", "idle"} /\ (stage' = "preset" => stage = "merge")
      /\ merged' = kept /\ kept' = NoRows
      /\ UNCHANGED <<logs, machine, reported>>
  BY DEF FinishMerge
<1>2. LogsFit'
  BY <1>1, NoRowsFit DEF WalkIInv, LogsFit
<1>3. MergedEpisodes'
  BY <1>1, NoRowsEpisodes DEF WalkIInv, MergedEpisodes
<1> QED  BY <1>1, <1>2, <1>3 DEF WalkIInv, Walk, ShardEpisodes

LEMMA CutStep ==
  ASSUME WalkIInv, GridIInv', CutMerge
  PROVE  WalkIInv'
<1>1. /\ stage' = "idle" /\ kept' = NoRows
      /\ merged' = NoRows \/ \E upto \in Cuts : merged' = FirstRows(kept, upto)
      /\ UNCHANGED <<logs, reported>>
  BY DEF CutMerge, Idle
<1>2. ASSUME NEW upto \in Cuts
      PROVE  IsLog(FirstRows(kept, upto))
  <2> SUFFICES ASSUME NEW c \in Cell
               PROVE  /\ IsSequence(FirstRows(kept, upto)[c])
                      /\ Len(FirstRows(kept, upto)[c]) <= Budget
    BY DEF IsLog
  <2>1. IsSequence(kept[c]) /\ Len(kept[c]) <= Budget
    BY DEF WalkIInv, LogsFit, IsLog
  <2>2. Len(kept[c]) \in Nat /\ Budget \in Nat
    BY <2>1, SequenceDomain, GridAssumption
  <2>3. /\ IsSequence(FirstRows(kept, upto)[c])
        /\ Len(FirstRows(kept, upto)[c]) \in Nat
        /\ Len(FirstRows(kept, upto)[c]) <= Len(kept[c])
    BY <2>1, FirstRowsOf, GridAssumption
  <2> QED  BY <2>1, <2>2, <2>3
<1>3. LogsFit'
  BY <1>1, <1>2, NoRowsFit DEF WalkIInv, LogsFit
<1>4. ~reported => \A upto \in Cuts, c \in Cell : OneEpisode(c, FirstRows(kept, upto)[c])
  BY FirstRowsEpisode DEF WalkIInv, LogsFit, MergedEpisodes
<1>5. MergedEpisodes'
  BY <1>1, <1>4, NoRowsEpisodes DEF MergedEpisodes
<1> QED  BY <1>1, <1>3, <1>5 DEF WalkIInv, Walk, ShardEpisodes

LEMMA LoseStep ==
  ASSUME WalkIInv, GridIInv', NEW f \in File, LoseLog(f)
  PROVE  WalkIInv'
<1>1. /\ stage = "idle" /\ stage' = "idle"
      /\ logs' = [logs EXCEPT ![f] = NoRows]
      /\ UNCHANGED <<merged, kept, reported, machine>>
  BY DEF LoseLog, mergedVars
<1>2. \A g \in File : logs'[g] = IF g = f THEN NoRows ELSE logs[g]
  BY <1>1 DEF WalkIInv, GridIInv
<1> QED
  BY <1>1, <1>2, NoRowsFit, NoRowsEpisodes DEF WalkIInv, LogsFit, Walk, ShardEpisodes, MergedEpisodes

LEMMA WalkStep == WalkIInv /\ [GridNext]_gridVars => WalkIInv'
<1> SUFFICES ASSUME WalkIInv, [GridNext]_gridVars PROVE WalkIInv'
  OBVIOUS
<1>1. GridIInv'
  BY GridStep, GridAssumption DEF WalkIInv
<1>2. ASSUME NEW m \in Machine, NEW n \in ShardCounts, Reproduce(m, n)
      PROVE  WalkIInv'
  BY <1>1, <1>2, QuietStep DEF Reproduce, End, Idle, mergedVars
<1>3. CASE ShardEnds \/ StopShard
  BY <1>1, <1>3, QuietStep DEF ShardEnds, StopShard, Walking, WalkIInv, mergedVars
<1>4. CASE Recheck \/ Kill
  BY <1>1, <1>4, QuietStep DEF Recheck, Kill, End, Idle, mergedVars
<1>5. CASE UNCHANGED gridVars
  BY <1>1, <1>5 DEF gridVars, mergedVars, shardVars, WalkIInv, LogsFit, Walk, Walking, Current, Ahead,
                    ShardEpisodes, MergedEpisodes
<1> QED
  BY <1>1, <1>2, <1>3, <1>4, <1>5, StartStep, SkipStep, RoundStep, ConsolidateStep,
     HandStep, FinishStep, CutStep, LoseStep DEF GridNext, Command

(* Without a report that the machines are not interchangeable, what is     *)
(* merged of a complete cell is the whole episode of one of them.          *)
THEOREM MergedCellIsOneEpisode == GridSpec => []OneEpisodeMerged
<1>1. WalkIInv => OneEpisodeMerged
  BY DEF WalkIInv, MergedEpisodes, OneEpisodeMerged, OneEpisode, Complete
<1> QED  BY <1>1, WalkInit, WalkStep, PTL DEF GridSpec

-----------------------------------------------------------------------------
(* While a command runs, and no shard of it stopped early, every cell that *)
(* is still missing is in a shard to come, ahead of the running one, or    *)
(* complete in a shard log that the next merge reads.  While that merge    *)
(* writes, missing is what its rows do not complete.                       *)
ToCome == {c \in Undeclared(Cell) : c \notin Complete(Log)}

Pending(c) ==
  \/ \E f \in todo : Holds(f, c)
  \/ shard # None /\ stage # "merge" /\ \E f \in File : c \in Complete(logs[f])
  \/ stage = "shard" /\ Ahead(c)

Covered ==
  stage \in {"preset", "shard", "merge"} /\ ~stopped /\ ~reported =>
    \A c \in ToCome : Pending(c)

LEMMA ToComeIsMissing ==
  ASSUME stage \notin {"merge", "byhand"}
  PROVE  ToCome = Undeclared(Missing)
  BY DEF ToCome, Undeclared, Missing, Log

RecheckIInv ==
  /\ WalkIInv
  /\ todo \subseteq File
  /\ RecheckHolds /\ Covered

LEMMA ReproduceCovers ==
  ASSUME RecheckIInv, NEW m \in Machine, NEW n \in ShardCounts, Reproduce(m, n)
  PROVE  todo' \subseteq File /\ RecheckHolds' /\ Covered'
<1>1. /\ UNCHANGED <<merged, logs>>
      /\ ended' \in {"hit", "failed", None}
      /\ \/ stage' = "idle" /\ todo' = {}
         \/ stage' = "preset" /\ todo' = RangesTodo(n)
  BY DEF Reproduce, End, Idle, mergedVars
<1>2. todo' \subseteq File
  BY <1>1 DEF RangesTodo, File
<1>3. RecheckHolds'
  BY <1>1, NoneIsNothing DEF RecheckHolds
<1>4. ASSUME stage' = "preset", NEW c \in Undeclared(Missing)
      PROVE  \E f \in todo' : Holds(f, c)
  <2>1. c \in Cell /\ c \in Missing
    BY DEF Undeclared, Missing
  <2>2. PICK f \in Shard(n) : Holds(f, c)
    BY <2>1, RangesCover
  <2>3. c.preset = f.preset
    BY <2>2 DEF Holds
  <2> QED  BY <1>1, <1>4, <2>1, <2>2, <2>3 DEF RangesTodo
<1>5. stage' = "preset" => ToCome' = Undeclared(Missing)
  BY <1>1 DEF ToCome, Log, Undeclared, Missing, Complete
<1> QED  BY <1>1, <1>2, <1>3, <1>4, <1>5 DEF Covered, Pending

LEMMA RunShardCovers ==
  ASSUME RecheckIInv, NEW f \in File, RunShard(f)
  PROVE  todo' \subseteq File /\ RecheckHolds' /\ Covered'
<1>1. /\ stage = "preset" /\ stage' = "shard" /\ shard' = f /\ todo' = todo \ {f}
      /\ pos' = f.range[1]
      /\ UNCHANGED <<logs, merged, ended, stopped, reported>>
  BY DEF RunShard, mergedVars
<1>2. ToCome' = ToCome
  BY <1>1 DEF ToCome, Log, Undeclared, Complete
<1>3. ASSUME ~stopped, ~reported, NEW c \in ToCome
      PROVE  Pending(c)'
  <2>1. Pending(c)
    BY <1>1, <1>3 DEF RecheckIInv, Covered
  <2>2. CASE \E g \in todo : Holds(g, c)
    <3>1. PICK g \in todo : Holds(g, c)
      BY <2>2
    <3>2. CASE g = f
      <4>1. c.task >= f.range[1]
        BY <3>1, <3>2, FileType, GridAssumption DEF Holds, ToCome, Undeclared, Cell
      <4> QED  BY <1>1, <3>1, <3>2, <4>1 DEF Pending, Ahead
    <3>3. CASE g # f
      BY <1>1, <3>1, <3>3 DEF Pending
    <3> QED  BY <3>2, <3>3
  <2>3. CASE \E g \in File : c \in Complete(logs[g])
    <3>1. f # None
      BY NoneIsNothing
    <3> QED  BY <1>1, <2>3, <3>1 DEF Pending
  <2> QED  BY <1>1, <2>1, <2>2, <2>3 DEF Pending
<1>4. RecheckHolds'
  BY <1>1 DEF RecheckIInv, RecheckHolds
<1> QED  BY <1>1, <1>2, <1>3, <1>4 DEF Covered, RecheckIInv

(* The walk goes on to the next cell when it skips one or has run it.      *)
LEMMA WalkCovers ==
  ASSUME RecheckIInv, SkipCell \/ RunRound
  PROVE  todo' \subseteq File /\ RecheckHolds' /\ Covered'
<1>1. /\ Walking /\ stage = "shard"
      /\ UNCHANGED <<merged, stage, shard, todo, done, ended, stopped, reported>>
  BY DEF SkipCell, RunRound, Walking, mergedVars
<1>2. ToCome' = ToCome
  BY <1>1 DEF ToCome, Log, Undeclared, Complete
<1>3. /\ shard \in File /\ shard # None /\ pos \in Nat
      /\ Current \in Cell /\ Current.preset = shard.preset /\ Current.task = pos
  BY <1>1, CurrentCell, NoneIsNothing DEF RecheckIInv, WalkIInv, Walk
<1>4. \A f \in File : Complete(logs[f]) \subseteq Complete(logs'[f])
  <2>1. CASE SkipCell
    BY <2>1 DEF SkipCell
  <2>2. CASE RunRound
    BY <2>2, RoundFrame DEF RecheckIInv
  <2> QED  BY <2>1, <2>2
<1>5. \/ pos' = pos
      \/ /\ pos' = pos + 1
         /\ Current \in Complete(logs'[shard]) \cup Complete(merged)
  <2>1. CASE SkipCell
    <3>1. Current \in done /\ pos' = pos + 1
      BY <2>1 DEF SkipCell
    <3>2. done \subseteq Complete(logs[shard]) \cup Complete(merged)
      BY <1>1 DEF RecheckIInv, WalkIInv, Walk
    <3> QED  BY <1>3, <1>4, <3>1, <3>2
  <2>2. CASE RunRound
    <3>1. pos' = pos \/ (pos' = pos + 1 /\ CellOver)
      BY <2>2 DEF RunRound, CellOver
    <3>2. CellOver => RowsDone(Current, RoundRows)
      BY <2>2, RoundOutcome DEF RecheckIInv
    <3>3. logs'[shard][Current] = RoundRows
      BY <1>3, <2>2, RoundFrame DEF RecheckIInv
    <3> QED  BY <1>3, <3>1, <3>2, <3>3 DEF Complete
  <2> QED  BY <2>1, <2>2
<1>6. ASSUME ~stopped, ~reported, NEW c \in ToCome
      PROVE  Pending(c)'
  <2>1. Pending(c) /\ c \in Cell /\ c \notin Complete(merged)
    BY <1>1, <1>6 DEF RecheckIInv, Covered, ToCome, Log, Undeclared
  <2>2. CASE \E f \in todo : Holds(f, c)
    BY <1>1, <2>2 DEF Pending
  <2>3. CASE \E f \in File : c \in Complete(logs[f])
    BY <1>1, <1>3, <1>4, <2>3 DEF Pending
  <2>4. CASE Ahead(c)
    <3>1. c.preset = shard.preset /\ c.task >= pos /\ c.task \in Nat /\ Holds(shard, c)
      BY <2>1, <2>4, GridAssumption DEF Ahead, Holds, Cell
    <3>2. CASE c.task = pos /\ pos' = pos + 1
      <4>1. c = Current
        BY <1>3, <2>1, <3>1, <3>2 DEF Cell, Current
      <4> QED  BY <1>1, <1>3, <1>5, <2>1, <3>2, <4>1 DEF Pending
    <3>3. CASE ~(c.task = pos /\ pos' = pos + 1)
      <4>1. c.task >= pos'
        BY <1>3, <1>5, <3>1, <3>3
      <4> QED  BY <1>1, <3>1, <4>1 DEF Pending, Ahead
    <3> QED  BY <3>2, <3>3
  <2> QED  BY <2>1, <2>2, <2>3, <2>4 DEF Pending
<1>7. RecheckHolds'
  BY <1>1 DEF RecheckIInv, RecheckHolds
<1> QED  BY <1>1, <1>2, <1>6, <1>7 DEF Covered, RecheckIInv

LEMMA ShardEndsCovers ==
  ASSUME RecheckIInv, ShardEnds \/ StopShard
  PROVE  todo' \subseteq File /\ RecheckHolds' /\ Covered'
<1>1. /\ stage = "shard" /\ stage' = "preset"
      /\ UNCHANGED <<logs, merged, shard, todo, ended, reported>>
      /\ stopped' \/ (stopped' = stopped /\ pos > shard.range[2])
  BY DEF ShardEnds, StopShard, Walking, mergedVars
<1>2. ToCome' = ToCome
  BY <1>1 DEF ToCome, Log, Undeclared, Complete
<1>3. ASSUME ~stopped', ~reported, NEW c \in ToCome
      PROVE  Pending(c)'
  <2>1. Pending(c) /\ c \in Cell
    BY <1>1, <1>3 DEF RecheckIInv, Covered, ToCome, Undeclared
  <2>2. ~Ahead(c)
    <3>1. shard \in File /\ pos \in Nat /\ pos > shard.range[2]
      BY <1>1, <1>3 DEF RecheckIInv, WalkIInv, Walk
    <3>2. shard.range[2] \in Nat /\ c.task \in Nat
      BY <2>1, <3>1, FileType, GridAssumption DEF Cell
    <3> QED  BY <3>1, <3>2 DEF Ahead, Holds
  <2> QED  BY <1>1, <2>1, <2>2 DEF Pending
<1>4. RecheckHolds'
  <2>1. stopped => stopped'
    BY <1>1
  <2> QED  BY <1>1, <2>1 DEF RecheckIInv, RecheckHolds
<1> QED  BY <1>1, <1>2, <1>3, <1>4 DEF Covered, RecheckIInv

LEMMA ConsolidateCovers ==
  ASSUME RecheckIInv, GridIInv', Consolidate
  PROVE  todo' \subseteq File /\ RecheckHolds' /\ Covered'
<1>1. /\ stage = "preset" /\ UNCHANGED <<logs, stopped>>
      /\ reported' = (reported \/ Conflicting(ShardLogs \cup {merged}))
  BY DEF Consolidate
<1>2. \/ stage' = "idle" /\ ended' = "refused" /\ todo' = {}
      \/ /\ todo' = todo /\ ended' = ended
         /\ \/ stage' = "merge" /\ kept' = MergedFirst
            \/ stage' = "preset" /\ merged' = merged /\ \A f \in File : ~Written(f)
  BY <1>1 DEF Consolidate, OpenMerged, End, Idle, shardVars, mergedVars
<1>3. ASSUME stage' # "idle", ~stopped', ~reported', NEW c \in ToCome'
      PROVE  Pending(c)'
  <2>1. ~reported /\ ~stopped /\ ~Conflicting(ShardLogs \cup {merged})
    BY <1>1, <1>3
  <2>2. Log = merged /\ Complete(merged) \subseteq Complete(Log')
    <3>1. CASE stage' = "merge"
      <4>1. Complete(merged) \subseteq Complete(kept')
        BY <1>3, <3>1, ConsolidateStep DEF RecheckIInv
      <4> QED  BY <1>1, <3>1, <4>1 DEF Log
    <3>2. CASE stage' = "preset"
      BY <1>1, <1>2, <3>2 DEF Log
    <3> QED  BY <1>2, <1>3, <3>1, <3>2
  <2>3. c \in ToCome /\ c \in Cell /\ c \notin Complete(Log')
    BY <2>2 DEF ToCome, Undeclared, Complete
  <2>4. Pending(c)
    BY <1>1, <2>1, <2>3 DEF RecheckIInv, Covered
  <2>5. ASSUME NEW f \in File, c \in Complete(logs[f])
        PROVE  FALSE
    <3>1. Written(f)
      BY <2>3, <2>5, NothingIsNotDone DEF Written, Complete
    <3>2. Log' = MergedFirst
      BY <1>2, <1>3, <3>1 DEF Log
    <3>3. Overlays(ShardLogs \cup {merged}, MergedFirst) /\ IsLog(MergedFirst)
      BY <2>1, MergeOverlays DEF RecheckIInv, WalkIInv
    <3>4. \A a \in ShardLogs \cup {merged} : Complete(a) \subseteq Complete(MergedFirst)
      BY <2>1, <3>3, MergeHolds DEF RecheckIInv
    <3>5. logs[f] \in ShardLogs
      BY DEF ShardLogs
    <3> QED  BY <2>3, <2>5, <3>2, <3>4, <3>5
  <2>6. \E f \in todo : Holds(f, c)
    BY <1>1, <2>4, <2>5 DEF Pending
  <2> QED  BY <1>2, <1>3, <2>6 DEF Pending
<1>4. RecheckHolds'
  BY <1>1, <1>2 DEF RecheckIInv, RecheckHolds
<1>5. todo' \subseteq File
  BY <1>2 DEF RecheckIInv
<1> QED  BY <1>2, <1>3, <1>4, <1>5 DEF Covered

LEMMA FinishCovers ==
  ASSUME RecheckIInv, FinishMerge
  PROVE  todo' \subseteq File /\ RecheckHolds' /\ Covered'
<1>1. /\ stage \in {"merge", "byhand"}
      /\ stage' \in {"preset", "idle"} /\ (stage' = "preset" => stage = "merge")
      /\ merged' = kept /\ UNCHANGED <<logs, todo, ended, stopped, reported>>
  BY DEF FinishMerge
<1>2. ToCome' = ToCome
  BY <1>1 DEF ToCome, Log, Undeclared, Complete
<1>3. ASSUME stage' = "preset", ~stopped, ~reported, NEW c \in ToCome
      PROVE  Pending(c)'
  BY <1>1, <1>3 DEF RecheckIInv, Covered, Pending
<1> QED  BY <1>1, <1>2, <1>3 DEF RecheckIInv, RecheckHolds, Covered

(* The re-check itself: nothing is left to run or to merge.                *)
LEMMA RecheckCovers ==
  ASSUME RecheckIInv, Recheck
  PROVE  todo' \subseteq File /\ RecheckHolds' /\ Covered'
<1>1. /\ stage = "preset" /\ todo = {} /\ shard = None
      /\ stage' = "idle" /\ todo' = {}
      /\ ended' = IF Undeclared(Missing) = {} THEN "ran" ELSE "missing"
      /\ UNCHANGED <<stopped, reported>>
  BY DEF Recheck, End, Idle
<1>2. ~stopped /\ ~reported => Undeclared(Missing) = {}
  BY <1>1, ToComeIsMissing DEF RecheckIInv, Covered, Pending
<1> QED  BY <1>1, <1>2 DEF RecheckHolds, Covered

LEMMA IdleCovers ==
  ASSUME RecheckIInv, Kill \/ CutMerge \/ (\E force \in BOOLEAN : MergeByHand(force))
                           \/ (\E f \in File : LoseLog(f))
  PROVE  todo' \subseteq File /\ RecheckHolds' /\ Covered'
<1>1. /\ stage' \in {"idle", "byhand"} /\ todo' \subseteq File
      /\ ended' = "killed" \/ ended' = ended
      /\ stopped' = stopped /\ (reported => reported')
  <2>1. todo \subseteq File
    BY DEF RecheckIInv
  <2>2. CASE Kill
    BY <2>2 DEF Kill, End, Idle
  <2>3. CASE CutMerge
    BY <2>3 DEF CutMerge, Idle
  <2>4. ASSUME NEW force \in BOOLEAN, MergeByHand(force)
        PROVE  /\ stage' = "byhand" /\ todo' = todo /\ ended' = ended /\ stopped' = stopped
               /\ reported => reported'
    BY <2>4 DEF MergeByHand, OpenMerged, shardVars
  <2>5. ASSUME NEW f \in File, LoseLog(f)
        PROVE  /\ stage' = "idle" /\ todo' = todo /\ ended' = ended /\ stopped' = stopped
               /\ reported => reported'
    BY <2>5 DEF LoseLog, shardVars
  <2> QED  BY <2>1, <2>2, <2>3, <2>4, <2>5
<1> QED  BY <1>1 DEF RecheckHolds, Covered, RecheckIInv

LEMMA RecheckStep == RecheckIInv /\ [GridNext]_gridVars => RecheckIInv'
<1> SUFFICES ASSUME RecheckIInv, [GridNext]_gridVars PROVE RecheckIInv'
  OBVIOUS
<1>1. WalkIInv' /\ GridIInv'
  BY WalkStep DEF RecheckIInv, WalkIInv
<1>2. CASE UNCHANGED gridVars
  BY <1>1, <1>2 DEF gridVars, mergedVars, shardVars, RecheckIInv, RecheckHolds, Covered, ToCome, Log,
                    Pending, Ahead, Undeclared, Complete
<1> QED
  BY <1>1, <1>2, ReproduceCovers, RunShardCovers, WalkCovers, ShardEndsCovers, ConsolidateCovers,
     FinishCovers, RecheckCovers, IdleCovers DEF GridNext, Command, RecheckIInv

(* The re-check reports cells missing only after a shard of its run        *)
(* stopped early, or after a merge said that two machines disagree: what   *)
(* grid_status plans, eval_shard.sh runs and consolidate_evals.py merges   *)
(* is the same set of cells, for every universe and shard count.           *)
THEOREM RecheckIsTheContract == GridSpec => []RecheckHolds
<1>1. GridInit => RecheckIInv
  BY WalkInit, NoneIsNothing DEF GridInit, RecheckIInv, RecheckHolds, Covered
<1>2. RecheckIInv => RecheckHolds
  BY DEF RecheckIInv
<1> QED  BY <1>1, <1>2, RecheckStep, PTL DEF GridSpec

=============================================================================
