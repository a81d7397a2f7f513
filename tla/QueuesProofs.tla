---------------------------- MODULE QueuesProofs ----------------------------
(***************************************************************************)
(* AsyncIo keeps its inductive invariant, and so its two properties, for   *)
(* every number, length and chunk size of files, every number of blocks    *)
(* and every queue depth; together with BufferProofs, none of the programs *)
(* that wait at queues leaves anything behind.                             *)
(***************************************************************************)
EXTENDS MCQueues, FiniteSetTheorems, SequenceTheorems, TLAPS

\* The chunk that a write appends: a run of numbers from the offset on.
LEMMA UnitsType ==
  ASSUME NEW o \in Nat, NEW n \in Nat
  PROVE  /\ Units(o, n) \in Seq(Nat)
         /\ Len(Units(o, n)) = n
         /\ \A u \in 1 .. n : Units(o, n)[u] = o + u - 1
<1>1. \A u \in 1 .. n : o + u - 1 \in Nat
  OBVIOUS
<1>2. QED
  BY <1>1 DEF Units

LEMMA UnitsFromStart ==
  ASSUME NEW n \in Nat
  PROVE  /\ Units(0, n) \in Seq(Nat)
         /\ Len(Units(0, n)) = n
         /\ \A u \in 1 .. n : Units(0, n)[u] = u - 1
BY UnitsType

LEMMA FileFinite == IsFiniteSet(File) /\ Cardinality(File) = nfiles
  BY AsyncAssumption, FS_Interval DEF File

LEMMA DisjointUnion ==
  ASSUME NEW S, NEW T, IsFiniteSet(S), IsFiniteSet(T), S \cap T = {}
  PROVE  /\ IsFiniteSet(S \cup T)
         /\ Cardinality(S \cup T) = Cardinality(S) + Cardinality(T)
<1>1. Cardinality(S \cup T) = Cardinality(S) + Cardinality(T) - Cardinality(S \cap T)
  BY FS_Union
<1>2. Cardinality(S \cap T) = 0
  BY FS_EmptySet
<1>3. Cardinality(S) \in Nat /\ Cardinality(T) \in Nat
  BY FS_CardinalityType
<1>4. QED
  BY <1>1, <1>2, <1>3, FS_Union

LEMMA BlockSets ==
  ASSUME AsyncTypeOK
  PROVE  /\ IsFiniteSet(prepared) /\ IsFiniteSet(inflight) /\ IsFiniteSet(cqes)
         /\ Cardinality(prepared) \in Nat /\ Cardinality(inflight) \in Nat
         /\ Cardinality(cqes) \in Nat
<1>1. IsFiniteSet(Block)
  BY AsyncAssumption, FS_Interval DEF Block
<1>2. IsFiniteSet(Outcome)
  <2>1. IsFiniteSet({"whole"})
    BY FS_Singleton
  <2>2. IsFiniteSet({"whole"} \cup {"short"})
    BY <2>1, FS_AddElement
  <2>3. IsFiniteSet(({"whole"} \cup {"short"}) \cup {"error"})
    BY <2>2, FS_AddElement
  <2>4. Outcome = ({"whole"} \cup {"short"}) \cup {"error"}
    BY DEF Outcome
  <2>5. QED
    BY <2>3, <2>4, Zenon
<1>3. IsFiniteSet(Block \X Outcome)
  BY <1>1, <1>2, FS_Product
<1>4. prepared \subseteq Block /\ inflight \subseteq Block /\ cqes \subseteq Block \X Outcome
  BY DEF AsyncTypeOK
<1>5. QED
  BY <1>1, <1>3, <1>4, FS_Subset, FS_CardinalityType

\* How many entries the loop of aio.c prepares: none of its bounds is
\* exceeded.
LEMMA RoomBounds ==
  ASSUME AsyncTypeOK, WriteInv, io # "merge", ioPc # "exit"
  PROVE  /\ Room \in Nat
         /\ Room <= QUEUE_DEPTH - (submitted - completed)
         /\ Room <= iterations - submitted
<1> DEFINE a == QUEUE_DEPTH - (submitted - completed)
           b == iterations - submitted
           c == QUEUE_DEPTH - Cardinality(prepared)
           P(n) == \A m \in {a, b, c} : n <= m
<1>1. /\ submitted \in Nat /\ completed \in Nat
      /\ submitted <= iterations /\ completed <= submitted
      /\ submitted - completed <= QUEUE_DEPTH
      /\ submitted - completed = Cardinality(prepared) + Cardinality(inflight) + Cardinality(cqes)
  BY DEF AsyncTypeOK, WriteInv, Open
<1>2. a \in Nat /\ b \in Nat /\ c \in Nat
  BY <1>1, BlockSets, AsyncAssumption
<1> HIDE DEF a, b, c
<1>3. \E n \in {a, b, c} : P(n)
  BY <1>2
<1>4. Room = CHOOSE n \in {a, b, c} : P(n)
  BY DEF Room, a, b, c
<1>5. Room \in {a, b, c} /\ P(Room)
  BY <1>3, <1>4
<1>6. QED
  BY <1>2, <1>5 DEF a, b, c

-----------------------------------------------------------------------------
(* Types *)

LEMMA TypeStep ==
  ASSUME AsyncTypeOK, WriteInv, [AsyncNext]_asyncVars
  PROVE  AsyncTypeOK'
<1>1. CASE UNCHANGED asyncVars
  BY <1>1 DEF asyncVars, mergeVars, writeVars, AsyncTypeOK
<1>2. ASSUME NEW f \in File, read_done(f)
      PROVE  AsyncTypeOK'
  <2>1. ret' \in [File -> -1 .. BUF_SIZE]
    <3>1. -1 \in -1 .. BUF_SIZE /\ 0 .. BUF_SIZE \subseteq -1 .. BUF_SIZE
      BY AsyncAssumption
    <3>2. PICK r \in -1 .. BUF_SIZE : ret' = [ret EXCEPT ![f] = r]
      BY <1>2, <3>1 DEF read_done
    <3>3. QED
      BY <3>2 DEF AsyncTypeOK
  <2>2. flawed' \subseteq File /\ io' = "merge"
    BY <1>2 DEF read_done, AsyncTypeOK
  <2>3. QED
    BY <1>2, <2>1, <2>2 DEF read_done, AsyncTypeOK, writeVars
<1>3. CASE aio_suspend
  BY <1>3, AsyncAssumption DEF aio_suspend, AsyncTypeOK, writeVars
<1>4. CASE skip
  BY <1>4, AsyncAssumption DEF skip, AsyncTypeOK, writeVars
<1>5. CASE copy
  <2>1. j \in File /\ j \in Nat /\ j' = j + 1 /\ j <= nfiles
    BY <1>5 DEF copy, AsyncTypeOK, File
  <2>2. ret[j] \in Nat /\ offset[j] \in Nat /\ offset' = [offset EXCEPT ![j] = offset[j] + ret[j]]
    BY <1>5, <2>1 DEF copy, AsyncTypeOK, next_offset
  <2>3. PICK n \in 0 .. ret[j], refused \in {{}, {j}} :
          /\ merged' = [merged EXCEPT ![j] = @ \o Units(offset[j], n)]
          /\ pending' = pending \cup ({j} \ refused)
          /\ active' = active \ refused
          /\ remaining' = IF refused = {} THEN remaining ELSE remaining - 1
          /\ flawed' = IF refused = {} /\ n = ret[j] THEN flawed ELSE flawed \cup {j}
    BY <1>5 DEF copy
  <2>4. merged[j] \o Units(offset[j], n) \in Seq(Nat)
    BY <2>1, <2>2, UnitsType DEF AsyncTypeOK
  <2>5. merged' \in [File -> Seq(Nat)]
    BY <2>1, <2>3, <2>4 DEF AsyncTypeOK
  <2>6. offset' \in [File -> Nat]
    BY <2>1, <2>2 DEF AsyncTypeOK
  <2>7. /\ remaining' \in Int /\ flawed' \subseteq File /\ io' = "merge"
        /\ active' \subseteq File /\ pending' \subseteq File
    <3>1. io = "merge" /\ io' = io /\ flawed \subseteq File
      BY <1>5 DEF copy, AsyncTypeOK
    <3>2. active \subseteq File /\ pending \subseteq File /\ remaining \in Int
      BY DEF AsyncTypeOK
    <3>3. flawed' \subseteq flawed \cup {j} /\ pending' \subseteq pending \cup {j} /\ active' \subseteq active
      BY <2>3
    <3>4. remaining' \in Int
      BY <2>3, <3>2
    <3>5. QED
      BY <2>1, <3>1, <3>2, <3>3, <3>4, Zenon
  <2>8. UNCHANGED <<io, ioPc, ret, writeVars>>
    BY <1>5 DEF copy
  <2>9. j' \in 1 .. nfiles + 1
    BY <2>1, AsyncAssumption
  <2>10. QED
    BY <2>5, <2>6, <2>7, <2>8, <2>9 DEF AsyncTypeOK, writeVars
<1>6. CASE write_fails
  BY <1>6 DEF write_fails, AsyncTypeOK, writeVars, mergeVars
<1>7. CASE close_file
  <2>1. j' \in 1 .. nfiles + 1 /\ remaining' \in Int /\ active' \subseteq File
    BY <1>7, AsyncAssumption DEF close_file, AsyncTypeOK
  <2>2. QED
    BY <1>7, <2>1 DEF close_file, AsyncTypeOK, writeVars
<1>8. CASE next_round
  BY <1>8 DEF next_round, AsyncTypeOK, writeVars, mergeVars
<1>9. ASSUME NEW b \in Block, write_done(b)
      PROVE  AsyncTypeOK'
  <2>1. PICK how \in Outcome :
          /\ cqes' = cqes \cup {<<b, how>>}
          /\ blocks' = IF how = "whole" THEN blocks \cup {b} ELSE blocks
          /\ flawed' = IF how = "whole" THEN flawed ELSE flawed \cup {b}
    BY <1>9 DEF write_done
  <2>2. cqes' \subseteq Block \X Outcome /\ blocks' \subseteq Block
    BY <2>1 DEF AsyncTypeOK
  <2>3. io # "merge"
    BY <1>9 DEF write_done
  <2>4. flawed' \subseteq Block
    BY <2>1, <2>3 DEF AsyncTypeOK
  <2>5. QED
    BY <1>9, <2>2, <2>3, <2>4 DEF write_done, AsyncTypeOK, mergeVars
<1>10. CASE submit_window
  <2>1. Room \in Nat /\ Room <= iterations - submitted /\ submitted \in Nat
    BY <1>10, RoomBounds DEF submit_window, AsyncTypeOK
  <2>2. prepared \cup submitted .. submitted + Room - 1 \subseteq Block
    BY <2>1, AsyncAssumption DEF AsyncTypeOK, Block
  <2>3. QED
    BY <1>10, <2>1, <2>2 DEF submit_window, AsyncTypeOK, mergeVars
<1>11. CASE reap
  BY <1>11, BlockSets DEF reap, AsyncTypeOK, mergeVars
<1>12. CASE issue
  <2>1. submitted = completed /\ completed < iterations /\ submitted \in Nat
    BY <1>12 DEF issue, AsyncTypeOK, WriteInv
  <2>2. submitted \in Block
    BY <2>1, AsyncAssumption DEF Block
  <2>3. QED
    <3>1. inflight' \subseteq Block /\ prepared' \subseteq Block /\ ioPc' \in {"reap", "exit"}
      BY <1>12, <2>2 DEF issue, AsyncTypeOK
    <3>2. submitted' \in Nat
      BY <1>12, <2>1 DEF issue
    <3>3. UNCHANGED <<io, flawed, mergeVars, completed, cqes, blocks>>
      BY <1>12 DEF issue
    <3>4. QED
      BY <3>1, <3>2, <3>3 DEF AsyncTypeOK, mergeVars
<1>13. CASE collect
  BY <1>13 DEF collect, AsyncTypeOK, mergeVars
<1>14. CASE wait_fails
  BY <1>14 DEF wait_fails, AsyncTypeOK, mergeVars, writeVars
<1>15. QED
  BY <1>1, <1>2, <1>3, <1>4, <1>5, <1>6, <1>7, <1>8, <1>9, <1>10, <1>11, <1>12, <1>13, <1>14
     DEF AsyncNext, Merge, Write, Kernel
-----------------------------------------------------------------------------
(* The merge *)

\* What the rest of the loop leaves alone.
LEMMA MergeUntouched ==
  ASSUME AsyncTypeOK, MergeInv, UNCHANGED <<io, mergeVars>>,
         io = "merge" => flawed' = flawed /\ ioPc' # "done"
  PROVE  MergeInv'
BY DEF MergeInv, mergeVars

\* The end of a read.
LEMMA MergeReadDone ==
  ASSUME AsyncTypeOK, MergeInv, NEW f \in File, read_done(f)
  PROVE  MergeInv'
<1>1. /\ io = "merge" /\ f \in pending /\ pending' = pending \ {f}
      /\ UNCHANGED <<io, ioPc, offset, active, merged, remaining>>
      /\ ioPc # "done"
  BY DEF read_done
<1>2. CASE \E n \in 0 .. BUF_SIZE :
             /\ offset[f] + n <= Length[f]
             /\ n = 0 => offset[f] = Length[f]
             /\ ret' = [ret EXCEPT ![f] = n]
             /\ UNCHANGED flawed
  <2>1. PICK n \in 0 .. BUF_SIZE :
          /\ offset[f] + n <= Length[f]
          /\ n = 0 => offset[f] = Length[f]
          /\ ret' = [ret EXCEPT ![f] = n]
          /\ UNCHANGED flawed
    BY <1>2
  <2>2. ret'[f] = n /\ n \in Nat /\ \A g \in File \ {f} : ret'[g] = ret[g]
    BY <2>1, AsyncAssumption DEF AsyncTypeOK
  <2>3. \A g \in active \ pending' :
          /\ offset[g] + ret'[g] <= Length[g]
          /\ ret'[g] = 0 => offset[g] = Length[g]
          /\ ret'[g] < 0 => g \in flawed
    BY <1>1, <2>1, <2>2 DEF MergeInv, AsyncTypeOK
  <2>4. QED
    BY <1>1, <2>1, <2>3 DEF MergeInv
<1>3. CASE ret' = [ret EXCEPT ![f] = -1] /\ flawed' = flawed \cup {f}
  <2>1. ret'[f] = -1 /\ \A g \in File \ {f} : ret'[g] = ret[g]
    BY <1>3 DEF AsyncTypeOK
  <2>2. offset[f] - 1 <= Length[f]
    BY AsyncAssumption DEF MergeInv, AsyncTypeOK, File
  <2>3. \A g \in active \ pending' :
          /\ offset[g] + ret'[g] <= Length[g]
          /\ ret'[g] = 0 => offset[g] = Length[g]
          /\ ret'[g] < 0 => g \in flawed'
    BY <1>1, <1>3, <2>1, <2>2 DEF MergeInv, AsyncTypeOK
  <2>4. \A g \in File \ flawed' : g \in File \ flawed
    BY <1>3
  <2>5. QED
    BY <1>1, <2>3, <2>4 DEF MergeInv
<1>4. QED
  BY <1>2, <1>3 DEF read_done

\* A file is closed: after an error, or at its end.
LEMMA MergeClose ==
  ASSUME AsyncTypeOK, MergeInv, close_file
  PROVE  MergeInv'
<1>1. /\ io = "merge" /\ j \in active \ pending /\ ret[j] <= 0
      /\ active' = active \ {j} /\ remaining' = remaining - 1
      /\ UNCHANGED <<io, ioPc, flawed, offset, pending, ret, merged>>
      /\ ioPc # "done"
  BY DEF close_file
<1>2. j \in File /\ ret[j] \in Int
  BY <1>1 DEF AsyncTypeOK
<1>3. IsFiniteSet(active)
  BY FileFinite, FS_Subset DEF AsyncTypeOK
<1>4. Cardinality(active') = Cardinality(active) - 1
  BY <1>1, <1>3, FS_RemoveElement
<1>5. \A f \in File \ flawed : f \notin active' => offset[f] = Length[f]
  <2>1. ret[j] = 0 \/ ret[j] < 0
    BY <1>1, <1>2
  <2>2. (ret[j] = 0 => offset[j] = Length[j]) /\ (ret[j] < 0 => j \in flawed)
    BY <1>1 DEF MergeInv
  <2>3. \A f \in File \ flawed : f \notin active => offset[f] = Length[f]
    BY <1>1 DEF MergeInv
  <2>4. \A f \in File : f \notin active' => f \notin active \/ f = j
    BY <1>1
  <2>5. QED
    BY ONLY <2>1, <2>2, <2>3, <2>4
<1>6. pending \subseteq active' /\ remaining' = Cardinality(active')
  BY <1>1, <1>4 DEF MergeInv
<1>7. \A f \in active' \ pending : f \in active \ pending
  BY <1>1
<1>8. QED
  BY <1>1, <1>5, <1>6, <1>7 DEF MergeInv

\* A chunk is written and the next one asked for.
LEMMA MergeCopy ==
  ASSUME AsyncTypeOK, MergeInv, copy
  PROVE  MergeInv'
<1>1. /\ io = "merge" /\ ioPc # "done" /\ j \in active \ pending /\ ret[j] > 0
      /\ offset' = [offset EXCEPT ![j] = offset[j] + ret[j]]
      /\ UNCHANGED <<io, ioPc, ret>>
  BY DEF copy, next_offset
<1>2. PICK n \in 0 .. ret[j], refused \in {{}, {j}} :
        /\ merged' = [merged EXCEPT ![j] = @ \o Units(offset[j], n)]
        /\ pending' = pending \cup ({j} \ refused)
        /\ active' = active \ refused
        /\ remaining' = IF refused = {} THEN remaining ELSE remaining - 1
        /\ flawed' = IF refused = {} /\ n = ret[j] THEN flawed ELSE flawed \cup {j}
  BY DEF copy
<1>3. /\ j \in File /\ ret[j] \in Nat /\ offset[j] \in Nat /\ n \in Nat
      /\ Length[j] \in Nat /\ merged[j] \in Seq(Nat)
  <2>1. j \in File
    BY <1>1 DEF AsyncTypeOK
  <2>2. Length[j] \in Nat
    BY <2>1, AsyncAssumption DEF File
  <2>3. ret[j] \in -1 .. BUF_SIZE /\ offset[j] \in Nat /\ merged[j] \in Seq(Nat)
    BY <2>1 DEF AsyncTypeOK
  <2>4. QED
    BY <1>1, <1>2, <2>1, <2>2, <2>3, AsyncAssumption
<1> DEFINE o == offset[j]
           m == merged[j]
           d == Units(o, n)
<1>4. /\ offset'[j] = o + ret[j] /\ merged'[j] = m \o d
      /\ \A g \in File \ {j} : offset'[g] = offset[g] /\ merged'[g] = merged[g]
  BY <1>1, <1>2, <1>3 DEF AsyncTypeOK
<1>5. /\ d \in Seq(Nat) /\ Len(d) = n /\ \A u \in 1 .. n : d[u] = o + u - 1
  BY <1>3, UnitsType
<1>6. /\ \A a \in 1 .. Len(m) : m[a] \in Nat /\ m[a] < o
      /\ \A a, b \in 1 .. Len(m) : a < b => m[a] < m[b]
      /\ o + ret[j] <= Length[j]
  BY <1>1, <1>3 DEF MergeInv
<1>types. o \in Nat /\ m \in Seq(Nat)
  BY <1>3
<1> HIDE DEF m, d, o
<1>7. /\ Len(m \o d) = Len(m) + n /\ Len(m) \in Nat
      /\ \A a \in 1 .. Len(m) : (m \o d)[a] = m[a]
      /\ \A a \in Len(m) + 1 .. Len(m) + n : (m \o d)[a] = o + (a - Len(m)) - 1
  <2>1. m \in Seq(Nat) /\ d \in Seq(Nat) /\ Len(d) = n /\ Len(m) \in Nat
    BY <1>3, <1>5 DEF m
  <2>2. /\ Len(m \o d) = Len(m) + n
        /\ \A a \in 1 .. Len(m) + n : (m \o d)[a] = IF a <= Len(m) THEN m[a] ELSE d[a - Len(m)]
    BY <2>1, ConcatProperties
  <2>3. ASSUME NEW a \in Len(m) + 1 .. Len(m) + n
        PROVE  (m \o d)[a] = o + (a - Len(m)) - 1
    BY <1>3, <1>5, <2>1, <2>2
  <2>4. QED
    BY <1>3, <2>1, <2>2, <2>3
<1>8. /\ \A a \in 1 .. Len(m \o d) : (m \o d)[a] < o + ret[j]
      /\ \A a, b \in 1 .. Len(m \o d) : a < b => (m \o d)[a] < (m \o d)[b]
  <2>1. ASSUME NEW a \in 1 .. Len(m \o d)
        PROVE  (m \o d)[a] < o + ret[j]
    <3>1. CASE a \in 1 .. Len(m)
      BY <1>2, <1>3, <1>6, <1>7, <1>types, <3>1
    <3>2. CASE a \in Len(m) + 1 .. Len(m) + n
      BY <1>2, <1>3, <1>7, <1>types, <3>2
    <3>3. QED
      BY <1>7, <1>types, <3>1, <3>2
  <2>2. ASSUME NEW a \in 1 .. Len(m \o d), NEW b \in 1 .. Len(m \o d), a < b
        PROVE  (m \o d)[a] < (m \o d)[b]
    <3>1. CASE b \in 1 .. Len(m)
      BY <1>6, <1>7, <2>2, <3>1
    <3>2. CASE b \in Len(m) + 1 .. Len(m) + n /\ a \in 1 .. Len(m)
      <4>1. (m \o d)[a] = m[a] /\ (m \o d)[b] = o + (b - Len(m)) - 1
        BY <1>7, <3>2
      <4>2. m[a] < o
        BY <1>6, <3>2
      <4>3. QED
        BY <1>3, <1>7, <1>types, <3>2, <4>1, <4>2
    <3>3. CASE b \in Len(m) + 1 .. Len(m) + n /\ a \in Len(m) + 1 .. Len(m) + n
      BY <1>3, <1>7, <1>types, <2>2, <3>3
    <3>4. QED
      BY <1>3, <1>7, <2>2, <3>1, <3>2, <3>3
  <2>3. QED
    BY <2>1, <2>2
<1>9. \A f \in File :
        /\ offset'[f] <= Length[f]
        /\ \A a \in 1 .. Len(merged'[f]) : merged'[f][a] < offset'[f]
        /\ \A a, b \in 1 .. Len(merged'[f]) : a < b => merged'[f][a] < merged'[f][b]
  <2>1. ASSUME NEW f \in File, f # j
        PROVE  /\ offset'[f] <= Length[f]
               /\ \A a \in 1 .. Len(merged'[f]) : merged'[f][a] < offset'[f]
               /\ \A a, b \in 1 .. Len(merged'[f]) : a < b => merged'[f][a] < merged'[f][b]
    BY <1>4, <2>1 DEF MergeInv
  <2>2. QED
    BY <1>3, <1>4, <1>6, <1>8, <2>1
<1>10. pending' \subseteq active' /\ remaining' = Cardinality(active')
  <2>1. CASE refused = {}
    BY <1>1, <1>2, <2>1 DEF MergeInv
  <2>2. CASE refused = {j}
    <3>1. IsFiniteSet(active)
      BY FileFinite, FS_Subset DEF AsyncTypeOK
    <3>2. Cardinality(active \ {j}) = Cardinality(active) - 1
      BY <1>1, <3>1, FS_RemoveElement
    <3>3. {j} # {} /\ pending' = pending /\ active' = active \ {j} /\ remaining' = remaining - 1
      BY <1>2, <2>2
    <3>4. QED
      BY <1>1, <3>2, <3>3 DEF MergeInv
  <2>3. QED
    BY <2>1, <2>2
<1>11. \A f \in active' \ pending' :
         /\ offset'[f] + ret[f] <= Length[f]
         /\ ret[f] = 0 => offset'[f] = Length[f]
         /\ ret[f] < 0 => f \in flawed'
  <2>1. ASSUME NEW f \in active' \ pending'
        PROVE  f # j /\ f \in active \ pending /\ f \in File
    BY <1>1, <1>2 DEF AsyncTypeOK
  <2>2. flawed \subseteq flawed'
    BY <1>2
  <2>3. QED
    BY <1>1, <1>4, <2>1, <2>2 DEF MergeInv
<1>12. \A f \in File \ flawed' :
         /\ merged'[f] = Units(0, offset'[f])
         /\ f \notin active' => offset'[f] = Length[f]
  <2>1. ASSUME NEW f \in File \ flawed', f # j
        PROVE  /\ merged'[f] = Units(0, offset'[f])
               /\ f \notin active' => offset'[f] = Length[f]
    <3>1. f \notin flawed /\ (f \notin active' => f \notin active)
      BY <1>2, <2>1
    <3>2. QED
      BY <1>1, <1>4, <2>1, <3>1 DEF MergeInv
  <2>2. ASSUME j \notin flawed'
        PROVE  j \in active' /\ m \o d = Units(0, o + ret[j])
    <3>1. refused = {} /\ n = ret[j] /\ j \notin flawed
      BY <1>2, <2>2
    <3>2. m = Units(0, o)
      BY <1>1, <1>3, <3>1 DEF MergeInv, m, o
    <3>3. Len(m) = o /\ \A a \in 1 .. o : m[a] = a - 1
      BY <1>3, <3>2, UnitsFromStart DEF o
    <3>4. m \o d \in Seq(Nat) /\ Len(m \o d) = o + ret[j]
          /\ \A a \in 1 .. o + ret[j] : (m \o d)[a] = a - 1
      <4>1. m \in Seq(Nat) /\ d \in Seq(Nat) /\ o \in Nat
        BY <1>3, <1>5 DEF m, o
      <4>2. ASSUME NEW a \in 1 .. o + ret[j]
            PROVE  (m \o d)[a] = a - 1
        BY <1>3, <1>7, <3>1, <3>3, <4>1, a \in 1 .. o \/ a \in o + 1 .. o + ret[j]
      <4>3. QED
        BY <1>7, <3>1, <3>3, <4>1, <4>2
    <3>5. Units(0, o + ret[j]) \in Seq(Nat) /\ Len(Units(0, o + ret[j])) = o + ret[j]
          /\ \A a \in 1 .. o + ret[j] : Units(0, o + ret[j])[a] = a - 1
      BY <1>3, o + ret[j] \in Nat, UnitsFromStart DEF o
    <3>6. m \o d = Units(0, o + ret[j])
      <4>1. \A a \in 1 .. o + ret[j] : (m \o d)[a] = Units(0, o + ret[j])[a]
        BY <3>4, <3>5
      <4>2. QED
        BY <3>4, <3>5, <4>1, SeqEqual
    <3>7. QED
      BY <1>1, <1>2, <3>1, <3>6
  <2>3. QED
    BY <1>4, <2>1, <2>2
<1>13. QED
  BY <1>1, <1>9, <1>10, <1>11, <1>12 DEF MergeInv

LEMMA MergeStep ==
  ASSUME AsyncTypeOK, MergeInv, [AsyncNext]_asyncVars
  PROVE  MergeInv'
<1>1. CASE UNCHANGED asyncVars
  BY <1>1 DEF asyncVars, mergeVars, MergeInv
<1>2. CASE aio_suspend
  BY <1>2 DEF aio_suspend, MergeInv
<1>3. CASE skip
  BY <1>3 DEF skip, MergeInv
<1>4. CASE write_fails
  BY <1>4, MergeUntouched DEF write_fails
<1>5. CASE next_round
  <2>1. IsFiniteSet(active) /\ remaining = Cardinality(active)
    BY FileFinite, FS_Subset DEF AsyncTypeOK, MergeInv
  <2>2. remaining \in Nat
    BY <2>1, FS_CardinalityType
  <2>3. ioPc' = "done" => remaining = 0
    BY <1>5, <2>2 DEF next_round
  <2>4. UNCHANGED <<io, flawed, mergeVars>>
    BY <1>5 DEF next_round
  <2>5. QED
    BY <2>3, <2>4 DEF mergeVars, MergeInv
<1>6. CASE Write
  <2>1. io # "merge" /\ UNCHANGED <<io, mergeVars>>
    BY <1>6 DEF Write, submit_window, reap, issue, collect, wait_fails
  <2>2. QED
    BY <2>1, MergeUntouched
<1>7. ASSUME NEW b \in Block, write_done(b)
      PROVE  MergeInv'
  <2>1. io # "merge" /\ UNCHANGED <<io, mergeVars>>
    BY <1>7 DEF write_done
  <2>2. QED
    BY <2>1, MergeUntouched
<1>8. QED
  BY <1>1, <1>2, <1>3, <1>4, <1>5, <1>6, <1>7, MergeCopy, MergeClose, MergeReadDone
     DEF AsyncNext, Merge, Kernel
-----------------------------------------------------------------------------
(* The writers *)

\* The end of a write moves a block from one queue to the other.
LEMMA WriteDone ==
  ASSUME AsyncTypeOK, WriteInv, NEW b \in Block, write_done(b)
  PROVE  WriteInv'
<1>1. /\ io # "merge" /\ b \in inflight /\ inflight' = inflight \ {b}
      /\ UNCHANGED <<io, ioPc, submitted, completed, prepared>>
  BY DEF write_done
<1>2. PICK how \in Outcome :
        /\ cqes' = cqes \cup {<<b, how>>}
        /\ blocks' = IF how = "whole" THEN blocks \cup {b} ELSE blocks
        /\ flawed' = IF how = "whole" THEN flawed ELSE flawed \cup {b}
  BY DEF write_done
<1>3. Ended' = Ended \cup {b}
  <2>1. Ended' = {c[1] : c \in cqes'} /\ Ended = {c[1] : c \in cqes}
    BY DEF Ended
  <2>2. <<b, how>>[1] = b
    OBVIOUS
  <2>3. \A x : x \in Ended' <=> x \in Ended \/ x = b
    BY <1>2, <2>1, <2>2, Zenon
  <2>4. QED
    BY <2>3
<1>4. <<b, how>> \notin cqes
  <2>1. <<b, how>> \in cqes => b \in Ended
    BY DEF Ended
  <2>2. QED
    BY <1>1, <2>1 DEF WriteInv
<1>5. Open' = Open
  <2>1. Cardinality(inflight') = Cardinality(inflight) - 1
    BY <1>1, BlockSets, FS_RemoveElement
  <2>2. Cardinality(cqes') = Cardinality(cqes) + 1
    BY <1>2, <1>4, BlockSets, FS_AddElement
  <2>3. Cardinality(prepared') = Cardinality(prepared)
    BY <1>1
  <2>4. QED
    BY <2>1, <2>2, <2>3, BlockSets DEF Open
<1>6. /\ prepared' \cap inflight' = {} /\ prepared' \cap Ended' = {} /\ inflight' \cap Ended' = {}
      /\ prepared' \cup inflight' \cup Ended' \subseteq 0 .. submitted - 1
  BY <1>1, <1>3 DEF WriteInv
<1>7. blocks' \cup flawed' = blocks \cup flawed \cup {b}
  BY <1>2
<1>8. prepared' \cup inflight' \cup blocks' \cup flawed' = prepared \cup inflight \cup blocks \cup flawed
  BY <1>1, <1>7
<1>9. io = "posix_aio" /\ ioPc # "exit" => \A x \in flawed' : \E c \in cqes' : c[1] = x /\ Fatal(c[2])'
  <2>1. SUFFICES ASSUME io = "posix_aio", ioPc # "exit", NEW x \in flawed'
                 PROVE  \E c \in cqes' : c[1] = x /\ Fatal(c[2])'
    OBVIOUS
  <2>2. \A h : Fatal(h)' <=> Fatal(h)
    BY <1>1 DEF Fatal
  <2>3. CASE x \in flawed
    BY <1>1, <1>2, <2>1, <2>2, <2>3 DEF WriteInv
  <2>4. CASE x \notin flawed
    <3>1. x = b /\ how # "whole"
      BY <1>2, <2>4
    <3>2. Fatal(how)
      BY <2>1, <3>1 DEF Fatal, Outcome
    <3>3. <<b, how>> \in cqes' /\ <<b, how>>[1] = b /\ <<b, how>>[2] = how
      BY <1>2
    <3>4. QED
      BY <2>2, <3>1, <3>2, <3>3, Zenon
  <2>5. QED
    BY <2>3, <2>4
<1>10. QED
  BY <1>1, <1>5, <1>6, <1>8, <1>9 DEF WriteInv

\* The window is filled, and the kernel takes some of the entries.
LEMMA WriteSubmit ==
  ASSUME AsyncTypeOK, WriteInv, submit_window
  PROVE  WriteInv'
<1> DEFINE new == submitted .. submitted + Room - 1
           queue == prepared \cup new
<1>1. /\ io = "aio" /\ ioPc = "loop" /\ ioPc' = "reap" /\ completed < iterations
      /\ submitted' = submitted + Room
      /\ UNCHANGED <<io, flawed, completed, cqes, blocks>>
  BY DEF submit_window
<1>2. PICK taken \in SUBSET queue : inflight' = inflight \cup taken /\ prepared' = queue \ taken
  BY DEF submit_window
<1>3. /\ Room \in Nat /\ submitted \in Nat /\ completed \in Nat /\ completed <= submitted
      /\ Room <= QUEUE_DEPTH - (submitted - completed)
      /\ Room <= iterations - submitted
  BY <1>1, RoomBounds DEF AsyncTypeOK, WriteInv
<1>4. /\ submitted' <= iterations /\ completed' <= submitted' /\ submitted' - completed' <= QUEUE_DEPTH
      /\ 0 .. submitted' - 1 = 0 .. submitted - 1 \cup new
      /\ new \cap 0 .. submitted - 1 = {}
  BY <1>1, <1>3, AsyncAssumption
<1>5. IsFiniteSet(new) /\ Cardinality(new) = Room
  BY <1>3, FS_Interval
<1> HIDE DEF new
<1>6. /\ prepared \cap inflight = {} /\ prepared \cap Ended = {} /\ inflight \cap Ended = {}
      /\ prepared \cup inflight \cup Ended \subseteq 0 .. submitted - 1
  BY DEF WriteInv
<1>7. Ended' = Ended
  BY <1>1 DEF Ended
<1>8. /\ prepared' \cap inflight' = {} /\ prepared' \cap Ended' = {} /\ inflight' \cap Ended' = {}
      /\ prepared' \cup inflight' \cup Ended' \subseteq 0 .. submitted' - 1
  BY <1>2, <1>4, <1>6, <1>7
<1>9. IsFiniteSet(queue) /\ Cardinality(queue) = Cardinality(prepared) + Room
  <2>1. prepared \cap new = {}
    BY <1>4, <1>6
  <2>2. QED
    BY <1>3, <1>5, <2>1, BlockSets, DisjointUnion
<1>10. /\ IsFiniteSet(taken) /\ Cardinality(taken) \in Nat
       /\ Cardinality(prepared') = Cardinality(queue) - Cardinality(taken)
  <2>1. IsFiniteSet(taken) /\ Cardinality(taken) \in Nat
    BY <1>2, <1>9, FS_Subset, FS_CardinalityType
  <2>2. queue \cap taken = taken
    BY <1>2
  <2>3. Cardinality(queue \ taken) = Cardinality(queue) - Cardinality(queue \cap taken)
    BY <1>9, FS_Difference
  <2>4. QED
    BY <1>2, <2>1, <2>2, <2>3
<1>11. Cardinality(inflight') = Cardinality(inflight) + Cardinality(taken)
  <2>1. inflight \cap taken = {}
    BY <1>2, <1>4, <1>6
  <2>2. QED
    BY <1>2, <1>10, <2>1, BlockSets, DisjointUnion
<1>12. Open' = Open + Room
  BY <1>1, <1>3, <1>9, <1>10, <1>11, BlockSets DEF Open
<1>13. submitted' - completed' = Open'
  BY <1>1, <1>3, <1>12, BlockSets DEF WriteInv, Open
<1>14. 0 .. submitted' - 1 = prepared' \cup inflight' \cup blocks' \cup flawed'
  <2>1. 0 .. submitted - 1 = prepared \cup inflight \cup blocks \cup flawed
    BY <1>1 DEF WriteInv
  <2>2. prepared' \cup inflight' = prepared \cup inflight \cup new
    BY <1>2
  <2>3. QED
    BY <1>1, <1>4, <2>1, <2>2
<1>15. QED
  BY <1>1, <1>4, <1>8, <1>13, <1>14 DEF WriteInv

\* Completions are counted: those of aio.c together, the others singly.
LEMMA WriteCollect ==
  ASSUME AsyncTypeOK, WriteInv, reap \/ collect
  PROVE  WriteInv'
<1>1. /\ io # "merge" /\ ioPc = "reap"
      /\ UNCHANGED <<io, flawed, submitted, prepared, inflight, blocks>>
  BY DEF reap, collect
<1>2. CASE ioPc' = "exit" /\ UNCHANGED <<completed, cqes>>
  BY <1>1, <1>2 DEF WriteInv, Ended
<1>3. ASSUME ~(ioPc' = "exit" /\ UNCHANGED <<completed, cqes>>)
      PROVE  WriteInv'
  <2>1. /\ submitted \in Nat /\ completed \in Nat /\ completed < iterations /\ submitted <= iterations
        /\ submitted - completed = Cardinality(prepared) + Cardinality(inflight) + Cardinality(cqes)
        /\ submitted - completed <= QUEUE_DEPTH
    BY <1>1 DEF AsyncTypeOK, WriteInv, Open
  <2> DEFINE p == Cardinality(prepared)
             q == Cardinality(inflight)
             r == Cardinality(cqes)
  <2>types. p \in Nat /\ q \in Nat /\ r \in Nat /\ QUEUE_DEPTH \in Nat
    BY BlockSets, AsyncAssumption
  <2> HIDE DEF p, q, r
  <2>sum. submitted - completed = p + q + r
    BY <2>1 DEF p, q, r
  <2>2. cqes # {} => r # 0
    BY BlockSets, FS_EmptySet DEF r
  <2>3. /\ cqes' = {} /\ completed' = completed + r
        /\ ioPc' = IF completed' < iterations THEN "loop" ELSE "done"
    <3>1. CASE reap
      BY <1>3, <3>1 DEF reap, r
    <3>2. CASE collect
      <4>1. /\ cqes' = {} /\ completed' = completed + 1 /\ cqes # {} /\ io # "aio"
            /\ ioPc' = IF completed' < iterations THEN "loop" ELSE "done"
        BY <1>3, <3>2 DEF collect
      <4>2. submitted = completed + 1
        BY <1>1, <4>1 DEF WriteInv
      <4>3. r = 1
        BY <2>1, <2>2, <2>types, <2>sum, <4>1, <4>2
      <4>4. QED
        BY <4>1, <4>3
    <3>3. QED
      BY <3>1, <3>2
  <2>4. Cardinality(cqes') = 0 /\ Ended' = {}
    BY <2>3, FS_EmptySet DEF Ended
  <2>5. /\ completed' \in Nat /\ completed' <= submitted /\ submitted - completed' <= QUEUE_DEPTH
        /\ submitted - completed' = Open'
    <3>1. Open' = p + q + 0
      BY <1>1, <2>4 DEF Open, p, q
    <3>2. QED
      BY <2>1, <2>3, <2>types, <2>sum, <3>1
  <2>6. IF ioPc' = "done" THEN completed' = iterations ELSE completed' < iterations
    BY <2>1, <2>3, <2>5, AsyncAssumption
  <2>7. io # "aio" => submitted = completed'
    <3>1. io # "aio" => submitted = completed + 1 /\ cqes # {}
      BY <1>1, <1>3 DEF WriteInv, reap, collect
    <3>2. QED
      BY <2>1, <2>2, <2>3, <2>types, <2>sum, <3>1
  <2>8. io = "posix_aio" => flawed = {}
    <3>1. io = "posix_aio" => ~\E c \in cqes : Fatal(c[2])
      BY <1>3 DEF reap, collect
    <3>2. QED
      BY <1>1, <3>1 DEF WriteInv
  <2>9. ioPc' # "reap" /\ ioPc' # "exit"
    BY <2>3
  <2>10. 0 .. submitted - 1 = prepared \cup inflight \cup blocks \cup flawed
    BY <1>1 DEF WriteInv
  <2>11. /\ prepared' \cap inflight' = {} /\ prepared' \cap Ended' = {} /\ inflight' \cap Ended' = {}
         /\ prepared' \cup inflight' \cup Ended' \subseteq 0 .. submitted - 1
    BY <1>1, <2>4 DEF WriteInv
  <2>12. io' # "aio" => submitted' = completed' + (IF ioPc' = "reap" THEN 1 ELSE 0)
    <3>1. (IF ioPc' = "reap" THEN 1 ELSE 0) = 0
      BY <2>9
    <3>2. \A k \in Nat : k + 0 = k
      OBVIOUS
    <3>3. QED
      BY <1>1, <2>5, <2>7, <3>1, <3>2, Zenon
  <2>13. QED
    BY <1>1, <2>1, <2>5, <2>6, <2>8, <2>10, <2>11, <2>12 DEF WriteInv
<1>4. QED
  BY <1>2, <1>3

\* A write is issued by a writer that waits for each.
LEMMA WriteIssue ==
  ASSUME AsyncTypeOK, WriteInv, issue
  PROVE  WriteInv'
<1>1. /\ io \in {"io_uring", "posix_aio"} /\ ioPc = "loop" /\ submitted' = submitted + 1
      /\ UNCHANGED <<io, flawed, completed, cqes, blocks>>
  BY DEF issue
<1>2. /\ submitted \in Nat /\ completed \in Nat /\ submitted = completed /\ completed < iterations
      /\ Cardinality(prepared) + Cardinality(inflight) + Cardinality(cqes) = 0
      /\ 0 .. submitted - 1 = prepared \cup inflight \cup blocks \cup flawed
      /\ io = "posix_aio" => \A b \in flawed : \E c \in cqes : c[1] = b /\ Fatal(c[2])
  BY <1>1, BlockSets DEF AsyncTypeOK, WriteInv, Open
<1>3. prepared = {} /\ inflight = {} /\ cqes = {}
  BY <1>2, BlockSets, FS_EmptySet
<1>4. /\ submitted' <= iterations /\ completed' <= submitted' /\ submitted' - completed' = 1
      /\ submitted' - completed' <= QUEUE_DEPTH
      /\ 0 .. submitted' - 1 = 0 .. submitted - 1 \cup {submitted}
  BY <1>1, <1>2, AsyncAssumption
<1>5. Ended' = {}
  BY <1>1, <1>3 DEF Ended
<1>6. CASE ioPc' = "exit" /\ UNCHANGED <<prepared, inflight>>
  BY <1>3, <1>4, <1>5, <1>6 DEF WriteInv
<1>7. CASE /\ ioPc' = "reap"
           /\ \/ inflight' = {submitted} /\ prepared' = {}
              \/ prepared' = {submitted} /\ inflight' = {}
  <2>1. Open' = 1
    <3>1. Cardinality({}) = 0 /\ Cardinality({submitted}) = 1
      BY FS_EmptySet, FS_Singleton
    <3>2. cqes' = {}
      BY <1>1, <1>3
    <3>3. QED
      BY <1>7, <3>1, <3>2 DEF Open
  <2>2. prepared' \cup inflight' = {submitted} /\ prepared' \cap inflight' = {}
    BY <1>7
  <2>3. io = "posix_aio" => flawed = {}
    BY <1>2, <1>3
  <2>4. 0 .. submitted' - 1 = prepared' \cup inflight' \cup blocks' \cup flawed'
    BY <1>1, <1>2, <1>3, <1>4, <2>2
  <2>5. submitted' = completed' + (IF ioPc' = "reap" THEN 1 ELSE 0)
    BY <1>1, <1>2, <1>7
  <2>6. completed' < iterations
    BY <1>1, <1>2
  <2>7. QED
    BY <1>1, <1>4, <1>5, <1>7, <2>1, <2>2, <2>3, <2>4, <2>5, <2>6 DEF WriteInv
<1>8. QED
  BY <1>3, <1>6, <1>7 DEF issue

LEMMA WriteStep ==
  ASSUME AsyncTypeOK, WriteInv, [AsyncNext]_asyncVars
  PROVE  WriteInv'
<1>1. CASE UNCHANGED asyncVars
  BY <1>1 DEF asyncVars, writeVars, WriteInv, Ended, Open, Fatal
<1>2. CASE Merge \/ \E f \in File : read_done(f)
  <2>1. io = "merge" /\ UNCHANGED <<io, writeVars>>
    BY <1>2 DEF Merge, aio_suspend, skip, copy, write_fails, close_file, next_round, read_done
  <2>2. QED
    BY <2>1 DEF writeVars, WriteInv, Ended
<1>3. CASE wait_fails
  BY <1>3 DEF wait_fails, writeVars, WriteInv, Ended
<1>4. QED
  BY <1>1, <1>2, <1>3, WriteDone, WriteSubmit, WriteCollect, WriteIssue DEF AsyncNext, Write, Kernel
-----------------------------------------------------------------------------
(* The theorems *)

LEMMA InvInit ==
  ASSUME AsyncInit
  PROVE  AsyncInv
<1>1. AsyncTypeOK
  BY AsyncAssumption DEF AsyncInit, AsyncTypeOK, File
<1>2. Units(0, 0) = << >>
  <2>1. Units(0, 0) \in Seq(Nat) /\ Len(Units(0, 0)) = 0
    BY UnitsFromStart
  <2>2. QED
    BY <2>1
<1>3. MergeInv
  <2>1. remaining = Cardinality(active)
    BY FileFinite DEF AsyncInit
  <2>2. /\ pending \subseteq active /\ ioPc # "done"
        /\ active \ pending = {} /\ \A f \in File : f \in active
    BY DEF AsyncInit
  <2>3. \A f \in File : offset[f] = 0 /\ merged[f] = << >> /\ Length[f] \in Nat
    BY AsyncAssumption DEF AsyncInit, File
  <2>4. \A f \in File :
          /\ offset[f] <= Length[f]
          /\ \A a \in 1 .. Len(merged[f]) : FALSE
          /\ merged[f] = Units(0, offset[f])
    BY <1>2, <2>3
  <2>5. QED
    BY <2>1, <2>2, <2>4 DEF MergeInv
<1>4. Open = 0 /\ Ended = {}
  BY FS_EmptySet DEF AsyncInit, Open, Ended
<1>5. WriteInv
  BY <1>4, AsyncAssumption DEF AsyncInit, WriteInv
<1>6. QED
  BY <1>1, <1>3, <1>5 DEF AsyncInv

\* The inductive invariant holds in every run.
THEOREM AsyncInvariance == AsyncSpec => []AsyncInv
<1>1. AsyncInit => AsyncInv
  BY InvInit
<1>2. AsyncInv /\ [AsyncNext]_asyncVars => AsyncInv'
  BY TypeStep, MergeStep, WriteStep DEF AsyncInv
<1>3. QED
  BY <1>1, <1>2, PTL DEF AsyncSpec

\* read_mlfa_and_merge.c copies every file in order and to its end, for any
\* number and length of files, any chunk size, and any order in which the
\* reads end.
THEOREM MergedInOrderHolds == AsyncSpec => []MergedInOrder
<1>1. AsyncInv => MergedInOrder
  <2>1. SUFFICES ASSUME AsyncInv PROVE MergedInOrder
    OBVIOUS
  <2>2. ASSUME io = "merge", ioPc = "done"
        PROVE  active = {}
    <3>1. IsFiniteSet(active) /\ Cardinality(active) = 0
      BY <2>1, <2>2, FileFinite, FS_Subset DEF AsyncInv, AsyncTypeOK, MergeInv
    <3>2. QED
      BY <3>1, FS_EmptySet
  <2>3. QED
    BY <2>1, <2>2 DEF AsyncInv, MergeInv, MergedInOrder
<1>2. QED
  BY <1>1, AsyncInvariance, PTL

\* The writers keep their window, and one that ends normally has no write in
\* flight and has counted every block, for any number of blocks and any queue
\* depth.
THEOREM WindowKeptHolds == AsyncSpec => []WindowKept
<1>1. AsyncInv => WindowKept
  <2>1. SUFFICES ASSUME AsyncInv PROVE WindowKept
    OBVIOUS
  <2>2. submitted - completed <= QUEUE_DEPTH
    BY <2>1 DEF AsyncInv, WriteInv
  <2>3. ASSUME ioPc = "done", io # "merge"
        PROVE  /\ prepared = {} /\ inflight = {} /\ cqes = {}
               /\ Block = blocks \cup flawed
               /\ io = "posix_aio" => Block = blocks
    <3>1. /\ submitted \in Nat /\ completed = iterations /\ submitted <= iterations /\ completed <= submitted
          /\ submitted - completed = Cardinality(prepared) + Cardinality(inflight) + Cardinality(cqes)
          /\ 0 .. submitted - 1 = prepared \cup inflight \cup blocks \cup flawed
          /\ io = "posix_aio" => \A b \in flawed : \E c \in cqes : c[1] = b /\ Fatal(c[2])
      BY <2>1, <2>3 DEF AsyncInv, AsyncTypeOK, WriteInv, Open
    <3>2. submitted = iterations
      BY <3>1, AsyncAssumption
    <3>3. Cardinality(prepared) = 0 /\ Cardinality(inflight) = 0 /\ Cardinality(cqes) = 0
      BY <2>1, <3>1, <3>2, BlockSets, AsyncAssumption DEF AsyncInv
    <3>4. prepared = {} /\ inflight = {} /\ cqes = {}
      BY <2>1, <3>3, BlockSets, FS_EmptySet DEF AsyncInv
    <3>5. QED
      BY <3>1, <3>2, <3>4 DEF Block
  <2>4. QED
    BY <2>2, <2>3 DEF WindowKept
<1>2. QED
  BY <1>1, AsyncInvariance, PTL
-----------------------------------------------------------------------------
(* The programs together. *)

BP == INSTANCE BufferProofs

LEMMA SameFinite ==
  /\ \A S : BP!Cardinality(S) = Cardinality(S)
  /\ \A S : BP!IsFiniteSet(S) = IsFiniteSet(S)
BY DEF BP!Cardinality, Cardinality, BP!IsFiniteSet, IsFiniteSet

\* What BufferProofs assumes of its constants.
LEMMA SameConstants ==
  /\ BP!IsFiniteSet(Client) /\ BP!IsFiniteSet(Worker) /\ Worker # {}
  /\ Requests \in Nat
  /\ main \notin Client \cup Worker
  /\ Client \cap Worker = {}
  /\ Size \in Nat \ {0}
BY SameFinite, RequestAssumption, SizeAssumption

LEMMA SameRequests ==
  /\ Init => BP!Init
  /\ Next => BP!Next
  /\ BP!ServiceInv => TypeOK /\ AllServed /\ NobodyStranded
<1>1. Init => BP!Init
  BY SameFinite DEF Init, BP!Init, InitBuffer, BP!InitBuffer, Producer, BP!Producer,
     Shutdown, BP!Shutdown
<1>2. Next => BP!Next
  <2> USE DEF Producer, BP!Producer, Shutdown, BP!Shutdown, Goto, BP!Goto
  <2>1. bufferVars = BP!bufferVars /\ ring = BP!ring /\ vars = BP!vars
    BY DEF bufferVars, BP!bufferVars, ring, BP!ring, vars, BP!vars
  <2>2. /\ \A t, item : Put(t, item) <=> BP!Put(t, item)
        /\ \A t : Get(t) <=> BP!Get(t)
    BY DEF Put, BP!Put, Get, BP!Get, Slot, BP!Slot, Signalled, BP!Signalled
  <2>3. /\ \A t : AwaitNotFull(t) <=> BP!AwaitNotFull(t)
        /\ \A t : AwaitNotEmpty(t) <=> BP!AwaitNotEmpty(t)
        /\ Spurious <=> BP!Spurious
    BY DEF AwaitNotFull, BP!AwaitNotFull, AwaitNotEmpty, BP!AwaitNotEmpty,
       Spurious, BP!Spurious, ring, BP!ring
  <2>4. \A t : draw_id(t) => BP!draw_id(t)
    BY DEF draw_id, BP!draw_id, bufferVars, BP!bufferVars, ring, BP!ring
  <2>5. \A t : enqueue(t) => BP!enqueue(t)
    BY <2>2, <2>3 DEF enqueue, BP!enqueue
  <2>6. \A t : dequeue(t) => BP!dequeue(t)
    BY <2>2, <2>3 DEF dequeue, BP!dequeue
  <2>7. /\ main_joins_clients => BP!main_joins_clients
        /\ main_shuts_down => BP!main_shuts_down
    BY DEF main_joins_clients, BP!main_joins_clients, main_shuts_down, BP!main_shuts_down,
       bufferVars, BP!bufferVars, ring, BP!ring
  <2>8. Terminated /\ UNCHANGED vars => BP!Terminated /\ UNCHANGED BP!vars
    BY DEF Terminated, BP!Terminated, vars, BP!vars, bufferVars, BP!bufferVars, ring, BP!ring
  <2> QED
    BY <2>3, <2>4, <2>5, <2>6, <2>7, <2>8 DEF Next, BP!Next, Step, BP!Step
<1>3. BP!ServiceInv => TypeOK /\ AllServed /\ NobodyStranded
  <2> SUFFICES ASSUME BP!ServiceInv PROVE TypeOK /\ AllServed /\ NobodyStranded
    OBVIOUS
  <2>1. BP!TypeOK /\ BP!AllServed /\ BP!NobodyStranded
    <3>1. BP!AllServed
      BY BP!ServedAll, SameConstants
    <3> QED
      BY <3>1 DEF BP!ServiceInv, BP!IInv
  <2>2. TypeOK
    BY <2>1 DEF BP!TypeOK, TypeOK, BP!BufferTypeOK, BufferTypeOK, BP!Item, Item,
       BP!Shutdown, Shutdown, BP!Producer, Producer
  <2>3. AllServed
    BY <2>1, SameFinite DEF BP!AllServed, AllServed, BP!Terminated, Terminated,
       BP!Shutdown, Shutdown
  <2>4. NobodyStranded
    BY <2>1, SameFinite DEF BP!NobodyStranded, NobodyStranded, BP!Producer, Producer
  <2> QED
    BY <2>2, <2>3, <2>4
<1> QED
  BY <1>1, <1>2, <1>3

\* The items of the producer-consumer program that runs.
Items == {PC!Made(p, n) : p \in 1 .. Producers, n \in 0 .. Each - 1}

\* The two producer-consumer programs of MCQueues are those of BufferProofs.
LEMMA SameConsumers ==
  /\ PC!Init => BP!PC!Init
  /\ PC!Next => BP!PC!Next
  /\ BP!ConsumersInv => PC!TypeOK /\ PC!LeavesLast
<1> USE DEF PC!Asks, BP!PC!Asks, PC!Queue, BP!PC!Queue, PC!total_to_produce,
            BP!PC!total_to_produce
<1>0. \A p, n : PC!Made(p, n) = BP!PC!Made(p, n)
  BY DEF PC!Made, BP!PC!Made
<1>1. PC!Init => BP!PC!Init
  BY DEF PC!Init, BP!PC!Init, PC!InitBuffer, BP!PC!InitBuffer
<1>2. PC!Next => BP!PC!Next
  <2>1. /\ \A t, item : PC!Put(t, item) <=> BP!PC!Put(t, item)
        /\ \A t : PC!Get(t) <=> BP!PC!Get(t)
    BY DEF PC!Put, BP!PC!Put, PC!Get, BP!PC!Get, PC!Slot, BP!PC!Slot,
       PC!Signalled, BP!PC!Signalled
  <2>2. /\ \A t : PC!AwaitNotFull(t) <=> BP!PC!AwaitNotFull(t)
        /\ \A t : PC!AwaitNotEmpty(t) <=> BP!PC!AwaitNotEmpty(t)
        /\ PC!Spurious <=> BP!PC!Spurious
    BY DEF PC!AwaitNotFull, BP!PC!AwaitNotFull, PC!AwaitNotEmpty, BP!PC!AwaitNotEmpty,
       PC!Spurious, BP!PC!Spurious, PC!ring, BP!PC!ring
  <2>3. \A p : PC!producer(p) => BP!PC!producer(p)
    BY <1>0, <2>1, <2>2 DEF PC!producer, BP!PC!producer
  <2>4. /\ \A c, l : PC!take_item(c, l) <=> BP!PC!take_item(c, l)
        /\ \A c, l : PC!await_item(c, l) <=> BP!PC!await_item(c, l)
    BY <2>1, <2>2 DEF PC!take_item, BP!PC!take_item, PC!await_item, BP!PC!await_item
  <2>5. \A c : PC!finish(c) <=> BP!PC!finish(c)
    BY DEF PC!finish, BP!PC!finish, PC!bufferVars, BP!PC!bufferVars, PC!ring, BP!PC!ring
  <2>6. \A c : PC!asking_consumer(c) => BP!PC!asking_consumer(c)
    BY <2>4, <2>5 DEF PC!asking_consumer, BP!PC!asking_consumer, PC!bufferVars,
       BP!PC!bufferVars, PC!ring, BP!PC!ring
  <2>7. \A c : PC!queue_consumer(c) => BP!PC!queue_consumer(c)
    BY <2>4, <2>5 DEF PC!queue_consumer, BP!PC!queue_consumer
  <2>8. PC!broadcast => BP!PC!broadcast
    BY DEF PC!broadcast, BP!PC!broadcast, PC!ring, BP!PC!ring
  <2> QED
    BY <2>2, <2>3, <2>6, <2>7, <2>8 DEF PC!Next, BP!PC!Next, PC!consumer, BP!PC!consumer
<1>3. BP!ConsumersInv => PC!TypeOK /\ PC!LeavesLast
  <2> SUFFICES ASSUME BP!ConsumersInv PROVE PC!TypeOK /\ PC!LeavesLast
    OBVIOUS
  <2>1. BP!PC!TypeOK /\ BP!PC!LeavesLast
    BY DEF BP!ConsumersInv
  <2>2. PC!TypeOK
    <3>1. BP!BufferTypeOK(BP!Items) /\ BP!Roles /\ BP!Balance
      BY BP!PCParts, SameConstants
    <3>2. Items = BP!Items
      BY DEF Items, BP!Items, PC!Made, BP!PC!Made
    <3>3. PC!BufferTypeOK(Items)
      BY <3>1, <3>2 DEF BP!BufferTypeOK, PC!BufferTypeOK
    <3>4. PC!TypeOK <=>
            PC!BufferTypeOK(Items)
            /\ not_full \subseteq {p \in 1 .. Producers : iterator[p] < Each}
            /\ not_empty \subseteq {c \in 1 .. Consumers : pc[c] \in {"loop", "wait loop"}}
            /\ consumed_total \in 0 .. PC!total_to_produce
            /\ iterator \in [1 .. Producers -> 0 .. Each]
            /\ pc \in [1 .. Consumers -> {"loop", "wait loop", "consumed", "finished"}]
            /\ main_at \in {"join producers", "join consumers"}
      BY DEF PC!TypeOK, Items
    <3> QED
      BY <3>1, <3>3, <3>4 DEF BP!Roles, BP!Balance
  <2> QED
    BY <2>1, <2>2 DEF BP!PC!LeavesLast, PC!LeavesLast
<1> QED
  BY <1>1, <1>2, <1>3

\* The inductive invariant of the programs together: each one's own while it
\* is the one that runs.
QueuesInv ==
  /\ AsyncInv
  /\ program = "pthread_db" => BP!ServiceInv
  /\ program \notin {"pthread_db", "async"} => BP!ConsumersInv

LEMMA SizesOK == BP!Sizes
BY QueuesAssumption DEF BP!Sizes

LEMMA QueuesInit ==
  ASSUME MCInit
  PROVE  QueuesInv
<1>1. CASE program = "pthread_db" /\ Init /\ NoConsumers /\ NoAsync
  BY <1>1, InvInit, SameRequests, SameConstants, BP!ServiceInit DEF NoAsync, QueuesInv
<1>2. CASE PC!Init /\ NoRequests /\ NoAsync
  <2>1. program \notin {"pthread_db", "async"}
    BY <1>2 DEF PC!Init, PC!Asks, PC!Queue
  <2>2. BP!ConsumersInv
    BY <1>2, SameConsumers, SameConstants, SizesOK, BP!ConsumersInit
  <2> QED
    BY <1>2, <2>1, <2>2, InvInit DEF NoAsync, QueuesInv
<1>3. CASE program = "async" /\ AsyncInit /\ Init /\ NoConsumers
  BY <1>3, InvInit DEF QueuesInv
<1> QED
  BY <1>1, <1>2, <1>3 DEF MCInit

LEMMA AsyncInvStep ==
  ASSUME AsyncInv, [AsyncNext]_asyncVars
  PROVE  AsyncInv'
BY TypeStep, MergeStep, WriteStep DEF AsyncInv

\* A program that does not run keeps its state.
LEMMA RequestsKeep ==
  ASSUME BP!ServiceInv, UNCHANGED vars
  PROVE  BP!ServiceInv'
<1>1. UNCHANGED BP!vars
  BY DEF vars, BP!vars, bufferVars, BP!bufferVars, ring, BP!ring
<1> QED
  BY <1>1, BP!ServiceStep, SameConstants

LEMMA ConsumersKeep ==
  ASSUME BP!ConsumersInv, UNCHANGED <<program, vars, consumerVars>>
  PROVE  BP!ConsumersInv'
<1>1. UNCHANGED BP!PC!vars
  BY DEF consumerVars, vars, bufferVars, ring, BP!PC!vars, BP!PC!bufferVars, BP!PC!ring
<1> QED
  BY <1>1, BP!ConsumersStutter, SameConstants

LEMMA QueuesStep ==
  ASSUME QueuesInv, [MCNext]_allVars
  PROVE  QueuesInv'
<1>1. CASE RunRequests(Next)
  <2>1. program = "pthread_db" /\ Next /\ program' = program /\ UNCHANGED asyncVars
    BY <1>1 DEF RunRequests
  <2>2. BP!ServiceInv'
    BY <2>1, SameRequests, SameConstants, BP!ServiceStep DEF QueuesInv
  <2>3. AsyncInv'
    BY <2>1, AsyncInvStep DEF QueuesInv
  <2> QED
    BY <2>1, <2>2, <2>3 DEF QueuesInv
<1>2. CASE RunPC(PC!Next)
  <2>1. program \notin {"pthread_db", "async"} /\ PC!Next /\ UNCHANGED asyncVars
    BY <1>2 DEF RunPC
  <2>2. BP!ConsumersInv'
    BY <2>1, SameConsumers, SameConstants, SizesOK, BP!ConsumersStep DEF QueuesInv
  <2>3. program' = program
    BY <2>1 DEF PC!Next, PC!producer, PC!consumer, PC!asking_consumer, PC!queue_consumer,
       PC!broadcast
  <2>4. AsyncInv'
    BY <2>1, AsyncInvStep DEF QueuesInv
  <2> QED
    BY <2>1, <2>2, <2>3, <2>4 DEF QueuesInv
<1>3. CASE RunAsync(AsyncNext)
  <2>1. program = "async" /\ AsyncNext /\ program' = program
    BY <1>3 DEF RunAsync
  <2>2. AsyncInv'
    BY <2>1, AsyncInvStep DEF QueuesInv
  <2> QED
    BY <2>1, <2>2 DEF QueuesInv
<1>4. CASE UNCHANGED allVars
  <2>1. UNCHANGED <<program, vars, consumerVars>> /\ UNCHANGED asyncVars /\ program' = program
    BY <1>4 DEF allVars
  <2>2. AsyncInv'
    BY <2>1, AsyncInvStep DEF QueuesInv
  <2> QED
    BY <2>1, <2>2, RequestsKeep, ConsumersKeep DEF QueuesInv
<1> QED
  BY <1>1, <1>2, <1>3, <1>4 DEF MCNext

\* Nothing is left behind, for any capacity of the buffer and any number of
\* threads, requests and items: pthread_db.c processes every request once and
\* signals often enough, and a consumer of the two other programs leaves only
\* when everything has been produced and consumed.
THEOREM NothingIsLeftBehind == MCSpec => []NothingLeftBehind
<1>1. QueuesInv => NothingLeftBehind
  BY SameRequests, SameConsumers DEF QueuesInv, NothingLeftBehind, AsyncInv
<1> QED
  BY <1>1, QueuesInit, QueuesStep, PTL DEF MCSpec
=============================================================================
