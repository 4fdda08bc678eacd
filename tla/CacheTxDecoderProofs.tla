------------------------ MODULE CacheTxDecoderProofs ------------------------
(***************************************************************************)
(* The ring of hashes and the map of the caching decoder agree for every   *)
(* capacity and every set of transactions.                                 *)
(***************************************************************************)
EXTENDS CacheTxDecoder, Sequences, FiniteSetTheorems, TLAPS

\* The inductive invariant: RingMatchesCache needs no strengthening but the types.
IInv == TypeOK /\ RingMatchesCache

\* A fresh decoder satisfies the invariant.
LEMMA InitInv == Init => IInv
<1> SUFFICES ASSUME Init PROVE IInv
  OBVIOUS
<1> USE MaxSizeAssumption DEF Slots
<1>1. IsFiniteSet(cache) /\ Used = 0
  BY FS_EmptySet DEF Init, Used
<1>2. TypeOK
  BY DEF Init, TypeOK
<1>3. RingMatchesCache
  BY <1>1 DEF Init, RingMatchesCache
<1> QED
  BY <1>2, <1>3 DEF IInv

\* A decode that caches a transaction preserves the invariant.
LEMMA MissInv ==
  ASSUME IInv, NEW h \in Hash, DecodeMiss(h)
  PROVE  IInv'
<1> USE MaxSizeAssumption DEF Slots
<1>0. Used \in Nat /\ IsFiniteSet(cache)
  BY FS_CardinalityType DEF IInv, RingMatchesCache, Used
<1>1. CASE ~MustPurge
  <2>1. Used < MaxSize
    BY <1>0, <1>1 DEF MustPurge, Used
  <2>2. cache' = cache \cup {h} /\ oldestIndex' = oldestIndex
    BY <1>1 DEF DecodeMiss, Purged
  <2>3. Used' = Used + 1 /\ IsFiniteSet(cache')
    BY <1>0, <2>2, FS_AddElement DEF DecodeMiss, Used
  <2>4. insertIndex = Used /\ oldestIndex = 0
    BY <2>1 DEF IInv, RingMatchesCache
  <2>5. insertIndex' = IF Used + 1 = MaxSize THEN 0 ELSE Used + 1
    BY <1>0, <2>1, <2>4 DEF DecodeMiss, Advance
  <2>6. window' = [window EXCEPT ![Used] = h]
    BY <2>4 DEF DecodeMiss
  <2>7. TypeOK'
    BY <1>0, <2>1, <2>2, <2>4, <2>5, <2>6 DEF IInv, TypeOK
  <2>8. \A i \in 0 .. Used - 1 : window'[i] = window[i] /\ window[i] \in cache
    BY <1>0, <2>1, <2>6 DEF IInv, TypeOK, RingMatchesCache
  <2>9. window'[Used] = h /\ h \notin cache
    BY <1>0, <2>1, <2>6 DEF IInv, TypeOK, DecodeMiss
  <2>10. \A i, j \in 0 .. Used : window'[i] = window'[j] => i = j
    BY <1>0, <2>8, <2>9 DEF IInv, RingMatchesCache
  <2>11. cache' = {window'[i] : i \in 0 .. Used}
    <3>1. cache = {window'[i] : i \in 0 .. Used - 1}
      BY <2>8 DEF IInv, RingMatchesCache
    <3>2. 0 .. Used = (0 .. Used - 1) \cup {Used}
      BY <1>0
    <3> QED
      BY <2>2, <2>9, <3>1, <3>2
  <2>12. Used' - 1 = Used
    BY <1>0, <2>3
  <2>13. RingMatchesCache'
    BY <1>0, <2>1, <2>2, <2>3, <2>4, <2>5, <2>10, <2>11, <2>12 DEF RingMatchesCache
  <2> QED
    BY <2>7, <2>13 DEF IInv
<1>2. CASE MustPurge
  <2>1. Used = MaxSize
    BY <1>0, <1>2 DEF MustPurge, Used, IInv, RingMatchesCache
  <2>2. insertIndex = oldestIndex /\ oldestIndex \in Slots
    BY <2>1 DEF IInv, RingMatchesCache, TypeOK
  <2>3. window[oldestIndex] \in cache
    BY <2>1, <2>2 DEF IInv, RingMatchesCache
  <2>4. cache' = (cache \ {window[oldestIndex]}) \cup {h}
    BY <1>2 DEF DecodeMiss, Purged
  <2>5. IsFiniteSet(cache') /\ Used' = MaxSize
    <3> DEFINE rest == cache \ {window[oldestIndex]}
    <3>1. IsFiniteSet(rest) /\ Cardinality(rest) = MaxSize - 1
      BY <1>0, <2>1, <2>3, FS_RemoveElement DEF Used
    <3>2. h \notin rest /\ cache' = rest \cup {h}
      BY <2>4 DEF DecodeMiss
    <3> HIDE DEF rest
    <3>3. IsFiniteSet(rest \cup {h}) /\ Cardinality(rest \cup {h}) = MaxSize - 1 + 1
      BY <3>1, <3>2, FS_AddElement
    <3> QED
      BY <3>2, <3>3 DEF Used
  <2>6. oldestIndex' = insertIndex' /\ insertIndex' \in Slots
    BY <1>2, <2>2 DEF DecodeMiss, Advance
  <2>7. window' = [window EXCEPT ![oldestIndex] = h] /\ h \notin cache
    BY <2>2 DEF DecodeMiss
  <2>8. TypeOK'
    BY <2>2, <2>4, <2>6, <2>7 DEF IInv, TypeOK
  <2>9. \A i, j \in Slots : window[i] = window[j] => i = j
    BY <2>1 DEF IInv, RingMatchesCache
  <2>10. cache = {window[i] : i \in Slots}
    BY <2>1 DEF IInv, RingMatchesCache
  <2>11. \A i \in Slots : window'[i] = IF i = oldestIndex THEN h ELSE window[i]
    BY <2>2, <2>7 DEF IInv, TypeOK
  <2>12. \A i, j \in Slots : window'[i] = window'[j] => i = j
    BY <2>7, <2>9, <2>10, <2>11
  <2>13. cache' = {window'[i] : i \in Slots}
    BY <2>2, <2>4, <2>9, <2>10, <2>11
  <2>14. RingMatchesCache'
    BY <2>5, <2>6, <2>12, <2>13 DEF RingMatchesCache
  <2> QED
    BY <2>8, <2>14 DEF IInv
<1> QED
  BY <1>1, <1>2

\* Every step preserves the invariant.
LEMMA NextInv == IInv /\ [Next]_vars => IInv'
<1> SUFFICES ASSUME IInv, [Next]_vars PROVE IInv'
  OBVIOUS
<1>1. CASE UNCHANGED vars
  BY <1>1 DEF vars, IInv, TypeOK, RingMatchesCache, Used
<1>2. ASSUME NEW h \in Hash, DecodeHit(h) \/ DecodeError(h) PROVE IInv'
  BY <1>2 DEF DecodeHit, DecodeError, vars, IInv, TypeOK, RingMatchesCache, Used
<1>3. ASSUME NEW h \in Hash, DecodeMiss(h) PROVE IInv'
  BY <1>3, MissInv
<1> QED
  BY <1>1, <1>2, <1>3 DEF Next, TxDecoder

\* The map and the ring of the decoder agree in every reachable state, so the
\* cache never outgrows MaxSize and evicts exactly the hash its ring names
\* (block/utils/decoder.go, TxDecoder).
THEOREM RingMatchesCacheThm == Spec => [](TypeOK /\ RingMatchesCache)
BY InitInv, NextInv, PTL DEF Spec, IInv

-----------------------------------------------------------------------------
(* The ring is a first-in first-out queue *)

\* A slot at most one turn ahead of the ring.
LEMMA Turn ==
  ASSUME NEW n \in 0 .. 2 * MaxSize - 1
  PROVE  n % MaxSize = IF n < MaxSize THEN n ELSE n - MaxSize
<1>1. MaxSize \in Nat \ {0} /\ n \in Nat
  BY MaxSizeAssumption
<1>2. CASE n < MaxSize
  BY <1>1, <1>2
<1>3. CASE n >= MaxSize
  <2>1. n - MaxSize \in 0 .. MaxSize - 1
    BY <1>1, <1>3
  <2>2. n = MaxSize * 1 + (n - MaxSize)
    BY <1>1
  <2> QED BY <1>1, <1>3, <2>1, <2>2
<1> QED BY <1>1, <1>2, <1>3

\* The queue lists the cached hashes.
QueueOk ==
  /\ Used \in 0 .. MaxSize
  /\ Queue \in Seq(Hash) /\ Len(Queue) = Used
  /\ \A i \in 1 .. Used : Queue[i] = window[(oldestIndex + i - 1) % MaxSize]
  /\ Fifo!ToSet(Queue) = cache

\* The invariant makes the occupied part of the ring that queue.
LEMMA QueueType == IInv => QueueOk
<1> SUFFICES ASSUME IInv PROVE QueueOk
  OBVIOUS
<1> USE MaxSizeAssumption DEF Slots
<1>1. Used \in Nat /\ Used <= MaxSize
  BY FS_CardinalityType DEF IInv, RingMatchesCache, Used
<1>2. /\ oldestIndex \in Slots /\ cache \subseteq Hash
      /\ cache = {window[i] : i \in 0 .. Used - 1}
      /\ Used < MaxSize => oldestIndex = 0
  BY DEF IInv, TypeOK, RingMatchesCache
<1>3. \A i \in 1 .. Used : Oldest(i - 1) = window[(oldestIndex + i - 1) % MaxSize]
  <2> SUFFICES ASSUME NEW i \in 1 .. Used
               PROVE  oldestIndex + (i - 1) = oldestIndex + i - 1
    BY DEF Oldest
  <2> QED BY <1>1, <1>2
<1>4. \A i \in 1 .. Used : (oldestIndex + i - 1) % MaxSize \in 0 .. Used - 1
  <2> SUFFICES ASSUME NEW i \in 1 .. Used
               PROVE  (oldestIndex + i - 1) % MaxSize \in 0 .. Used - 1
    OBVIOUS
  <2>1. /\ oldestIndex + i - 1 \in 0 .. 2 * MaxSize - 1
        /\ oldestIndex \in Int /\ i \in Int /\ MaxSize \in Int
    BY <1>1, <1>2
  <2>2. (oldestIndex + i - 1) % MaxSize =
          IF oldestIndex + i - 1 < MaxSize THEN oldestIndex + i - 1
          ELSE oldestIndex + i - 1 - MaxSize
    BY ONLY <2>1, Turn
  <2> QED BY <1>1, <1>2, <2>1, <2>2
<1>5. \A i \in 1 .. Used : Oldest(i - 1) \in cache
  BY <1>2, <1>3, <1>4
<1>6. \A k \in 0 .. Used - 1 : \E i \in 1 .. Used : window[k] = Oldest(i - 1)
  <2> SUFFICES ASSUME NEW k \in 0 .. Used - 1
               PROVE  \E i \in 1 .. Used : (oldestIndex + i - 1) % MaxSize = k
    BY <1>3
  <2> DEFINE i == IF k >= oldestIndex THEN k - oldestIndex + 1
                  ELSE k - oldestIndex + 1 + MaxSize
  <2>1. i \in 1 .. Used
    BY <1>1, <1>2
  <2>2. oldestIndex + i - 1 = IF k >= oldestIndex THEN k ELSE k + MaxSize
    BY <1>1, <1>2
  <2>3. (oldestIndex + i - 1) % MaxSize = k
    <3> HIDE DEF i
    <3>1. oldestIndex + i - 1 \in 0 .. 2 * MaxSize - 1
      BY <1>1, <1>2, <2>1
    <3> QED BY <1>1, <1>2, <2>2, <3>1, Turn
  <2> QED BY <2>1, <2>3
<1>7. Queue \in [1 .. Used -> Hash] /\ \A i \in 1 .. Used : Queue[i] = Oldest(i - 1)
  BY <1>2, <1>5 DEF Queue
<1>8. Queue \in Seq(Hash) /\ Len(Queue) = Used /\ DOMAIN Queue = 1 .. Used
  BY <1>1, <1>7
<1>9. Fifo!ToSet(Queue) = cache
  BY <1>2, <1>5, <1>6, <1>7, <1>8 DEF Fifo!ToSet
<1> QED BY <1>1, <1>3, <1>7, <1>8, <1>9 DEF QueueOk

\* A decode that caches a transaction appends it, and forgets the one at the head
\* of the queue if the cache is full.
LEMMA MissRemembers ==
  ASSUME IInv, NEW h \in Hash, DecodeMiss(h)
  PROVE  Fifo!Remember(h)
<1> USE MaxSizeAssumption DEF Slots
<1>1. /\ Used \in 0 .. MaxSize
      /\ Queue \in Seq(Hash) /\ Len(Queue) = Used
      /\ \A i \in 1 .. Used : Queue[i] = window[(oldestIndex + i - 1) % MaxSize]
      /\ Fifo!ToSet(Queue) = cache
  BY QueueType DEF QueueOk
<1>2. IInv'
  BY MissInv
<1>3. /\ Used' \in 0 .. MaxSize
      /\ Queue' \in Seq(Hash) /\ Len(Queue') = Used'
      /\ \A i \in 1 .. Used' : Queue'[i] = window'[(oldestIndex' + i - 1) % MaxSize]
  <2>1. QueueOk'
    BY <1>2, QueueType, PTL
  <2> QED BY <2>1 DEF QueueOk
<1>4. h \notin Fifo!ToSet(Queue)
  BY <1>1 DEF DecodeMiss
<1>5. /\ window \in [Slots -> Hash \cup {NoHash}] /\ oldestIndex \in Slots
      /\ IsFiniteSet(cache)
      /\ Used < MaxSize => oldestIndex = 0 /\ insertIndex = Used
      /\ Used = MaxSize => insertIndex = oldestIndex
  BY DEF IInv, TypeOK, RingMatchesCache
<1>6. CASE ~MustPurge
  <2>1. Used < MaxSize /\ Used \in Nat
    BY <1>1, <1>6 DEF MustPurge, Used
  <2>2. cache' = cache \cup {h} /\ h \notin cache /\ oldestIndex' = 0 /\ oldestIndex = 0
    BY <1>5, <1>6, <2>1 DEF DecodeMiss, Purged
  <2>3. Used' = Used + 1
    BY <1>5, <2>2, FS_AddElement DEF Used
  <2>4. window' = [window EXCEPT ![Used] = h]
    BY <1>5, <2>1 DEF DecodeMiss
  <2>5. \A i \in 1 .. Used + 1 : i - 1 \in Slots /\ (0 + i - 1) % MaxSize = i - 1
    BY <2>1
  <2>6. \A i \in 1 .. Used : Queue[i] = window[i - 1]
    BY <1>1, <2>1, <2>2, <2>5
  <2>7. \A i \in 1 .. Used + 1 : Queue'[i] = window'[i - 1]
    BY <1>3, <2>2, <2>3, <2>5
  <2>8. \A i \in 1 .. Used + 1 : Queue'[i] = IF i = Used + 1 THEN h ELSE Queue[i]
    <3> SUFFICES ASSUME NEW i \in 1 .. Used + 1
                 PROVE  Queue'[i] = IF i = Used + 1 THEN h ELSE Queue[i]
      OBVIOUS
    <3>1. Queue'[i] = window'[i - 1] /\ i - 1 \in Slots /\ Used \in Slots
      BY <2>1, <2>5, <2>7
    <3>2. window'[i - 1] = IF i - 1 = Used THEN h ELSE window[i - 1]
      BY ONLY <1>5, <2>4, <3>1
    <3>3. i - 1 = Used <=> i = Used + 1
      BY <2>1
    <3>4. i # Used + 1 => Queue[i] = window[i - 1]
      BY <2>1, <2>6
    <3> QED BY ONLY <3>1, <3>2, <3>3, <3>4
  <2>9. Queue' = Append(Queue, h)
    BY <1>1, <1>3, <2>1, <2>3, <2>8
  <2>10. Len(Queue) # MaxSize
    BY <1>1, <2>1
  <2> QED BY <1>4, <2>9, <2>10 DEF Fifo!Remember
<1>7. CASE MustPurge
  <2>1. Used = MaxSize
    BY <1>1, <1>7 DEF MustPurge, Used
  <2>2. insertIndex = oldestIndex /\ oldestIndex' = (oldestIndex + 1) % MaxSize
    BY <1>5, <1>7, <2>1 DEF DecodeMiss, Advance
  <2>3. window' = [window EXCEPT ![oldestIndex] = h]
    BY <2>2 DEF DecodeMiss
  <2>4. Used' = MaxSize
    <3>1. window[oldestIndex] \in cache
      <4>1. cache = {window[i] : i \in 0 .. Used - 1}
        BY DEF IInv, RingMatchesCache
      <4> QED BY <1>5, <2>1, <4>1
    <3> DEFINE kept == cache \ {window[oldestIndex]}
    <3>2. IsFiniteSet(kept) /\ Cardinality(kept) = MaxSize - 1
      BY <1>5, <2>1, <3>1, FS_RemoveElement DEF Used
    <3>3. h \notin kept /\ cache' = kept \cup {h}
      BY <1>7 DEF DecodeMiss, Purged
    <3> HIDE DEF kept
    <3>4. Cardinality(kept \cup {h}) = MaxSize - 1 + 1
      BY <3>2, <3>3, FS_AddElement
    <3> QED BY <3>3, <3>4 DEF Used
  <2> DEFINE At(i) == IF oldestIndex + i - 1 < MaxSize THEN oldestIndex + i - 1
                      ELSE oldestIndex + i - 1 - MaxSize
  <2>5. \A i \in 1 .. MaxSize + 1 : (oldestIndex + i - 1) % MaxSize = At(i)
    <3> SUFFICES ASSUME NEW i \in 1 .. MaxSize + 1
                 PROVE  (oldestIndex + i - 1) % MaxSize = At(i)
      OBVIOUS
    <3>1. /\ oldestIndex + i - 1 \in 0 .. 2 * MaxSize - 1
          /\ oldestIndex \in Int /\ i \in Int /\ MaxSize \in Int
      BY <1>5
    <3> QED BY ONLY <3>1, Turn
  <2>6. oldestIndex' = IF oldestIndex + 1 < MaxSize THEN oldestIndex + 1 ELSE 0
    <3>1. (oldestIndex + 1) % MaxSize =
            IF oldestIndex + 1 < MaxSize THEN oldestIndex + 1 ELSE oldestIndex + 1 - MaxSize
      <4>1. oldestIndex + 1 \in 0 .. 2 * MaxSize - 1 /\ oldestIndex \in Int /\ MaxSize \in Int
        BY <1>5
      <4> QED BY ONLY <4>1, Turn
    <3> QED BY <1>5, <2>2, <3>1
  <2>7. \A i \in 1 .. MaxSize : (oldestIndex' + i - 1) % MaxSize = At(i + 1)
    <3> SUFFICES ASSUME NEW i \in 1 .. MaxSize
                 PROVE  (oldestIndex' + i - 1) % MaxSize = At(i + 1)
      OBVIOUS
    <3> DEFINE n == oldestIndex' + i - 1
    <3>1. n \in 0 .. 2 * MaxSize - 1
      BY <1>5, <2>6
    <3> HIDE DEF n
    <3>2. n % MaxSize = IF n < MaxSize THEN n ELSE n - MaxSize
      BY <3>1, Turn
    <3>3. n = IF oldestIndex + 1 < MaxSize THEN oldestIndex + i ELSE i - 1
      BY <1>5, <2>6 DEF n
    <3>4. At(i + 1) = IF oldestIndex + i < MaxSize THEN oldestIndex + i
                      ELSE oldestIndex + i - MaxSize
      BY <1>5
    <3>5. n % MaxSize = At(i + 1)
      BY <1>5, <3>1, <3>2, <3>3, <3>4
    <3> QED BY <3>5 DEF n
  <2>8. \A i \in 1 .. MaxSize : /\ At(i) \in Slots /\ At(i + 1) \in Slots
                                /\ At(i + 1) = oldestIndex <=> i = MaxSize
    BY <1>5
  <2>9. /\ \A i \in 1 .. MaxSize : Queue[i] = window[At(i)]
        /\ \A i \in 1 .. MaxSize : Queue'[i] = window'[At(i + 1)]
    <3> HIDE DEF At
    <3>1. \A i \in 1 .. MaxSize : i \in 1 .. MaxSize + 1
      OBVIOUS
    <3>2. \A i \in 1 .. MaxSize : Queue[i] = window[At(i)]
      BY <1>1, <2>1, <2>5, <3>1
    <3>3. \A i \in 1 .. MaxSize : Queue'[i] = window'[At(i + 1)]
      BY <1>3, <2>4, <2>7
    <3> QED BY <3>2, <3>3
  <2> HIDE DEF At
  <2>10. \A i \in 1 .. MaxSize : Queue'[i] = IF i = MaxSize THEN h ELSE Queue[i + 1]
    <3> SUFFICES ASSUME NEW i \in 1 .. MaxSize
                 PROVE  Queue'[i] = IF i = MaxSize THEN h ELSE Queue[i + 1]
      OBVIOUS
    <3>1. Queue'[i] = window'[At(i + 1)] /\ At(i + 1) \in Slots
      BY <2>8, <2>9
    <3>2. window'[At(i + 1)] = IF At(i + 1) = oldestIndex THEN h ELSE window[At(i + 1)]
      BY ONLY <1>5, <2>3, <3>1
    <3>3. At(i + 1) = oldestIndex <=> i = MaxSize
      BY <2>8
    <3>4. i # MaxSize => Queue[i + 1] = window[At(i + 1)]
      BY <2>9
    <3> QED BY ONLY <3>1, <3>2, <3>3, <3>4
  <2>11. Queue' = Append(Tail(Queue), h)
    BY <1>1, <1>3, <2>1, <2>4, <2>10
  <2> QED BY <1>1, <1>4, <2>1, <2>11 DEF Fifo!Remember
<1> QED BY <1>6, <1>7

\* The decoder implements a first-in first-out cache of MaxSize entries: it evicts
\* the transaction it has held the longest, and only when it is full.
THEOREM FifoThm == Spec => FifoSpec
<1>1. Init => Fifo!Init
  <2> SUFFICES ASSUME Init PROVE Queue = <<>>
    BY DEF Fifo!Init
  <2>1. IInv /\ Used = 0
    BY InitInv, FS_EmptySet DEF Init, Used
  <2> QED BY <2>1, QueueType DEF QueueOk
<1>2. IInv /\ [Next]_vars => [Fifo!Next]_Queue
  <2> SUFFICES ASSUME IInv, [Next]_vars PROVE [Fifo!Next]_Queue
    OBVIOUS
  <2>1. CASE UNCHANGED vars
    BY <2>1 DEF vars, Queue, Used, Oldest
  <2>2. ASSUME NEW h \in Hash, DecodeHit(h) \/ DecodeError(h) PROVE UNCHANGED Queue
    BY <2>2 DEF DecodeHit, DecodeError, vars, Queue, Used, Oldest
  <2>3. ASSUME NEW h \in Hash, DecodeMiss(h) PROVE Fifo!Next
    BY <2>3, MissRemembers DEF Fifo!Next
  <2> QED BY <2>1, <2>2, <2>3 DEF Next, TxDecoder
<1> QED BY <1>1, <1>2, InitInv, NextInv, PTL DEF Spec, FifoSpec, Fifo!Spec
=============================================================================
