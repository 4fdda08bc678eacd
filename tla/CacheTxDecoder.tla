--------------------------- MODULE CacheTxDecoder ---------------------------
(***************************************************************************)
(* The caching transaction decoder of block/utils/decoder.go: a map from   *)
(* transaction hash to decoded transaction, bounded by a ring of hashes    *)
(* (window) with a cursor where the next hash goes (insertIndex) and a     *)
(* cursor at the hash evicted next (oldestIndex).                          *)
(*                                                                         *)
(* Every method holds the mutex for its whole body, so one call is one     *)
(* step whatever the number of goroutines.  A decoded transaction is a     *)
(* function of its bytes, hence the cache is the set of its keys.          *)
(***************************************************************************)
EXTENDS Naturals, FiniteSets

CONSTANTS
  Hash,         \* hashes of the byte strings callers ask to decode
  Undecodable,  \* those the wrapped decoder returns an error for
  MaxSize,      \* capacity given to NewCacheTxDecoder
  NoHash        \* the empty string a fresh window is filled with

ASSUME MaxSizeAssumption == MaxSize \in Nat \ {0}
ASSUME HashAssumption == NoHash \notin Hash /\ Undecodable \subseteq Hash

VARIABLES
  cache,        \* keys of ctd.cache
  window,       \* ctd.window
  insertIndex,  \* ctd.insertIndex
  oldestIndex   \* ctd.oldestIndex

vars == <<cache, window, insertIndex, oldestIndex>>

Slots == 0 .. MaxSize - 1

\* NewCacheTxDecoder / NewDefaultCacheTxDecoder
Init ==
  /\ cache = {}
  /\ window = [i \in Slots |-> NoHash]
  /\ insertIndex = 0
  /\ oldestIndex = 0

\* Mutants of the definitions below: a purge one entry too late, a purge of the newest
\* entry.
MustPurgeLate == Cardinality(cache) > MaxSize
PurgedNewest ==
  IF Cardinality(cache) >= MaxSize
  THEN cache \ {window[(insertIndex + MaxSize - 1) % MaxSize]}
  ELSE cache

\* The window slot after i.
Advance(i) == (i + 1) % MaxSize

\* The purge, when the cache is full, of the hash the oldest cursor is at.
MustPurge == Cardinality(cache) >= MaxSize

Purged == IF MustPurge THEN cache \ {window[oldestIndex]} ELSE cache

\* A call with a hash that is cached returns the cached transaction.
DecodeHit(h) ==
  /\ h \in cache
  /\ UNCHANGED vars

\* A call the wrapped decoder fails on returns its error before any change.
DecodeError(h) ==
  /\ h \notin cache
  /\ h \in Undecodable
  /\ UNCHANGED vars

\* A call that decodes: purge if full, then cache and record the hash.
DecodeMiss(h) ==
  /\ h \notin cache
  /\ h \notin Undecodable
  /\ oldestIndex' = IF MustPurge THEN Advance(oldestIndex) ELSE oldestIndex
  /\ cache' = Purged \cup {h}
  /\ window' = [window EXCEPT ![insertIndex] = h]
  /\ insertIndex' = Advance(insertIndex)

TxDecoder(h) == DecodeHit(h) \/ DecodeError(h) \/ DecodeMiss(h)

Next == \E h \in Hash : TxDecoder(h)

Spec == Init /\ [][Next]_vars

-----------------------------------------------------------------------------
(* Properties *)

\* The shape of the decoder's fields.
TypeOK ==
  /\ cache \subseteq Hash
  /\ window \in [Slots -> Hash \cup {NoHash}]
  /\ insertIndex \in Slots
  /\ oldestIndex \in Slots

\* The number of slots in use, and the i-th oldest of them.
Used == Cardinality(cache)
Oldest(i) == window[(oldestIndex + i) % MaxSize]

\* Ring and map agree.  Until the ring has filled up the oldest cursor has not
\* moved and the slots below the insert cursor are the cached hashes; from then
\* on both cursors are at the same slot and every slot holds a cached hash.  No
\* hash occupies two slots.
RingMatchesCache ==
  /\ IsFiniteSet(cache)
  /\ Used <= MaxSize
  /\ Used < MaxSize => oldestIndex = 0 /\ insertIndex = Used
  /\ Used = MaxSize => insertIndex = oldestIndex
  /\ \A i, j \in 0 .. Used - 1 : window[i] = window[j] => i = j
  /\ cache = {window[i] : i \in 0 .. Used - 1}

\* The ring read from its oldest slot.
Queue == [i \in 1 .. Used |-> Oldest(i - 1)]

\* decoder.go:14-16: "The oldest transactions are removed first."  The ring
\* implements a first-in first-out cache of MaxSize entries.
Fifo == INSTANCE FifoCache WITH queue <- Queue

FifoSpec == Fifo!Spec
=============================================================================
