------------------------ MODULE PriorityNonceMempool ------------------------
(***************************************************************************)
(* The mempool of one lane: block/base/priority_nonce.go behind the        *)
(* wrapper block/base/mempool.go.  Four indices describe the same set of   *)
(* transactions and are updated by hand on every Insert, Remove and        *)
(* Select.                                                                 *)
(*                                                                         *)
(* A transaction is known by its slot <<sender, nonce>> (its first         *)
(* signature) and an identity that tells two transactions of one slot      *)
(* apart.  Its priority comes from the context and the transaction, so it  *)
(* is an argument of Insert.  Priorities are naturals ordered by Compare;  *)
(* 0 is the type's zero value, which is also MinValue for the lanes built  *)
(* here (the empty bid of lanes/mev, the constant of base.DefaultTxPriority). *)
(***************************************************************************)
EXTENDS Integers, FiniteSets, Functions

CONSTANTS
  Senders,        \* signer addresses
  Nonces,         \* sequence numbers
  Ids,            \* what tells two transactions of one slot apart
  Unsigned,       \* transactions no signer can be extracted from
  Priorities,     \* priorities
  MaxTx,          \* cfg.MaxTx: 0 unlimited, negative drops everything
  HasTxReplacement, \* cfg.TxReplacement is set (NewMempool leaves it nil)
  SetKeepsKey     \* SkipList.Set on a key that compares equal keeps the old key

ASSUME MempoolAssumptions ==
  /\ Nonces \subseteq Nat
  /\ Priorities \subseteq Nat /\ 0 \in Priorities
  /\ MaxTx \in Int
  /\ HasTxReplacement \in BOOLEAN /\ SetKeepsKey \in BOOLEAN

Slots == Senders \X Nonces
Txs == [slot : Slots, id : Ids]

VARIABLES
  priorityIndex,  \* skip list: set of [priority, weight, slot, tx]
  priorityCounts, \* how many indexed transactions have each priority
  senderLists,    \* senders with an allocated list in senderIndices
  senderIndex,    \* the lists' elements: slot -> [priority, tx]
  scores          \* slot -> [priority, weight] of its priorityIndex key

vars == <<priorityIndex, priorityCounts, senderLists, senderIndex, scores>>

\* NewPriorityMempool
Init ==
  /\ priorityIndex = {}
  /\ priorityCounts = [p \in Priorities |-> 0]
  /\ senderLists = {}
  /\ senderIndex = [s \in {} |-> 0]
  /\ scores = [s \in {} |-> 0]

-----------------------------------------------------------------------------
(* Maps and skip lists *)

Put(f, s, v) == [x \in DOMAIN f \cup {s} |-> IF x = s THEN v ELSE f[x]]

Delete(f, s) == Restrict(f, DOMAIN f \ {s})

\* SkipList.Remove: drops the element whose key equals (priority, weight, slot).
RemoveKey(index, score, s) ==
  {e \in index : ~(e.priority = score.priority /\ e.weight = score.weight /\ e.slot = s)}

\* SkipList.Set in the priority index: the element of a key.
SetKey(index, score, s, tx) ==
  RemoveKey(index, score, s) \cup
    {[priority |-> score.priority, weight |-> score.weight, slot |-> s, tx |-> tx]}

\* SkipList.Set in a sender's list, which compares nonces only: an element that
\* is already there gets the new value, and keeps its key if SetKeepsKey.
SetSender(s, p, tx) ==
  LET key == IF SetKeepsKey /\ s \in DOMAIN senderIndex THEN senderIndex[s].priority ELSE p
  IN  Put(senderIndex, s, [priority |-> key, tx |-> tx])

\* CountTx
CountTx == Cardinality(priorityIndex)

\* Contains goes by slot: it does not compare transactions.
Contains(tx) == tx \in Txs /\ tx.slot \in DOMAIN scores

-----------------------------------------------------------------------------
(* Insert *)

\* Mutants: the bound is exceeded by one; a replaced transaction's old key stays;
\* its old count stays.
FullOffByOne == MaxTx > 0 /\ CountTx > MaxTx
WithoutOldKeepsKey(s) == priorityIndex
CountedTwice(s, p) == [q \in Priorities |-> priorityCounts[q] + (IF q = p THEN 1 ELSE 0)]

Full == MaxTx > 0 /\ CountTx >= MaxTx

\* The early returns of Insert leave the mempool as it was: at capacity, with a
\* negative MaxTx, without a signer, or when the replacement rule refuses.
InsertReturnsEarly(tx) ==
  /\ \/ Full
     \/ MaxTx < 0
     \/ tx \in Unsigned
     \/ HasTxReplacement /\ Contains(tx)
  /\ UNCHANGED vars

\* The index without the key of the transaction being replaced.
WithoutOld(s) ==
  IF s \in DOMAIN scores THEN RemoveKey(priorityIndex, scores[s], s) ELSE priorityIndex

\* The counts with the replaced priority taken out and the new one added.
Recounted(s, p) ==
  [q \in Priorities |-> priorityCounts[q]
      - (IF s \in DOMAIN scores /\ scores[s].priority = q THEN 1 ELSE 0)
      + (IF q = p THEN 1 ELSE 0)]

Insert(tx, p) ==
  LET s == tx.slot
      score == [priority |-> p, weight |-> 0]
  IN  /\ ~Full
      /\ MaxTx >= 0
      /\ senderLists' = senderLists \cup {s[1]}
      /\ priorityCounts' = Recounted(s, p)
      /\ senderIndex' = SetSender(s, p, tx)
      /\ scores' = Put(scores, s, score)
      /\ priorityIndex' = SetKey(WithoutOld(s), score, s, tx)

-----------------------------------------------------------------------------
(* Remove *)

\* No signer, or no score for the slot (ErrTxNotFound, which Mempool.Remove
\* turns into success): nothing changes.
RemoveReturnsEarly(tx) ==
  /\ tx \in Unsigned \/ ~Contains(tx)
  /\ UNCHANGED vars

Remove(tx) ==
  LET s == tx.slot
  IN  /\ s \in DOMAIN scores
      /\ s[1] \in senderLists
      /\ priorityIndex' = RemoveKey(priorityIndex, scores[s], s)
      /\ senderIndex' = Delete(senderIndex, s)
      /\ scores' = Delete(scores, s)
      /\ priorityCounts' = [priorityCounts EXCEPT ![scores[s].priority] = @ - 1]
      /\ UNCHANGED senderLists

-----------------------------------------------------------------------------
(* Select: the weights that break priority ties are recomputed first *)

\* senderWeight walks the sender's list from s and takes over each priority
\* that differs from the one it holds, so it ends with the last one.
SenderWeight(s) ==
  LET list == {r \in DOMAIN senderIndex : r[1] = s[1]}
      last == CHOOSE r \in list : \A q \in list : q[2] <= r[2]
  IN  senderIndex[last].priority

\* Mutant: a tie of two keeps the weights it has.
TiedOverTwo(e) == priorityCounts[e.priority] > 2

Tied(e) == priorityCounts[e.priority] > 1

Reweighed(e) == IF Tied(e) THEN [e EXCEPT !.weight = SenderWeight(e.slot)] ELSE e

\* reorderPriorityTies: each tied key is removed and set again, and so is the
\* slot's score.
ReorderedIndex == {Reweighed(e) : e \in priorityIndex}

ReorderedScores ==
  [s \in DOMAIN scores |->
     IF \E e \in priorityIndex : e.slot = s /\ Tied(e)
     THEN LET e == CHOOSE x \in priorityIndex : x.slot = s /\ Tied(x)
          IN  [priority |-> e.priority, weight |-> SenderWeight(s)]
     ELSE scores[s]]

Select ==
  /\ priorityIndex # {}
  /\ priorityIndex' = ReorderedIndex
  /\ scores' = ReorderedScores
  /\ UNCHANGED <<priorityCounts, senderLists, senderIndex>>

-----------------------------------------------------------------------------
Next ==
  \/ \E tx \in Txs \cup Unsigned : InsertReturnsEarly(tx)
  \/ \E tx \in Txs, p \in Priorities : Insert(tx, p)
  \/ \E tx \in Txs \cup Unsigned : RemoveReturnsEarly(tx)
  \/ \E tx \in Txs : Remove(tx)
  \/ Select

Spec == Init /\ [][Next]_vars

-----------------------------------------------------------------------------
(* Queries *)

\* NextSenderTx: nil without a list; otherwise the value at the front of the
\* list, which is read without a nil check.
NextSenderTx(sender) ==
  LET list == {r \in DOMAIN senderIndex : r[1] = sender}
      front == {r \in list : \A q \in list : r[2] <= q[2]}
  IN  [txs |-> {senderIndex[r].tx : r \in front},
       nilDereference |-> sender \in senderLists /\ list = {}]

-----------------------------------------------------------------------------
(* Properties *)

Scores == [priority : Priorities, weight : Priorities]

\* The shape of the four indices.
TypeOK ==
  /\ priorityIndex \subseteq
       [priority : Priorities, weight : Priorities, slot : Slots, tx : Txs]
  /\ priorityCounts \in [Priorities -> Nat]
  /\ senderLists \subseteq Senders
  /\ DOMAIN senderIndex \subseteq Slots
  /\ senderIndex \in [DOMAIN senderIndex -> [priority : Priorities, tx : Txs]]
  /\ DOMAIN scores \subseteq Slots
  /\ scores \in [DOMAIN scores -> Scores]

\* The key and value the priority index must hold for a slot.
Entry(s) ==
  [priority |-> scores[s].priority, weight |-> scores[s].weight,
   slot |-> s, tx |-> senderIndex[s].tx]

\* The indices describe one set of transactions: the sender lists hold exactly
\* the scored slots, and the priority index has exactly one entry for each, under
\* the key its score gives.  Remove and Insert find the entry to drop through the
\* score alone, so a disagreement would strand a transaction in the index.
IndicesAgree ==
  /\ IsFiniteSet(DOMAIN scores)
  /\ DOMAIN senderIndex = DOMAIN scores
  /\ \A s \in DOMAIN scores : s[1] \in senderLists /\ senderIndex[s].tx.slot = s
  /\ priorityIndex = {Entry(s) : s \in DOMAIN scores}

\* priorityCounts counts the scored transactions of each priority; it decides
\* which keys Select reorders, and IsEmpty expects it to return to zero.
CountsAgree ==
  \A p \in Priorities :
    priorityCounts[p] = Cardinality({s \in DOMAIN scores : scores[s].priority = p})

\* A bounded mempool never holds more than MaxTx transactions, whatever the mix
\* of inserts, replacements, removals and reorderings.
WithinCapacity == MaxTx > 0 => Cardinality(DOMAIN scores) <= MaxTx

\* The indices implement a bounded table with one transaction per slot, holding
\* the last one inserted with the priority it was inserted with.
Table == INSTANCE LaneMempool WITH
           pool <- [s \in DOMAIN scores |->
                      [tx |-> senderIndex[s].tx, priority |-> scores[s].priority]]

TableSpec == Table!Spec

\* priority_nonce.go:198-200: "If no such transaction exists, nil will be
\* returned."  NextSenderTx answers every sender with a transaction or nil.
NextSenderTxReturns ==
  \A sender \in Senders : ~NextSenderTx(sender).nilDereference
=============================================================================
