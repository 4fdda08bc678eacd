------------------------ MODULE PriorityNonceIterator ------------------------
(***************************************************************************)
(* The iterator that Select returns (block/base/priority_nonce.go,         *)
(* iteratePriority and Next).  It walks the priority index; at each node   *)
(* it hands out transactions of the node's sender, in nonce order, until   *)
(* it meets one that must wait for the next node.                          *)
(*                                                                         *)
(* Next and iteratePriority call each other until there is a transaction   *)
(* to hand out; each call is a step here.  Whoever holds an iterator       *)
(* drains or drops it before the mempool changes: the handlers of a lane   *)
(* remove what they marked after their loop.                               *)
(***************************************************************************)
EXTENDS PriorityNonceMempool, MempoolOrder

\* Senders are naturals here, for the order of their strings.
ASSUME IteratorAssumptions == Senders \subseteq Nat

VARIABLES
  live,     \* an iterator is in use
  node,     \* its priority node: a set of one element, of none at the end
  cursors,  \* the senders met so far -> the slot last handed out
  order     \* history: the slots handed out

iterator == <<live, node, cursors, order>>
iterVars == <<vars, iterator>>

-----------------------------------------------------------------------------
(* Positions in the two skip lists *)

\* skiplistComparable under LessThanFunc: descending priority, weight, sender,
\* nonce.
KeyBefore(a, b) ==
  \/ a.priority > b.priority
  \/ a.priority = b.priority /\
     \/ a.weight > b.weight
     \/ a.weight = b.weight /\
        \/ a.slot[1] > b.slot[1]
        \/ a.slot[1] = b.slot[1] /\ a.slot[2] > b.slot[2]

\* The first of a set of nodes, if there is one.
First(nodes) == {e \in nodes : \A d \in nodes : d = e \/ KeyBefore(e, d)}

\* node.Next()
NextNode(e) == First({d \in priorityIndex : KeyBefore(e, d)})

\* Mutant: the comparator's arguments are not swapped, so nonces descend.
SenderNextDescending(sender) ==
  LET rest == {r \in DOMAIN senderIndex :
                 r[1] = sender /\ (sender \in DOMAIN cursors => r[2] < cursors[sender][2])}
  IN  {r \in rest : \A q \in rest : r[2] >= q[2]}

\* The sender's list ascends in the nonces: its front without a cursor, otherwise the
\* element behind the cursor, if there is one.
SenderNext(sender) ==
  LET rest == {r \in DOMAIN senderIndex :
                 r[1] = sender /\ (sender \in DOMAIN cursors => r[2] > cursors[sender][2])}
  IN  {r \in rest : \A q \in rest : r[2] <= q[2]}

\* Mutants: the iterator also waits when the next node ties; it never waits.
MustWaitOnEqual(e, r) == \E next \in NextNode(e) : senderIndex[r].priority <= next.priority
NeverWait(e, r) == FALSE

\* The sender's next transaction has a lower priority than the next node, or the same
\* and a lower weight: the iterator goes on to that node.
MustWait(e, r) ==
  \E next \in NextNode(e) :
    \/ senderIndex[r].priority < next.priority
    \/ senderIndex[r].priority = next.priority /\ scores[r].weight < next.weight

-----------------------------------------------------------------------------
(* The iterator's steps *)

\* Select reorders the ties and begins at the front of the index.
SelectIterator ==
  /\ Select
  /\ live' = TRUE
  /\ node' = First(priorityIndex')
  /\ cursors' = [s \in {} |-> 0]
  /\ order' = <<>>

\* Next hands out the transaction behind the sender's cursor.
HandOut ==
  /\ live
  /\ \E e \in node : \E r \in SenderNext(e.slot[1]) :
       /\ ~MustWait(e, r)
       /\ cursors' = Put(cursors, e.slot[1], r)
       /\ order' = Append(order, r)
  /\ UNCHANGED <<vars, live, node>>

\* At the end of the sender's list, or in front of a transaction that must wait, Next
\* calls iteratePriority.
IteratePriority ==
  /\ live
  /\ \E e \in node :
       /\ \A r \in SenderNext(e.slot[1]) : MustWait(e, r)
       /\ node' = NextNode(e)
  /\ UNCHANGED <<vars, live, cursors, order>>

\* The mempool is used, and no iterator with it.
Discard ==
  /\ live' = FALSE /\ node' = {}
  /\ cursors' = [s \in {} |-> 0] /\ order' = <<>>

IterInit ==
  /\ Init
  /\ live = FALSE /\ node = {}
  /\ cursors = [s \in {} |-> 0] /\ order = <<>>

IterNext ==
  \/ \E tx \in Txs, p \in Priorities : Insert(tx, p) /\ Discard
  \/ \E tx \in Txs : Remove(tx) /\ Discard
  \/ SelectIterator
  \/ HandOut
  \/ IteratePriority

IterSpec == IterInit /\ [][IterNext]_iterVars

-----------------------------------------------------------------------------
(* Properties *)

\* The elements of the sender's list after s, as senderWeight's cursor meets them.
After(s) ==
  LET later == {r \in DOMAIN senderIndex : r[1] = s[1] /\ r[2] > s[2]}
  IN  [i \in 1 .. Cardinality(later) |->
         CHOOSE r \in later : Cardinality({q \in later : q[2] <= r[2]}) = i]

\* priority_nonce.go:410-412: "Weight is defined as the first (nonce-wise) same
\* sender tx with a priority not equal to t."
WeightIsFirstDifferent ==
  \A s \in DOMAIN scores :
    LET others == SelectSeq(After(s), LAMBDA r : senderIndex[r].priority # senderIndex[s].priority)
    IN  others # <<>> => SenderWeight(s) = senderIndex[Head(others)].priority

CurrentPriority == [s \in DOMAIN scores |-> scores[s].priority]

\* A caller that drains the iterator sees every transaction of the mempool once:
\* no transaction is left out of every proposal, none is offered twice.
IteratorComplete == live /\ node = {} => CompleteOrder(order, DOMAIN scores)

\* The iterator never offers a transaction before one of the same sender with a
\* smaller nonce, which would fail its sequence check.
IteratorNonceOrder == NonceOrder(order, DOMAIN scores)

\* Each transaction offered has the greatest priority among those that may come
\* next in their sender's nonce order.
IteratorGreedy == GreedyOrder(order, DOMAIN scores, CurrentPriority)

\* "It is used to resolve priority collisions, that is when 2 or more txs from
\* different senders have the same priority" (priority_nonce.go:412-413): no
\* transaction of the same priority that could have been offered instead has a
\* greater weight in the lists as they stand.  A key's weight is zero when it is
\* inserted and goes stale with every change to its sender's list; Select renews
\* the keys that priorityCounts calls tied, and the iterator trusts them all.
IteratorBreaksTies ==
  \A i \in 1 .. Len(order) :
    \A s \in Heads(DOMAIN scores, HandedOut(order, i)) :
      scores[s].priority = scores[order[i]].priority => SenderWeight(s) <= SenderWeight(order[i])
=============================================================================
