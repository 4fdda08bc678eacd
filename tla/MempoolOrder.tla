---------------------------- MODULE MempoolOrder ----------------------------
(***************************************************************************)
(* What a lane may assume of the order in which its mempool's iterator     *)
(* hands out transactions.  A pool is given by the set S of its slots      *)
(* <<sender, nonce>> and the function prio from slots to priorities; order *)
(* is the sequence of slots the iterator visits.                           *)
(***************************************************************************)
EXTENDS Naturals, Sequences, FiniteSets

\* The slots of S that come before s in the same sender's nonce order.
Before(S, s) == {r \in S : r[1] = s[1] /\ r[2] < s[2]}

\* Each sender's next slot once those in Done have been handed out.
Heads(S, Done) == {s \in S \ Done : Before(S, s) \subseteq Done}

HandedOut(order, i) == {order[j] : j \in 1 .. i - 1}

\* Every slot is handed out once.
CompleteOrder(order, S) ==
  /\ Len(order) = Cardinality(S)
  /\ {order[i] : i \in 1 .. Len(order)} = S

\* No transaction precedes one of its sender with a smaller nonce.
NonceOrder(order, S) ==
  \A i \in 1 .. Len(order) : Before(S, order[i]) \subseteq HandedOut(order, i)

\* The transaction handed out has the greatest priority among those whose
\* sender's earlier nonces have all been handed out.
GreedyOrder(order, S, prio) ==
  \A i \in 1 .. Len(order) :
    \A s \in Heads(S, HandedOut(order, i)) : prio[s] <= prio[order[i]]
=============================================================================
