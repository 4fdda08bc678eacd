----------------------------- MODULE LaneMempool -----------------------------
(***************************************************************************)
(* What a lane's mempool promises the lane: a bounded table with at most   *)
(* one transaction per (sender, nonce).                                    *)
(*                                                                         *)
(* A slot is a pair <<sender, nonce>>.  Removal goes by slot, whichever    *)
(* transaction the caller holds.                                           *)
(***************************************************************************)
EXTENDS Integers, FiniteSets

CONSTANTS
  Slots,        \* the (sender, nonce) pairs
  Txs,          \* transactions: records with a slot
  Priorities,   \* priorities, naturals
  MaxTx         \* capacity; 0 is unlimited, negative accepts and drops

VARIABLE pool   \* partial function from slots to [tx, priority]

Init == pool = [s \in {} |-> 0]

Insert(tx, p) ==
  /\ MaxTx >= 0
  /\ MaxTx > 0 => Cardinality(DOMAIN pool) < MaxTx
  /\ pool' = [s \in DOMAIN pool \cup {tx.slot} |->
                IF s = tx.slot THEN [tx |-> tx, priority |-> p] ELSE pool[s]]

Remove(tx) ==
  /\ tx.slot \in DOMAIN pool
  /\ pool' = [s \in DOMAIN pool \ {tx.slot} |-> pool[s]]

Next ==
  \/ \E tx \in Txs, p \in Priorities : Insert(tx, p)
  \/ \E tx \in Txs : Remove(tx)

Spec == Init /\ [][Next]_pool
=============================================================================
