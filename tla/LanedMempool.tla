---------------------------- MODULE LanedMempool ----------------------------
(***************************************************************************)
(* The application's mempool (block/mempool.go): the lanes' mempools       *)
(* behind one interface.  Each lane's mempool is the table LaneMempool     *)
(* promises, here a partial function from slots to transactions.           *)
(*                                                                         *)
(* pools is a function from lane names to such tables.                     *)
(***************************************************************************)
EXTENDS LaneHandlers

CONSTANTS MaxTxs   \* lane -> capacity of its mempool; 0 is unlimited

ASSUME LanedMempoolAssumptions ==
  /\ \A i, j \in DOMAIN Lanes : Lanes[i] = Lanes[j] => i = j
  /\ ToSet(Lanes) = DOMAIN Match
  /\ MaxTxs \in [ToSet(Lanes) -> Nat]

EmptyPools == [l \in ToSet(Lanes) |-> [s \in {} |-> 0]]

\* The transactions held, over all lanes.
PoolTxs(pools) == UNION {Range(pools[l]) : l \in ToSet(Lanes)}

\* A lane's Contains goes by slot and is false without a signer.
LaneContains(pools, l, t) == t \notin Malformed /\ Slot(t) \in DOMAIN pools[l]

\* Contains: some lane does.
LanedContains(pools, t) == \E l \in ToSet(Lanes) : LaneContains(pools, l, t)

\* A lane's Remove.
LaneRemove(pools, l, t) ==
  [pools EXCEPT ![l] = Restrict(@, DOMAIN @ \ {Slot(t)})]

\* Mutant: from the lane that would be asked first.
LanedRemoveFirst(pools, t) == LaneRemove(pools, Lanes[1], t)

\* Remove: from the first lane that contains the transaction, and no other.
LanedRemove(pools, t) ==
  LET i == SelectInSeq(Lanes, LAMBDA l : LaneContains(pools, l, t))
  IN  IF i = 0 THEN pools ELSE LaneRemove(pools, Lanes[i], t)

\* Mutant: the table is keyed by the sender alone.
LaneInsertBySender(pools, l, t) ==
  [ok |-> TRUE,
   pools |-> [pools EXCEPT ![l] =
     [s \in DOMAIN @ \cup {<<Sender[t], 0>>} |-> IF s = <<Sender[t], 0>> THEN t ELSE @[s]]]]

\* A lane's Insert: refused at capacity, even for a slot that is taken.
LaneInsert(pools, l, t) ==
  IF t \in Malformed \/ (MaxTxs[l] > 0 /\ Cardinality(DOMAIN pools[l]) >= MaxTxs[l])
  THEN [ok |-> FALSE, pools |-> pools]
  ELSE [ok |-> TRUE,
        pools |-> [pools EXCEPT ![l] =
          [s \in DOMAIN @ \cup {Slot(t)} |-> IF s = Slot(t) THEN t ELSE @[s]]]]

\* Insert: into the first lane that matches; without one it succeeds and does nothing.
LanedInsert(pools, t) ==
  IF FirstMatch(t) = {} THEN [ok |-> TRUE, pools |-> pools]
  ELSE LaneInsert(pools, CHOOSE l \in FirstMatch(t) : TRUE, t)
=============================================================================
