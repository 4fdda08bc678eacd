------------------------------- MODULE CheckTx -------------------------------
(***************************************************************************)
(* The two mempools of a node.  The application's (LanedMempool) and the   *)
(* consensus engine's are kept in step by MempoolParityCheckTx             *)
(* (abci/checktx/mempool_parity_check_tx.go) around MEVCheckTxHandler      *)
(* (abci/checktx/mev_check_tx.go) around the base application's CheckTx.   *)
(*                                                                         *)
(* The consensus engine (external) calls CheckTx for a transaction it does *)
(* not hold, executes a block, commits it, and then rechecks what it still *)
(* holds, in order, before it checks anything new.  PrepareProposal and    *)
(* the execution of a block may fall anywhere between these calls, but for *)
(* a proposal between the execution of a block and its commit.             *)
(***************************************************************************)
EXTENDS LanedMempool

CONSTANTS
  Accounts,         \* signers
  Timeout,          \* bid -> the height it must be executed at
  MinBidIncrement,  \* what a bid must exceed the top bid by
  ConsMaxBytes,     \* consensus parameter Block.MaxBytes
  ConsMaxGas,       \* consensus parameter Block.MaxGas
  ReqMaxTxBytes,    \* MaxTxBytes of the PrepareProposal request
  MaxHeight,        \* heights from here on are not told apart
  Blocks            \* transaction lists that blocks may consist of

ASSUME CheckTxAssumptions ==
  /\ MEVLane \in ToSet(Lanes)
  /\ \A t \in Tx : Sender[t] \in Accounts
  /\ Match[MEVLane] \subseteq DOMAIN Timeout
  /\ MaxHeight \in Nat /\ \A b \in Match[MEVLane] : Timeout[b] \in 1 .. MaxHeight
  /\ MinBidIncrement \in Nat
  /\ \A k \in Blocks : k \in Seq(Tx)

VARIABLES
  height,     \* the last committed height
  committed,  \* committed sequence numbers
  check,      \* the base application's check state
  pools,      \* the application's mempool
  comet,      \* the consensus engine's mempool, in order
  pending,    \* the part of it that is still to be rechecked
  final,      \* <<>>, or <<k>> if block k has been executed and not committed
  dropped     \* of comet, removed by PrepareProposal and not rechecked since

vars == <<height, committed, check, pools, comet, pending, final, dropped>>

Init ==
  /\ height = 0
  /\ committed = [a \in Accounts |-> 0]
  /\ check = committed
  /\ pools = EmptyPools
  /\ comet = <<>> /\ pending = <<>> /\ final = <<>>
  /\ dropped = {}

-----------------------------------------------------------------------------
(* The base application's CheckTx (external): the ante handler on the check *)
(* state, and for a new transaction the insertion into the mempool.         *)

BaseCheckTx(t, isReCheck) ==
  IF ~AnteOk(check, t) THEN [ok |-> FALSE, pools |-> pools, check |-> check]
  ELSE LET ins == IF isReCheck THEN [ok |-> TRUE, pools |-> pools] ELSE LanedInsert(pools, t)
       IN  [ok |-> ins.ok, pools |-> ins.pools, check |-> [check EXCEPT ![Sender[t]] = @ + 1]]

-----------------------------------------------------------------------------
(* MEVCheckTxHandler *)

\* GetTopAuctionTx, as a set: none if the lane is empty.
TopAuctionTx ==
  {Head(order) : order \in Select(Range(pools[MEVLane])) \ {<<>>}}

\* Mutant: the timeout is a last height and not the next one.
TimeoutLax(b) == Timeout[b] >= height + 1

\* ValidateTimeout in the checking modes.
ValidateTimeout(b) == Timeout[b] = height + 1

\* ValidateAuctionBid: a bid other than the top bid must beat it by the increment.
ValidateAuctionBid(b, top) ==
  \A other \in top \ {b} : Priority[b] >= Priority[other] + MinBidIncrement

\* The bid and its bundle are valid on the committed state.
ValidateBidTx(b, top) ==
  /\ ValidateTimeout(b)
  /\ ValidateAuctionBid(b, top)
  /\ ToSet(Bundle[b]) \cap Undecodable = {}
  /\ VerifyBidTx(committed, b).ok

\* A bid that is not valid is removed from the lane if the lane contains it; a
\* valid one is inserted, whether the check is the first or not.
MEVCheckTx(t, isReCheck, top) ==
  IF t \notin Match[MEVLane] THEN BaseCheckTx(t, isReCheck)
  ELSE IF ValidateBidTx(t, top)
  THEN LET ins == LaneInsert(pools, MEVLane, t)
       IN  [ok |-> ins.ok, pools |-> ins.pools, check |-> check]
  ELSE [ok |-> FALSE, check |-> check,
        pools |-> IF LaneContains(pools, MEVLane, t) THEN LaneRemove(pools, MEVLane, t) ELSE pools]

-----------------------------------------------------------------------------
(* MempoolParityCheckTx *)

\* A lane matches the transaction and its share of the block can hold it.
MatchedAndFits(t) == \E l \in FirstMatch(t) : Size[t] <= Share(l, ConsMaxBytes)

\* Mutant: a transaction the application no longer holds is checked all the same.
RefusedAtOnceLax(t, isReCheck) == t \in Undecodable

\* Rejected before the wrapped handler is run.
RefusedAtOnce(t, isReCheck) ==
  t \in Undecodable \/ (isReCheck /\ ~LanedContains(pools, t))

\* Mutant: what fails a recheck stays in the application's mempool.
PurgesNever(isReCheck) == FALSE

\* A failing transaction is removed from the application's mempool on recheck only.
Purges(isReCheck) == isReCheck

ParityCheckTx(t, isReCheck, top) ==
  LET res == MEVCheckTx(t, isReCheck, top)
      ok == res.ok /\ MatchedAndFits(t)
  IN  IF RefusedAtOnce(t, isReCheck) THEN [ok |-> FALSE, pools |-> pools, check |-> check]
      ELSE [ok |-> ok, check |-> res.check,
            pools |-> IF ~ok /\ Purges(isReCheck) THEN LanedRemove(res.pools, t) ELSE res.pools]

\* The choices of the top bid: one of the possible ones, or none.
Tops == IF TopAuctionTx = {} THEN {{}} ELSE {{b} : b \in TopAuctionTx}

-----------------------------------------------------------------------------
(* The consensus engine's calls *)

\* The engine's mempool without some transactions.
Without(txs, gone) == FoldLeft(LAMBDA s, t : IF t \in gone THEN s ELSE Append(s, t), <<>>, txs)

\* CheckTx with type New.
CheckNew(t) ==
  /\ pending = <<>> /\ t \notin ToSet(comet)
  /\ \E top \in Tops :
       LET res == ParityCheckTx(t, FALSE, top)
       IN  /\ pools' = res.pools
           /\ check' = res.check
           /\ comet' = IF res.ok THEN Append(comet, t) ELSE comet
  /\ UNCHANGED <<height, committed, pending, final, dropped>>

\* CheckTx with type Recheck, for the next transaction of the round.
Recheck ==
  /\ pending # <<>>
  /\ \E top \in Tops :
       LET t == Head(pending)
           res == ParityCheckTx(t, TRUE, top)
       IN  /\ pools' = res.pools
           /\ check' = res.check
           /\ comet' = IF res.ok THEN comet ELSE Without(comet, {t})
           /\ dropped' = dropped \ {t}
  /\ pending' = Tail(pending)
  /\ UNCHANGED <<height, committed, final>>

\* FinalizeBlock: the base application removes each executed transaction from its
\* mempool.  The consensus engine votes for blocks that execute only.
FinalizeBlock(k) ==
  /\ final = <<>>
  /\ VerifyAll(committed, k).ok
  /\ \A b \in ToSet(k) \cap Match[MEVLane] : ValidateTimeout(b)
  /\ final' = <<k>>
  /\ pools' = FoldLeft(LanedRemove, pools, k)
  /\ UNCHANGED <<height, committed, check, comet, pending, dropped>>

\* Commit waits for a round of rechecks to end, resets the check state, and the
\* consensus engine forgets the block's transactions and starts a new round.
Commit ==
  /\ final # <<>> /\ pending = <<>>
  /\ height' = Min({height + 1, MaxHeight})
  /\ committed' = VerifyAll(committed, final[1]).ctx
  /\ check' = committed'
  /\ comet' = Without(comet, ToSet(final[1]))
  /\ pending' = comet'
  /\ dropped' = dropped \cap ToSet(comet')
  /\ final' = <<>>
  /\ UNCHANGED pools

-----------------------------------------------------------------------------
(* PrepareProposal, called when it is this node's turn to propose *)

\* Mutant: what a lane could not use stays in its mempool.
RemoveTxsFromLaneNever(held, l, txs) == held

\* All of txs: Remove fails only for transactions without a signer, which Insert refused.
RemoveTxsFromLane(held, l, txs) ==
  [held EXCEPT ![l] = Restrict(@, {s \in DOMAIN @ : @[s] \notin txs})]

\* A lane's part of it: the selection from its mempool, the removal of what it could
\* not use, and the update of the proposal, which may be refused.  The ante handler
\* takes bids for the height under construction only.
PrepareLane(run, l, order) ==
  LET limit == GetLaneLimits(run.proposal, l)
      s == IF l = MEVLane
           THEN FirstBid(run.ctx, order,
                  LAMBDA b : ValidateTimeout(b) /\ BidOk(run.ctx, run.proposal, limit, b))
           ELSE DefaultPrepare(l, run.ctx, run.proposal, limit, order)
      refused == UpdateFails(run.proposal, l, s.include)
  IN  [pools |-> RemoveTxsFromLane(run.pools, l, s.remove),
       ctx |-> IF refused THEN run.ctx ELSE s.ctx,
       proposal |-> IF refused THEN run.proposal ELSE Updated(run.proposal, l, s.include)]

\* How the lanes may come out of it: they have their turns on the committed state, and
\* each goes through its mempool in some order that Select allows.
Prepared ==
  FoldLeft(LAMBDA runs, l :
             UNION {{PrepareLane(run, l, order) : order \in Select(Range(run.pools[l]))} : run \in runs},
           {[pools |-> pools, ctx |-> committed,
             proposal |-> NewProposal(ReqMaxTxBytes, BlockGasLimit(ConsMaxGas))]},
           Lanes)

\* Nothing is done at the first height.  What the engine's mempool still holds of the
\* transactions that were removed is remembered.
PrepareProposal ==
  /\ final = <<>> /\ height >= 1
  /\ \E run \in Prepared : pools' = run.pools
  /\ dropped' = (dropped \cup (PoolTxs(pools) \ PoolTxs(pools'))) \cap ToSet(comet)
  /\ UNCHANGED <<height, committed, check, comet, pending, final>>

-----------------------------------------------------------------------------
Next ==
  \/ \E t \in Tx : CheckNew(t)
  \/ Recheck
  \/ \E k \in Blocks : FinalizeBlock(k)
  \/ Commit
  \/ PrepareProposal

Spec == Init /\ [][Next]_vars

\* There is a transaction that a proposal would remove: PrepareProposal is enabled.
Removable == final = <<>> /\ height >= 1 /\ \E run \in Prepared : run.pools # pools

\* Blocks keep coming, the consensus engine finishes each round of rechecks, and a
\* validator's turn to propose comes round again and again (strong fairness of
\* PrepareProposal, with its enabling condition written out).
FairSpec ==
  /\ Spec
  /\ WF_vars(Recheck) /\ WF_vars(Commit) /\ WF_vars(\E k \in Blocks : FinalizeBlock(k))
  /\ <>[](~Removable) \/ []<><<PrepareProposal>>_vars

-----------------------------------------------------------------------------
(* Properties *)

AppTxs == PoolTxs(pools)
Executing == {t \in Tx : \E i \in DOMAIN final : t \in ToSet(final[i])}

\* Between the commit of a block and the next execution, with all rechecks done.
AtRest == pending = <<>> /\ final = <<>>

\* The shape of the state.
TypeOK ==
  /\ height \in 0 .. MaxHeight
  /\ committed \in [Accounts -> Nat] /\ check \in [Accounts -> Nat]
  /\ \A l \in ToSet(Lanes) :
       \A s \in DOMAIN pools[l] : pools[l][s] \in Tx /\ Slot(pools[l][s]) = s
  /\ comet \in Seq(Tx) /\ pending \in Seq(Tx)
  /\ final \in {<<>>} \cup {<<k>> : k \in Blocks}
  /\ dropped \subseteq ToSet(comet)

\* mempool_parity_check_tx.go:17: the handler is there "to enforce parity in the
\* app-side / comet mempools".  One half of it: what the application holds, the
\* consensus engine holds.
AppWithinComet == AtRest => AppTxs \subseteq ToSet(comet)

\* Executed, now or before, or overtaken by another of its sequence number.
Spent(t) == t \in Executing \/ Nonce[t] < committed[Sender[t]]

\* Refused by CheckTx for its size, after the wrapped handler had inserted it.
Oversized(t) == \E l \in FirstMatch(t) : Size[t] > Share(l, ConsMaxBytes)

\* What is true of that half: a transaction that only the application holds has a used
\* sequence number and cannot be proposed again, or is too large for its lane, and
\* mempool_parity_check_tx.go:134 refused it without taking it back.
OrphansAccountedFor ==
  \A t \in AppTxs \ ToSet(comet) : Spent(t) \/ Oversized(t)

\* The other half: what the consensus engine holds and has nothing pending for is in
\* the application's mempool, but for what PrepareProposal has removed since and what
\* an executed block has taken the sequence number of.
CometWithinApp ==
  \A t \in ToSet(comet) \ (ToSet(pending) \cup dropped) :
    LanedContains(pools, t) \/ \E x \in Executing : Slot(x) = Slot(t)

\* CheckTx of one transaction does not take away another: what leaves the
\* application's mempool leaves the consensus engine's, or its slot is taken.
NoBystander ==
  [][(Recheck \/ \E t \in Tx : CheckNew(t)) =>
       \A u \in AppTxs \ PoolTxs(pools') :
         u \notin ToSet(comet') \/ \E v \in PoolTxs(pools') : Slot(u) = Slot(v)]_vars

\* Any bid the two mempools hold could win the next block: its timeout is the
\* next height and it executes, with its bundle, at the top of the block.
BidsExecutable ==
  AtRest => \A b \in Range(pools[MEVLane]) \cap ToSet(comet) :
              Timeout[b] = height + 1 /\ VerifyBidTx(committed, b).ok

\* block/mempool.go: Remove takes the transaction out of the mempool.  After the
\* execution of a block the application holds none of its transactions.
ExecutedLeave ==
  [][(\E k \in Blocks : FinalizeBlock(k)) => PoolTxs(pools') \cap ToSet(final'[1]) = {}]_vars

\* base/config.go: a lane with MaxBlockSpace zero has no limit, so its transactions
\* are not refused for their size and stay in both mempools.
UnlimitedLaneAdmits ==
  AtRest => \A l \in ToSet(Lanes) : MaxBlockSpace[l] = 0 => Range(pools[l]) \subseteq ToSet(comet)

\* A transaction PrepareProposal has removed does not linger in the consensus
\* engine's mempool: the next round of rechecks purges it.
Purged == \A t \in Tx : t \in dropped ~> t \notin ToSet(comet)

\* A transaction that only the application holds is spent or oversized, and no recheck
\* will come for it.  PrepareProposal is all that removes it (base/proposals.go:131), and it
\* does: the lane goes on behind transactions that do not fit, and a bid that hides
\* others has a timeout.
OrphansCleared ==
  \A t \in Tx : t \in AppTxs \ ToSet(comet) ~> t \notin AppTxs \ ToSet(comet)
=============================================================================
