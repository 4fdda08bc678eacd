---------------------------- MODULE LaneHandlers ----------------------------
(***************************************************************************)
(* How a lane picks transactions for a proposal and verifies those of a    *)
(* proposal: the default handlers of block/base/proposals.go and the       *)
(* auction handlers of lanes/mev/abci.go.                                  *)
(*                                                                         *)
(* A context is the accounts' sequence numbers, which is the state the     *)
(* lanes make one another's transactions valid or invalid through.         *)
(***************************************************************************)
EXTENDS Proposals, MempoolOrder

CONSTANTS
  Lanes,      \* the registry: lane names in order
  Sender,     \* Tx -> account of the first signature
  Nonce,      \* Tx -> its sequence number
  Priority,   \* Tx -> GetTxPriority, in the lane that holds it
  Match,      \* lane -> transactions its match handler accepts
  MEVLane,    \* the lane with the auction handlers
  Bundle,     \* bid -> the bundled transactions, in order
  Invalid,    \* transactions the ante handler refuses whatever their sequence
  Malformed,  \* transactions GetTxInfo returns an error for
  Undecodable \* transactions the decoder fails on

ASSUME LaneAssumptions ==
  /\ Lanes \in Seq(DOMAIN Match)
  /\ \A t \in Tx : Nonce[t] \in Nat
  /\ \A l \in DOMAIN Match : Match[l] \subseteq Tx
  /\ MEVLane \in DOMAIN Match => \A b \in Match[MEVLane] : Bundle[b] \in Seq(Tx)

\* LanedMempool.Insert gives a transaction to the first lane that matches it.
FirstMatch(t) ==
  LET i == SelectInSeq(Lanes, LAMBDA l : t \in Match[l])
  IN  IF i = 0 THEN {} ELSE {Lanes[i]}

-----------------------------------------------------------------------------
(* The ante handler (external): sequence numbers must be consecutive. *)

AnteOk(ctx, t) == t \notin Invalid /\ Nonce[t] = ctx[Sender[t]]

\* Mutant: the branched context is never written back.
VerifyTxUnwritten(run, t) == [run EXCEPT !.ok = @ /\ AnteOk(run.ctx, t)]

\* VerifyTx runs the ante handler on a branch of the context, which is written
\* back only if it succeeds; a run of several stops at the first failure.  (The lane
\* has an ante handler: with none configured nothing is verified.)
VerifyTx(run, t) ==
  IF run.ok /\ AnteOk(run.ctx, t)
  THEN [run EXCEPT !.ctx[Sender[t]] = @ + 1]
  ELSE [run EXCEPT !.ok = FALSE]

VerifyAll(ctx, txs) == FoldLeft(VerifyTx, [ok |-> TRUE, ctx |-> ctx], txs)

-----------------------------------------------------------------------------
(* The lane's mempool, through what Select promises (see MempoolOrder). *)

Slot(t) == <<Sender[t], Nonce[t]>>

\* The orders in which Select may hand out a pool's transactions.
Select(pool) ==
  LET S == {Slot(t) : t \in pool}
      TxAt(s) == CHOOSE t \in pool : Slot(t) = s
      prio == [s \in S |-> Priority[TxAt(s)]]
  IN  {[i \in DOMAIN o |-> TxAt(o[i])] :
         o \in {q \in SetToSeqs(S) : NonceOrder(q, S) /\ GreedyOrder(q, S, prio)}}

\* Compare(this, other) # -1 without error: of one sender, the smaller sequence
\* number goes first; of two, the priority decides.
InOrder(this, other) ==
  IF Sender[this] = Sender[other]
  THEN Nonce[this] < Nonce[other]
  ELSE Priority[this] >= Priority[other]

-----------------------------------------------------------------------------
(* Default lane handlers *)

Selection(ctx) == [ctx |-> ctx, size |-> 0, gas |-> 0, include |-> <<>>, remove |-> {}]

\* The transaction cannot be part of any proposal of this lane.
Unusable(l, limit, t) ==
  \/ t \in Malformed
  \/ Gas[t] > limit.gas
  \/ Size[t] > limit.size
  \/ t \notin Match[l]

NoRoom(limit, s, t) ==
  \/ s.size + Size[t] > limit.size
  \/ Wrap(s.gas + Gas[t]) > limit.gas

\* Mutant: a transaction is selected without running the ante handler.
ConsiderUnverified(l, p, limit, s, t) ==
  IF Unusable(l, limit, t) THEN [s EXCEPT !.remove = @ \cup {t}]
  ELSE IF t \in p.cache \/ NoRoom(limit, s, t) THEN s
  ELSE [s EXCEPT !.size = @ + Size[t], !.gas = Wrap(@ + Gas[t]), !.include = Append(@, t)]

\* One iteration of PrepareLaneHandler: mark for removal, skip, or include.
Consider(l, p, limit, s, t) ==
  LET run == VerifyTx([ok |-> TRUE, ctx |-> s.ctx], t)
      skip == t \in p.cache \/ NoRoom(limit, s, t)
  IN  IF Unusable(l, limit, t) \/ (~skip /\ ~run.ok)
      THEN [s EXCEPT !.remove = @ \cup {t}]
      ELSE IF skip THEN s
      ELSE [s EXCEPT !.ctx = run.ctx, !.size = @ + Size[t],
                     !.gas = Wrap(@ + Gas[t]), !.include = Append(@, t)]

DefaultPrepare(l, ctx, p, limit, order) ==
  FoldLeft(LAMBDA s, t : Consider(l, p, limit, s, t), Selection(ctx), order)

\* The length of the longest prefix of txs that belongs to the lane.
OwnPrefix(l, txs) ==
  Max({n \in 0 .. Len(txs) : \A i \in 1 .. n : txs[i] \in Match[l]})

\* ProcessLaneHandler: the lane's transactions are a prefix, in priority order,
\* and valid; none of the remaining ones belongs to the lane.
DefaultProcess(l, ctx, txs) ==
  LET n == OwnPrefix(l, txs)
      own == SubSeq(txs, 1, n)
      run == VerifyAll(ctx, own)
  IN  [ok |-> /\ run.ok
              /\ \A i \in 2 .. n : InOrder(txs[i - 1], txs[i])
              /\ \A i \in n + 1 .. Len(txs) : txs[i] \notin Match[l],
       ctx |-> run.ctx, own |-> own, rest |-> SubSeq(txs, n + 1, Len(txs))]

-----------------------------------------------------------------------------
(* Auction lane handlers *)

WithBundle(b) == <<b>> \o Bundle[b]

\* VerifyBidBasic: the bid and its bundle decode, are new to the proposal and fit.
VerifyBidBasic(p, limit, b) ==
  /\ ToSet(WithBundle(b)) \cap (p.cache \cup Malformed \cup Undecodable) = {}
  /\ TotalSize(WithBundle(b)) <= limit.size
  /\ TotalGas(WithBundle(b)) <= limit.gas

\* Mutant: a bid may bundle another bid.
VerifyBidTxLax(ctx, b) == VerifyAll(ctx, WithBundle(b))

\* VerifyBidTx: the bid, then each bundled transaction, which must not be a bid.
VerifyBidTx(ctx, b) ==
  LET run == VerifyAll(ctx, WithBundle(b))
  IN  [run EXCEPT !.ok = @ /\ ToSet(Bundle[b]) \cap Match[MEVLane] = {}]

BidOk(ctx, p, limit, b) ==
  b \in Match[MEVLane] /\ VerifyBidBasic(p, limit, b) /\ VerifyBidTx(ctx, b).ok

\* PrepareLaneHandler: the first bid that is valid with its bundle; the bids
\* tried before it are marked for removal.
FirstBid(ctx, order, Ok(_)) ==
  LET first == SelectInSeq(order, Ok)
  IN  IF first = 0
      THEN [Selection(ctx) EXCEPT !.remove = ToSet(order)]
      ELSE [Selection(ctx) EXCEPT !.remove = ToSet(SubSeq(order, 1, first - 1)),
                                  !.include = WithBundle(order[first]),
                                  !.ctx = VerifyBidTx(ctx, order[first]).ctx]

MEVPrepare(ctx, p, limit, order) ==
  FirstBid(ctx, order, LAMBDA b : BidOk(ctx, p, limit, b))

\* ProcessLaneHandler: without a bid in front there is none at all; behind a bid
\* come its bundled transactions, and the rest is left to the other lanes.
MEVProcess(ctx, txs) ==
  LET b == Head(txs)
      n == Len(WithBundle(b))
      run == VerifyBidTx(ctx, b)
  IN  IF b \notin Match[MEVLane]
      THEN [ok |-> ToSet(txs) \cap Match[MEVLane] = {}, ctx |-> ctx, own |-> <<>>, rest |-> txs]
      ELSE [ok |-> n <= Len(txs) /\ SubSeq(txs, 1, n) = WithBundle(b) /\ run.ok,
            ctx |-> run.ctx, own |-> WithBundle(b), rest |-> SubSeq(txs, n + 1, Len(txs))]

-----------------------------------------------------------------------------
PrepareLaneHandler(l, ctx, p, limit, order) ==
  IF l = MEVLane THEN MEVPrepare(ctx, p, limit, order)
  ELSE DefaultPrepare(l, ctx, p, limit, order)

ProcessLaneHandler(l, ctx, txs) ==
  IF l = MEVLane THEN MEVProcess(ctx, txs) ELSE DefaultProcess(l, ctx, txs)
=============================================================================
