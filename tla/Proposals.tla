------------------------------ MODULE Proposals ------------------------------
(***************************************************************************)
(* The block proposal under construction or verification                   *)
(* (block/proposals): its transactions, the set of their hashes and the    *)
(* running totals that every lane's contribution is checked against.       *)
(*                                                                         *)
(* A transaction stands for its bytes and its hash.  Sizes are int64, gas  *)
(* is uint64 and wraps at GasModulus.                                      *)
(***************************************************************************)
EXTENDS Integers, FiniteSets, SequencesExt

CONSTANTS
  Tx,             \* transactions
  Size,           \* Tx -> bytes
  Gas,            \* Tx -> gas limit
  MaxBlockSpace,  \* lane -> percentage of the block it may use; 0 is no limit
  GasModulus      \* 2^64

ASSUME ProposalsAssumptions ==
  /\ GasModulus \in Nat \ {0}
  /\ \A t \in Tx : Size[t] \in Nat /\ Gas[t] \in 0 .. GasModulus - 1
  /\ \A l \in DOMAIN MaxBlockSpace : MaxBlockSpace[l] \in 0 .. 100

Wrap(gas) == gas % GasModulus

\* The gas limit of GetBlockLimits: a consensus parameter that is not positive
\* means no limit.
BlockGasLimit(maxGas) == IF maxGas > 0 THEN maxGas ELSE GasModulus - 1

\* The struct Proposal with its Info, once the given lanes have contributed to it.
Proposal(lanes) ==
  [txs : Seq(Tx), cache : SUBSET Tx, txsByLane : [lanes -> Nat],
   size : Nat, gas : 0 .. GasModulus - 1, maxSize : Int, maxGas : Int]

NewProposal(maxSize, maxGas) ==
  [txs |-> <<>>, cache |-> {}, txsByLane |-> [l \in {} |-> 0],
   size |-> 0, gas |-> 0, maxSize |-> maxSize, maxGas |-> maxGas]

TotalSize(txs) == FoldLeft(LAMBDA n, t : n + Size[t], 0, txs)
TotalGas(txs) == FoldLeft(LAMBDA n, t : Wrap(n + Gas[t]), 0, txs)

\* ratio * n truncated towards zero.
Share(l, n) ==
  IF n >= 0 THEN (MaxBlockSpace[l] * n) \div 100 ELSE 0 - ((MaxBlockSpace[l] * (0 - n)) \div 100)

\* Mutant: an unlimited lane may use the whole block again.
LaneLimitsIgnoringUsed(p, l) ==
  IF MaxBlockSpace[l] = 0
  THEN [size |-> p.maxSize, gas |-> p.maxGas]
  ELSE [size |-> Share(l, p.maxSize), gas |-> Share(l, p.maxGas)]

\* What a lane may add: what remains of the block if it has no limit of its own,
\* else its share of the whole block, however much of it is used.
GetLaneLimits(p, l) ==
  IF MaxBlockSpace[l] = 0
  THEN [size |-> Max({0, p.maxSize - p.size}), gas |-> Max({0, p.maxGas - p.gas})]
  ELSE [size |-> Share(l, p.maxSize), gas |-> Share(l, p.maxGas)]

\* Mutants: the lane's own limits are not checked; neither are the block's.
FitsBlockOnly(p, l, txs) ==
  /\ l \notin DOMAIN p.txsByLane
  /\ ToSet(txs) \cap p.cache = {}
  /\ p.size + TotalSize(txs) <= p.maxSize
  /\ Wrap(p.gas + TotalGas(txs)) <= p.maxGas
FitsLaneOnly(p, l, txs) ==
  /\ l \notin DOMAIN p.txsByLane
  /\ ToSet(txs) \cap p.cache = {}
  /\ TotalSize(txs) <= GetLaneLimits(p, l).size
  /\ TotalGas(txs) <= GetLaneLimits(p, l).gas

\* The invariant checks of UpdateProposal on a lane's transactions.
Fits(p, l, txs) ==
  /\ l \notin DOMAIN p.txsByLane
  /\ ToSet(txs) \cap p.cache = {}
  /\ TotalSize(txs) <= GetLaneLimits(p, l).size
  /\ TotalGas(txs) <= GetLaneLimits(p, l).gas
  /\ p.size + TotalSize(txs) <= p.maxSize
  /\ Wrap(p.gas + TotalGas(txs)) <= p.maxGas

\* UpdateProposal returns an error, and leaves the proposal alone, if a check fails.
UpdateFails(p, l, txs) == txs # <<>> /\ ~Fits(p, l, txs)

\* The proposal after a successful UpdateProposal.
Updated(p, l, txs) ==
  IF txs = <<>> THEN p
  ELSE [p EXCEPT !.txs = @ \o txs,
                 !.cache = @ \cup ToSet(txs),
                 !.size = @ + TotalSize(txs),
                 !.gas = Wrap(@ + TotalGas(txs)),
                 !.txsByLane = [k \in DOMAIN @ \cup {l} |-> IF k = l THEN Len(txs) ELSE @[k]]]
=============================================================================
