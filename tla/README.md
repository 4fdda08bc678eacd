# Verification of the Block SDK

TLA+ models of the Block SDK (`skip-mev/block-sdk`), the TLC runs that check
them on small instances and the TLAPS proofs that hold for every instance.
`PROJECT.json` maps every definition to the lines it models, lists the runs,
the mutants that show each property can fail, the hazards the properties are
aimed at, the findings and the theorems.

## The system

The Block SDK replaces a Cosmos SDK application's mempool and its two proposal
handlers. Transactions are held in *lanes*, each with its own mempool, its own
share of the block and its own rules for choosing and verifying transactions.
A block is built by calling the lanes in order, and verified by calling them in
the same order.

| Component | State | Operations | Called by / calls |
|---|---|---|---|
| Caching decoder (`block/utils/decoder.go`) | map hash -> tx, ring of hashes, two indices | `TxDecoder` | every decode of proposal bytes |
| Lane mempool (`block/base/priority_nonce.go`, `mempool.go`) | priority skip list, priority counts, a skip list per sender, score per slot | `Insert`, `Remove`, `Select`, `Contains`, `CountTx`, `NextSenderTx`, `Compare` | lanes |
| Proposal (`block/proposals`) | transactions, hash set, size, gas, count per lane, limits | `NewProposal`, `GetLaneLimits`, `UpdateProposal` | lanes |
| Base lane (`block/base`) | configuration, its mempool, three handlers | `PrepareLane`, `ProcessLane`, `VerifyTx`, default handlers | chain of lanes; ante handler |
| MEV lane (`lanes/mev`) | as the base lane | auction `PrepareLaneHandler`, `ProcessLaneHandler` | base lane |
| Terminator (`lanes/terminator`) | none | ends both chains | chain of lanes |
| Proposal handler (`abci/abci.go`, `utils.go`) | none of its own | `PrepareProposal`, `ProcessProposal` | consensus engine; lanes |
| Free lane (`lanes/free`) | as the base lane | match handler for staking messages | base lane; fee exemption |
| Laned mempool (`block/mempool.go`) | the registry of lanes | `ValidateBasic`, `Insert`, `Remove`, `Contains`, `CountTx`, `GetTxDistribution` | `CheckTx`, block finalisation, query service |
| Ignore decorator (`block/ante.go`) | the lanes it exempts | `AnteHandle` | ante handler; match handlers |
| CheckTx handlers (`abci/checktx`) | cached state of the MEV handler's base app | `MempoolParityCheckTx`, `MEVCheckTxHandler` | consensus engine; laned mempool |
| Auction module (`x/auction`) | parameters (as bytes in the store), balances (bank) | ante decorator, `ValidateBidInfo`, `ExtractBid`, `AuctionBid`, `UpdateParams`, genesis, query | transactions, clients |
| Query service (`block/service`) | none | `GetTxDistribution` | clients; laned mempool |
| Message codecs (`x/auction/types/*.pb.go`, `api/sdk/auction/v1/*.pulsar.go`, `block/service/types/query.pb.go`) | none | `Marshal`, `Size`, `Unmarshal` per message | store, genesis, transactions, queries; the SDK's search for signers |

The components interact through calls only. What makes them hard:

* *Order.* A lane's transactions are taken in the order of its mempool's
  iterator, verified in that order, and compared pairwise by another node.
  Everything a lane takes changes what the lanes behind it may take.
* *Failure.* A lane may return an error or panic after it has changed its
  context and its mempool; the chain skips it and goes on.
* *Bookkeeping by hand.* Four indices of one mempool, the totals of a proposal,
  the ring of a cache are all updated in step by separate statements.
* *Boundaries.* Capacities, shares of a block, unsigned sums, the value -1.
* *Two views of one thing.* The node's own mempool and the consensus engine's;
  the limits a proposal is built with and those it is verified with; the two
  codecs that decode a message's bytes, one to find who must sign and one to
  execute; a match handler that is asked at insertion, in the ante handler and
  when a block is built.

## Modules

| Module | Models | Uses |
|---|---|---|
| `CacheTxDecoder` | the decoder: one action per outcome of `TxDecoder` (hit, error, miss) | |
| `FifoCache` | what the decoder promises: a bounded FIFO set | refined by `CacheTxDecoder` |
| `PriorityNonceMempool` | a lane's mempool: `Insert`, `Remove`, `Select` and their early returns over the four indices | |
| `LaneMempool` | what it promises: a bounded table, one transaction per slot | refined by `PriorityNonceMempool` |
| `PriorityNonceIterator` | the iterator of `Select`, one step per call of `Next` or `iteratePriority` | extends `PriorityNonceMempool`, `MempoolOrder` |
| `MempoolOrder` | what an order must satisfy: complete, nonce order, greedy by priority | used by the iterator's properties and by `LaneHandlers` |
| `Proposals` | a proposal, its limits and `UpdateProposal`, as operators | |
| `LaneHandlers` | the default and the auction handlers for building and verifying | extends `Proposals`, `MempoolOrder` |
| `ProposalHandler` | the two ABCI handlers over the chain of lanes, one lane per step | extends `LaneHandlers` |
| `LanedMempool` | the application's mempool: `Insert`, `Remove`, `Contains` over the lanes' tables, as operators | extends `LaneHandlers` |
| `CheckTx` | the two `CheckTx` handlers between the application's and the consensus engine's mempool | extends `LanedMempool` |
| `Auction` | the auction module: what a bid must satisfy, its payment, the parameters | |
| `LaneRegistry` | lanes, their match handlers and the registry; fee exemption, auction decorator; `CheckTx` and execution as far as they ask for the lane | |
| `MempoolService` | `GetTxDistribution` of the registry and the codec of its answer, a map | extends `LaneRegistry`, `Wire` |
| `Wire` | the wire format: fields, sizes, the loop of a decoder, skipping | |
| `GogoCodec` | the application's codecs of all auction messages | extends `Wire` |
| `PulsarCodec` | the API module's codecs of the same messages | extends `Wire` |
| `AuctionParams` | the parameters' store, genesis import and export, `UpdateParams`, the query; messages that arrive field by field | extends `GogoCodec`, instantiates `PulsarCodec` |
| `MC*` | instances for TLC | |
| `FoldTheorems` | induction over naturals, sequences and finite sets; what `FoldLeft` computes for any step | no part of the system |
| `LaneHandlersProofs` | lemmas about proposals and the lanes' handlers | extends `LaneHandlers`; instantiates `FoldTheorems` |
| `CacheTxDecoderProofs`, `PriorityNonceMempoolProofs`, `ProposalHandlerProofs`, `CheckTxProofs`, `AuctionProofs`, `LaneRegistryProofs` | theorems and proofs | each extends the module it is about (`PriorityNonceMempoolProofs` the iterator's, which extends the mempool's); the ones on proposals and `CheckTx` also `LaneHandlersProofs` |

### How state and actions correspond to the code

**Decoder.** `cache`, `window`, `insertIndex`, `oldestIndex` are the fields of
`CacheTxDecoder`; a transaction is its hash. `MaxSize` is positive: both
constructors pass positive sizes by default, and a size of zero would divide by
zero in the code.

**Lane mempool.** A skip list is the set of its keys with their values;
`senderIndex` is the contents of all lists of `senderIndices` and `senderLists`
the senders that have a list, which may be empty. A transaction is a slot
(first signer, sequence) and an identity; its priority is an argument of
`Insert`. The weight of a key is recomputed by `Select` for tied priorities,
with the key and the score moved together, as `reorderPriorityTies` does. The
priority 0 is the zero value a fresh key has for its weight. `SetKeepsKey`
states what the linked skip list (external) does when `Set` meets an equal key:
v1.2.0 of huandu/skiplist replaces the value and keeps the key. The indices are
checked with the real behaviour; the iterator's order is checked both ways,
since it is right only if the key is replaced (finding below).

**Iterator.** `node` is the iterator's `priorityNode` (a set of one key, of none at
the end), `cursors` its `senderCursors`; `order` is history. `SelectIterator` is
`Select`, which reorders the ties and starts at the front of the index. `HandOut` is
one call of `Next` that returns a transaction, `IteratePriority` one that moves on
to the next node. `Insert` and `Remove` are possible at any time, and end the
iterator (`Discard`): the lanes' handlers remove what they marked after their loop.

**Proposals and lanes.** A context is the accounts' sequence numbers: that is
the state through which one lane's transaction makes another's valid or
invalid. The ante handler (external) accepts a transaction with the account's
next sequence number that is not in `Invalid`. Gas wraps at `GasModulus`,
sizes are integers, ratios are whole percentages. A lane's mempool is a set
with one transaction per slot, and the order it is read in is any order that
`MempoolOrder` allows, which the iterator's theorems justify: a drained iterator
has handed out such an order.
A match handler is a set of transactions; it does not read the context.

**Proposal handler.** One height. `Init` chooses the mempool's contents;
`PrepareLane`, `PrepareLaneFails` and `PrepareLanePanics` are one lane's turn in
`ChainPrepareLanes` with its three outcomes, in each of which the removal from
the lane's mempool, which is not undone, is part of the step. The proposal is
then verified from the same committed state with `ProcessLane` per lane, or
instead a proposal from elsewhere is. `lost` and `panicked` are history: which
lanes were refused, which ones panicked. A proposal shares its hash set and its counts per lane with
the copies the lanes are given: `ProposalAfterFailure` is what is left of it when a lane
has failed, and its mutant is a code that writes to the maps before the refusal.
`pools` is not read by verification, so
foreign proposals are verified with an empty one.

**Laned mempool and CheckTx.** `pools` gives each lane a partial function from
slots to transactions, the table `LaneMempool` describes; `Contains` and
`Remove` go by slot, as the lane mempool's do. `BaseCheckTx`, the wrapped
`CheckTx` of the base application, is external: the ante handler on the check
state, and an insertion for a new transaction. `MEVCheckTx` and `ParityCheckTx`
are the two handlers around it, as operators that return the answer, the
mempool and the check state. `CheckNew` and `Recheck` are the consensus engine's
two kinds of call and contain the whole of both handlers. Execution
(`FinalizeBlock`, which removes from the application's mempool) and `Commit`
(after which the consensus engine drops the block's transactions and rechecks
the others) are two steps, since a `CheckTx` may come between them.
`PrepareProposal` runs the lanes' handlers of `LaneHandlers` on the committed
state, in one step (the consensus engine's local client lets one ABCI call run at
a time), over any order of each lane's mempool that `MempoolOrder` allows; what the lanes mark is
removed. Failing and panicking lanes are left to `ProposalHandler`. `final` holds the block between execution and
commit; `dropped` is history. The heights are cut off at `MaxHeight`, which no
bid's timeout exceeds, so nothing tells later heights apart.

**Auction.** A bid is accepted if its decorator succeeds, which includes the
payment; a failing one leaves no trace, since the ante handler writes back only
on success. `ValidateAuctionBundle` returns, beside its verdict, what it leaves
of the first transaction's signers: it filters that map in place, and
`ValidateBundleTimeouts` reads it afterwards. An operator address has a prefix,
which the conversion to an account address looks at.

**Codecs and parameters.** A message's bytes are a sequence of fields with a
number, a wire type, a value and a length in bytes; `Cut` stands for bytes that
no decoder can read. Each message has its `Marshal`, `Size` and `Unmarshal` per
codec; the loop they share is `Unmarshal` of `Wire`. Two constants replace
numbers of the format: `VarintBase` (8 or 4 in place of 128, so that short
messages need two bytes for a length) and `Uint32`. `Merges` says whether the
protobuf runtime (external) reads a repeated embedded message into the one
already there; the properties hold either way, for a repeated `bid` field only
if it does, and say so. The store holds fields, written by `ParamsMarshal`;
`given` is history, what the chain was last told. `Receive` adds a field to the
message that is arriving, and `UpdateParams` or `AuctionBid` handles it: decoding,
`ValidateBasic` and the message server in one step, as in the delivery of a
transaction. The query has no effect and is part of the properties, which ask it
in every state.

**Lane registry.** A transaction is the kinds of its messages; match handlers,
`GetAuctionBidInfo` and the error it may return are derived from them.
`MakeLane` and `NewLanedMempool` are an application's start-up with the
validation of lane, configuration and registry. The four places that ask a match
handler (insertion, `IgnoreDecorator`, auction decorator, `CheckTx`) ask it anew,
as in the code. Sequence numbers are left out, since `CheckTx` follows them; the
state of the ante handler here is what accounts can pay.

## Runs

Every run is a question; `PROJECT.json` names its properties. A property of a
passing run has a mutant, a plausible bug in a mapped definition with which TLC
finds it violated.

| Run | Shows | Instance |
|---|---|---|
| `decoder` | map and ring agree through wrap-around; the decoder refines `FifoCache` | capacity 3, six hashes, one undecodable: the ring wraps, entries are evicted and decoded again |
| `index` | the four indices agree, counts are right, capacity holds, `LaneMempool` is implemented | two senders, two nonces, two transactions per slot, three priorities, capacity 3 of 4 slots: replacement with the same and another priority, ties, full |
| `iterator` | the iterator yields all, in nonce order, greedily, and among ties the heavier sender first | the same with a capacity that is not reached and a skip list that stores the new key |
| `proposal` | what is built or accepted executes, is within limits, without repetition; what is built has one auction at most, at its top and complete, and is accepted | three lanes, thirteen transactions that meet in several of them, one a bid that bundles another bid, any contents of the mempool, every foreign proposal up to length 4, failing and panicking lanes |
| `unlimited_first` | limits hold when lanes are refused; the request is answered | the unlimited lane in front, so that `UpdateProposal` does refuse |
| `check_tx` | the two mempools agree up to transactions that are spent or were refused for their size; executed ones leave; bids held can win; what is removed is purged; what only the application holds is eventually removed | nine transactions: three bids with timeouts 1 and 2, one bundling a transaction that is also sent by itself, two consecutive ones, of which the second asks for more gas than its lane's share, one that competes with the first of these for its sequence number, one that competes with the second and is larger than its lane's share, one of no lane, one undecodable; five blocks; a capacity of 2 |
| `auction` | bids are paid and split to the last coin; accepted bundles are the described ones; only a first transaction with two signers escapes the timeout check | bundles up to 3 with one or two signers, co-signed first transactions with another timeout among them, fees of 0, 30 and 100 percent, parameters from a genesis nobody validated (a fee of 110 percent or below zero, an increment in another denomination), a parameter change that must be refused |
| `params` | both codecs read the same bidder, bundle and bid; sizes are exact; a client passes on what it does not know; parameters survive store, export and import; the query arrives; only the authority's message changes them | messages of up to three fields out of fourteen (bid) or ten (update), with repeated, split, unknown, mistyped and unreadable ones, groups; three genesis states, one all zero |
| `registry` | fees are waived for what the free lane holds and for nothing else; a bid is in the MEV lane or nowhere; the distribution accounts for all transactions | every registry of up to three of seven lanes, two of them invalid and two pairs with one name; six transactions, bids that cannot be read or are not alone among them |

Bounds: `MaxForeign` (length of a foreign proposal), `MaxHeight`, `MaxBundle`,
`MaxFields` (fields of a message), `MaxLanes`, the balances of `MCBalances` (number of bids), and the finite sets of
transactions, slots and priorities. Each is large enough for its cases to
interact: two lanes competing for one account, a bundle across lanes, a second
eviction, a second round of rechecks. `GasModulus` is 64 in place of 2^64; no
instance reaches the wrap-around, which needs a gas limit above half of it.

Fairness is used in two runs, `unlimited_first` and `check_tx`. `EventuallyAnswered` needs `WF(Next)`: the two
handlers are sequential code that runs to its end. `Purged` needs weak fairness
of `Recheck`, `Commit` and of executing some block: the chain keeps producing
blocks and the consensus engine finishes each round of rechecks. Fairness of
`CheckNew` is not assumed. `OrphansCleared` also needs strong fairness of
`PrepareProposal`: it is enabled between the blocks again and again, not all the
time, and a validator's turn to propose comes round as often as its power
warrants. The property says nothing of a node that never proposes. `FairSpec`
writes that fairness out, with `Removable` for the enabling condition, because
TLC takes very long to evaluate `ENABLED` of a step that builds a proposal.

Deadlock checking is off for `ProposalHandler`, which stops once the height
has been answered, and for `LaneRegistry`, in which a registry may be invalid for
good and every transaction may have been executed.

### Findings

Runs with the expected result *violation* state what a comment, a document or a
test says and show a behaviour of the code that contradicts it.

* `iterator_replaced`: the linked skip list keeps the old key when a transaction
  is replaced by one with another priority, and the iterator may then leave the
  transaction out; the comment in `Insert` says the key is overwritten.
* `unlimited_lane`: a lane without a limit has a limit of zero in `CheckTx`. Its
  transactions are refused, and stay in the application's mempool all the same.
* `same_slot_bids`: a refused bid takes the bidder's valid bid with the same
  sequence number out of the lane.

### Further configurations

These are not among the regular runs. TLC finds the property violated with each;
they mark where the properties of the passing runs end. The last column quotes what
the code says of itself, where it says something.

| Configuration | Property | Shows | Said |
|---|---|---|---|
| `MCNextSenderTx` | `NextSenderTxReturns` | `NextSenderTx` reads the front of an empty list after a sender's last transaction has been removed | `priority_nonce.go:199`, "nil will be returned" |
| `MCSenderWeight` | `WeightIsFirstDifferent` | the weight is the last priority of the sender's list | `priority_nonce.go:410`, "the first (nonce-wise) same sender tx with a priority not equal to t" |
| `MCParityNoMaxBytes` | `Parity` | `Block.MaxBytes = -1` makes verification reject every proposal with a transaction | `abci/README.md:138`, "always parity" |
| `MCParityFee` | `Parity` | a default lane ordered by fee rejects an honest proposal when a bundled transaction is missing between two neighbours: the cheap one of a sender, whose dear one may not precede it | `abci/README.md:138` |
| `MCCheckTxOversized` | `AppWithinComet` | a new transaction refused for its size stays in the application's mempool | `mempool_parity_check_tx.go:18`, "enforce parity" |
| `MCCheckTxTwoLanes` | `ExecutedLeave` | with a bid and another transaction on one sequence number in two lanes, executing the one removes the other | `mempool.go:113`, "assumes that the transaction is contained in only one of the lanes" |
| `MCAuctionCosigned` | `BidderTimeoutsMatch` | the front-running check deletes the bidder from the signers of the first transaction, which the timeout check then passes over | `auction.go:181`, "all of the bidders txs" |
| `MCAuctionProposer` | `BidSplit` | the proposer provider fails to convert an operator address, and its part goes to the escrow account | `proposer_provider.go:11`, "a portion of auction profits to the block proposer" |
| `MCContiguous` | `AcceptedBidsContiguous` | a second bid behind the winning bundle is accepted as a transaction of the default lane | |
| `MCCheckTxRace` | `AppWithinComet` | a transaction checked between execution and commit of its block stays in the application's mempool alone; a bid remains the top bid until this node prepares a proposal | |
| `MCEscrowEmpty` | `StaysValid` | an escrow address that is empty and not nil passes `Validate` and is read back as nil, which `Validate` refuses | |
| `MCClientEscrow` | `ClientToldEscrow` | the API module lacks the response's second field, so its clients do not see the escrow address's string that `query.proto` announces | `query.proto` |

The passing runs `check_tx` and `auction` show what remains true: they use the
same modules with instances in which each bid has a slot of its own, or with the fixed
provider. The theorems about them have these conditions as hypotheses, and the ones on
parity also that each transaction fits its lane's share. The instance of `check_tx`
holds one that does not, and `OrphansAccountedFor` says of it what `AppWithinComet`
cannot: the application alone holds it, until `OrphansCleared` gets rid of it or another
transaction takes its slot. `auction` has no condition on signers:
`OnlySharedFirstEscapes` says which transaction may escape the timeout check, the one
`MCAuctionCosigned` finds, and that no other does. In
`registry`, `FeeMatchesLane` is claimed for registries in which no lane that
matches everything comes before the free lane; `tests/app/README.md` composes the
default lane's handler with `NewMatchHandler` so that the order does not matter,
while `tests/app/lanes.go` relies on the order. Both are among the instances.

## Proofs

TLC checks small instances; the theorems hold for all values of the constants that
satisfy the assumptions named in the modules. `PROJECT.json` lists them.

| Theorem | States | Hypothesis |
|---|---|---|
| `RingMatchesCacheThm`, `FifoThm` | the decoder's map is what its ring names; it implements `FifoCache` | |
| `IndicesAgreeThm`, `CountsAgreeThm`, `WithinCapacityThm`, `TableThm` | the mempool's indices agree and implement `LaneMempool` | |
| `IteratorNonceOrderThm` | the iterator keeps each sender's order | |
| `IteratorCompleteThm`, `IteratorGreedyThm`, `IteratorBreaksTiesThm` | the iterator hands out everything once, each time the best of what may come next, and of equals that of the heaviest sender | `KeyKept` |
| `TypeThm`, `ProposalExecutesThm`, `InfoMatchesTxsThm`, `WithinBlockSizeThm`, `NoTxTwiceThm` (of `ProposalHandlerProofs`) | what is built or verified executes, is described by its totals, fits the block, repeats nothing | |
| `AcceptedIsVerifiedThm`, `AcceptedExecutesThm` | what is accepted was verified, and executes | |
| `WithinLimitsThm` | a proposal is within the block's bytes and gas, and each lane's section within its share | `NoGasWrap` |
| `NoLaneLostThm` | `UpdateProposal` never refuses what a lane selected | `SharesWithinBlock`, `UnlimitedLast`, `ReqMaxTxBytes` not negative |
| `AuctionOnTopThm` | one auction at most, on top, complete | `AuctionFirst` |
| `ParityThm` | what was built is accepted, unless a lane panics while it verifies | `AuctionFirst`, `FlatLanes`, `ReqMaxTxBytes <= ConsMaxBytes` |
| `TypeThm`, `BidsExecutableThm` (of `CheckTxProofs`) | bids both mempools hold can win the next block | |
| `OrphansAccountedForThm`, `CometWithinAppThm`, `ExecutedLeaveThm`, `NoBystanderThm` | the two mempools agree; what is executed leaves; nothing else does | `OwnBidSlots`, `AllFit` |
| `BidsOnlyInMEVLaneThm` | a transaction with a bid among its messages is held by the auction lane or by none | |
| `FeeMatchesLaneThm` | what executes from the free lane is free, and nothing else | `FreeLaneFirst`, in the property |
| `BundleMatchesRuleThm` | the front-running check accepts the bundles its comment describes | `FirstSigned` |
| `BidSplitThm` | a bid is split to the last coin, whatever the parameters | fixed provider |
| `OnlySharedFirstEscapesThm` | the bidder's transactions have the bid's timeout, but for a first one that has another signer | |

### Assumptions and hypotheses

The `ASSUME`s of the modules are about the kinds of the constants: sizes and gas are
numbers of their width and shares percentages (`ProposalsAssumptions`); the registry
is a list of lanes with a match handler each, without repetition
(`LaneAssumptions`, `HandlerAssumptions`; `ValidateBasic` of the laned mempool refuses
a repeated name); a bid has a timeout and there is an auction lane
(`CheckTxAssumptions`); accounts pay and are paid, a fixed provider has one address
or none (`AuctionAssumptions`); senders are ordered, as the strings in the code are
(`IteratorAssumptions`); a lane that may be registered has one of the four match
handlers (`LaneRegistryAssumptions`). TLC evaluates them in the runs of these
modules.

Hypotheses are conditions the code does not enforce. Where a run or a configuration
shows what goes wrong without one it is named:

* `AuctionFirst`, the auction lane is the first. Otherwise a lane in front of it
  fills the top of the block, as the application asked it to.
* `KeyKept`, a replacement keeps the priority, or the skip list replaces the key
  (`iterator_replaced`). It is a condition on the steps of a behaviour.
* `NoGasWrap`, the gas limits of distinct transactions add up to less than 2^64. The
  code adds them up without a test; no block of real size comes near.
* `SharesWithinBlock` and `UnlimitedLast`, the shares of the lanes add up to the block
  at most and only the last lane may be without a share (`MCUnlimitedFirst`, the run
  `unlimited_first`: there lanes do get lost, and the handlers answer all the same).
  `ValidateBasic` of the laned mempool checks the sum of the shares, and not the order.
* `FlatLanes`, the lanes behind the auction's rank all they hold alike, as
  `base.DefaultTxPriority` does (`MCParityFee`).
* `ReqMaxTxBytes <= ConsMaxBytes`, verification allows a block as large as the one that
  was asked for (`MCParityNoMaxBytes`). The consensus engine asks for less than the
  parameter, since the header takes its part.
* `OwnBidSlots`, no transaction has the sender and sequence number of a bid
  (`same_slot_bids`, `MCCheckTxTwoLanes`). Other transactions may share theirs: the
  check state decides between them.
* `AllFit`, each transaction that can be inserted fits its lane's share
  (`unlimited_lane`, `MCCheckTxOversized`). Gas is not part of it. Without it the check
  state is not beyond every transaction held, and two lanes may come to hold one slot.
* `FirstSigned`, the first transaction of a bundle has a signer, as every
  transaction that decodes has; the code does not ask.
* The fixed provider (`MCAuctionProposer`).

### Induction over data

Handlers and bookkeeping are folds over sequences, so that the proofs need what a fold
computes for a sequence of any length. The library's induction theorems have a
predicate as parameter, which the installed provers cannot instantiate.
`FoldTheorems` states induction for membership in a *set* instead
(`SetInduction`, `SeqInduction`, from the well-foundedness of `<` on the naturals); the
predicate becomes the set of the values that satisfy it, a first-order term. It has
the step of a fold as a constant operator and proves `FoldEmpty` and
`FoldAppend` from the definition of `FoldLeft` in the community modules; each proof
module instantiates it with its own steps. It also proves that a sum over
a finite function does not depend on the order (`SumAnyOrder`), which the counts per
lane need, and that a bounded non-empty set has a greatest element. `LaneHandlersProofs`
restates what the modules above it use.

### The arguments

**Decoder.** `TypeOK /\ RingMatchesCache` is inductive; `MissInv`, by cases on whether
an entry is purged, is the one action that changes anything. For the refinement
`Queue` reads the occupied part of the ring from `oldestIndex` on: a miss appends to it
and, when the ring is full, drops its head; that the indices wrap is arithmetic modulo
`MaxSize`.

**Lane mempool.** One invariant, `IInv`, is the conjunction of `TypeOK`,
`IndicesAgree`, `CountsAgree` and `WithinCapacity`. None is inductive alone: the
capacity is tested on the size of the priority index, which says something about
the table only if the indices agree; a removal finds its key in the index through
the score, and decides whether to adjust the index through the counts; the
reordering of ties touches exactly the keys whose priority has a count above one.
Each action has its lemma (`InsertInv`, `RemoveInv`, `SelectInv`). In the refinement
`Select` is a stuttering step, an insertion or a removal is one step of the table. The
sets of senders, nonces, transactions and priorities may be infinite.

**Iterator.** `ShapeInv` says where the walk stands: the cursor of a sender is the last
slot handed out, and what was handed out of a sender is its list up to the cursor. Nonce
order follows from that alone. `IterInv` adds that each key of the index has its
transaction's current priority (`KeysAgree`, which `KeyKept` preserves) and
`NodesToCome`: the next transaction of every sender but the node's has its own node
still to come, since a node is left only when its sender's next transaction must wait
for a later one. Completeness is that invariant at the end of the
index. For greediness the comparison with the next node alone is enough, since all
nodes to come are behind it and the heads of other senders' lists are no better than
their best node. For ties,
`TiesFresh` says that while an iterator is open the keys of tied priorities have the
weights `Select` gave them, which are the senders' present ones, since an insertion or
removal ends the iterator; `HandedHeaviest` carries that to what was handed out.

**Proposal handler.** `LaneHandlersProofs` shows of each handler, for every order of
the lane's mempool, that what it selects verifies from the context it was given and
leads to the context it returns, that it takes nothing that is in the proposal, and of
`UpdateProposal` that it keeps totals and transactions together. `ProposalInv` is
`Types` with the three facts about the proposal; a lane that fails or panics leaves
them alone since the chain goes on with the proposal and context it had. `NoTxTwice` is not a
consequence of the hash set, which is not consulted within one lane's contribution: it
follows from `ProposalExecutes`, since a transaction uses up its sequence number.
`VoteInv` adds that the transactions verified so far and the rest make up the block.
`AuctionInv` adds that no other lane's mempool holds a bid.

`ChainInv` recovers the lanes' sections from the counts per lane: the lanes up to the
present one have contributed all transactions, one section behind the other, and the
others nothing (`InChain`). `LimitsInv`, for `WithinLimits`, adds that the gas counter
is the true sum: what `UpdateProposal` compared with the limits was not wrapped. That a
proposal repeats nothing is needed here, since only distinct transactions have bounded
gas together. `BudgetInv`, for `NoLaneLost`, adds that what is used so far is within the
sum of the shares of the lanes called so far; what a lane selects within its own share,
which is rounded down, then always fits the block.

`ParityInv` describes the block as the handlers made it: lists `own` and `tail` for each
lane, with `tail[i - 1]` the concatenation of `own[i]` and `tail[i]`, and the totals
`size` and `gas` in front of each. `Link` is what ties a lane to its part: no transaction
behind it is one the lane matches, its part had room within the totals it found, and is
what the lane's verification looks for, a bid with its bundle or transactions the lane
held. While a block is prepared, `MadeByMore` appends a part; a lane that failed or
panicked has an empty one. That a lane appends nothing an earlier lane matches is
because `Insert` gives a transaction to the first lane that matches it. While the block
is verified, what remains is `tail` and the totals are those of the preparation, so that
`HandlerRepeats` finds `own` again, `ProposalExecutes` makes it valid, and
`RoomInLarger` makes it fit. A lane that fails while the block is built is therefore
invisible in verification, although its marked transactions are gone.

**Lane registry.** `RegistryInv`: whatever a lane holds, `Placed` says that its handler
matches it, that it has no bid among its messages unless the lane is an auction lane, and
that it is in a free lane if the free handler matches and no lane that takes
everything comes first. A bid whose information cannot be read is refused before it
reaches a lane, and one that is not alone is too.

**CheckTx.** Three invariants, each on top of the one before. `Shape`: types, and each
lane holds what it matches and no lane before it does. `BidInv`: a bid that both
mempools hold and that is not to be rechecked is valid for the next block; a commit
makes all of them stale and has all of them rechecked.
`ParityInv`: the two parity properties with `Claimed`, that the check state is beyond
every transaction held that is not a bid and not to be rechecked, and `OneEach`, that no
two transactions held share a slot. The properties need both: whether a recheck
succeeds, whether a removal by slot hits the right transaction and whether a new
transaction finds its slot taken all depend on them. It was here that the property
`CometWithinApp` had to be restated: a block that holds another transaction of the same
slot takes the application's away at execution, before the consensus engine drops it.

**Auction.** The loop of `ValidateAuctionBundle` is a fold. `LoopSound`: as long as it
goes on, `prev` is what all transactions have in common, or the bidder has taken over
and the rule holds. `LoopComplete`: with one signer per transaction `prev` is the
signer of the last one, and the flag says whether the bidder has been seen. `LoopFirst`: a
bidder that signs the first transaction alone stays among its signers, although the
loop filters that map; `Shared` is the case in which it may not, and what the timeout
check then sees is that theorem's exception. `BidSplit` needs that a transfer of a
negative amount fails, which is what a fee above 100 percent or below zero comes to,
and what two transfers in a row do to the balances, of accounts that may be one and
the same.

### Only model-checked

* Liveness (`EventuallyAnswered`, `Purged`, `OrphansCleared`): out of the prover's reach.
* The codecs and `AuctionParams`. Their loops are folds and within reach of the method
  above, a message's fields at a time; this has not been done. The properties that decode
  what was encoded also need numbers of two digits at most, as the text of a number is
  modelled.
* `DistributionComplete`, which needs the bitwise operators of the answer's codec:
  `tlapm` loses its SMT backend in modules that reach them.

## Not modelled

* The values of the ante handler other than sequence numbers (fees, signatures,
  gas consumed), which are a set of invalid transactions.
* A lane without an `AnteHandler`, for which `VerifyTx` checks nothing. It is a
  configuration for tests; with one, as here, is what an application runs.
* The early return of `RemoveTxsFromLane` at the first error of `Remove`. `Remove` of
  a lane's mempool ignores a missing transaction and otherwise fails only if the
  signer cannot be extracted, which `Insert` has done for everything that is in the
  pool, so that the loop always runs to its end.
* `OnRead` and the replacement rules of the mempool beyond accept or refuse; no
  lane sets them.
* The SDK's no-op `ProcessProposal` for `useCustomProcessProposal = false`.
* Logging and events. `GetTxDistribution` reads a length without a lock while ABCI
  calls change it; nothing depends on the number, and the model asks the query
  between calls only.
* Of the generated code: reflection over the API module's messages, descriptors,
  gRPC stubs and gateways, the codec of `ProposalInfo` (nothing calls it) and the
  module's configuration object. They hold no state of the system and decide
  nothing about it.
* `ValidateBasic` of `MsgAuctionBid`: a bid's fields are valid or not in
  `Auction` and `LaneRegistry`. Bytes within a field's key or length are not
  taken apart: whatever they do wrong is `Cut`.
* Command line and module wiring; the test application, mocks and test utilities,
  which are not part of the product.

## Plan

Done: the core (decoder, lane mempool and its iterator, proposals, `CheckTx`, auction),
its extension (codecs and parameters, registry and match handlers, query service,
`PrepareProposal` between the calls of `CheckTx`) and proofs of all safety properties of
the runs but those of the codecs and the query's answer. Left:

1. Prove `SignedByAuthority` and `DecodersAgree` from a lemma that the two decoders of a
   message read the same fields, with each decoder's loop as a fold and the two states as
   a pair.
2. Prove what `RegistryInv` says for `DistributionComplete`, with the codec's arithmetic
   stated without the bitwise operators.
