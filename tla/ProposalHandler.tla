--------------------------- MODULE ProposalHandler ---------------------------
(***************************************************************************)
(* PrepareProposal and ProcessProposal (abci/abci.go, abci/utils.go) over  *)
(* a chain of lanes (block/base/abci.go) closed by the terminator lane.    *)
(*                                                                         *)
(* One height of one validator: it prepares a proposal from its mempool,   *)
(* with lanes that may fail or panic, and the proposal is then verified    *)
(* from the same committed state; or it verifies a proposal that came from *)
(* elsewhere.                                                              *)
(***************************************************************************)
EXTENDS LaneHandlers

CONSTANTS
  Accounts,       \* signers
  StartCtx,       \* committed sequence numbers, account -> Nat
  Heights,        \* heights the handlers are called at
  ReqMaxTxBytes,  \* MaxTxBytes of the PrepareProposal request
  ConsMaxBytes,   \* consensus parameter Block.MaxBytes; -1 is no limit
  ConsMaxGas,     \* consensus parameter Block.MaxGas
  MayPanic,       \* lanes whose handlers may panic
  Pooled,         \* transactions that may be in the mempool
  Foreign         \* transaction lists other proposers may send

ASSUME HandlerAssumptions ==
  /\ \A i, j \in DOMAIN Lanes : Lanes[i] = Lanes[j] => i = j
  /\ ToSet(Lanes) = DOMAIN MaxBlockSpace /\ ToSet(Lanes) = DOMAIN Match
  /\ MayPanic \subseteq ToSet(Lanes)
  /\ Pooled \subseteq Tx \ Undecodable
  /\ \A t \in Tx : Sender[t] \in Accounts
  /\ StartCtx \in [Accounts -> Nat]
  /\ Heights \subseteq Nat
  /\ ReqMaxTxBytes \in Int /\ ConsMaxBytes \in Int /\ ConsMaxGas \in Int
  /\ \A f \in Foreign : f \in Seq(Tx)

VARIABLES
  height,    \* height of the request
  phase,     \* where the handlers are
  at,        \* position of the lane called next
  pools,     \* lane -> transactions in its mempool
  ctx,       \* the context the next lane runs on
  proposal,  \* the proposal passed along the chain
  built,     \* the block came out of this PrepareProposal
  block,     \* the transactions that were sent out to be voted on
  rest,      \* those the remaining lanes must verify
  verdict,   \* the answer of ProcessProposal
  lost,      \* lanes dropped because UpdateProposal refused their selection
  panicked   \* lanes whose ProcessLane panicked

vars == <<height, phase, at, pools, ctx, proposal, built, block, rest, verdict, lost, panicked>>

Phases == {"idle", "prepare", "prepared", "process", "done"}

\* A lane's mempool is finite and holds one transaction per slot.
PoolContents ==
  {S \in SUBSET Pooled : IsFiniteSet(S) /\
     \A t, u \in S : t # u /\ Slot(t) = Slot(u) => FirstMatch(t) # FirstMatch(u)}

Init ==
  /\ height \in Heights
  /\ phase = "idle"
  /\ at = 1
  /\ \E S \in PoolContents :
       /\ height <= 1 => S = {}   \* the mempool is not read at the first heights
       /\ pools = [l \in ToSet(Lanes) |-> {t \in S : l \in FirstMatch(t)}]
  /\ ctx = StartCtx
  /\ proposal = NewProposal(ReqMaxTxBytes, BlockGasLimit(ConsMaxGas))
  /\ built = FALSE
  /\ block = <<>>
  /\ rest = <<>>
  /\ verdict = "none"
  /\ lost = {}
  /\ panicked = {}

-----------------------------------------------------------------------------
(* PrepareProposal *)

\* The first heights pass on the transactions the consensus engine sent.
PrepareInitialHeight ==
  /\ phase = "idle" /\ height <= 1
  /\ \E txs \in Foreign : block' = txs
  /\ phase' = "prepared"
  /\ UNCHANGED <<height, at, pools, ctx, proposal, rest, verdict, lost, panicked, built>>

StartPrepare ==
  /\ phase = "idle" /\ height > 1
  /\ phase' = "prepare"
  /\ UNCHANGED <<height, at, pools, ctx, proposal, block, rest, verdict, lost, panicked, built>>

\* What the current lane's handler returns for an order of its mempool.
Selected(order) ==
  PrepareLaneHandler(Lanes[at], ctx, proposal, GetLaneLimits(proposal, Lanes[at]), order)

PreparingLane == phase = "prepare" /\ at <= Len(Lanes)

\* RemoveTxsFromLane, which comes before UpdateProposal and is not undone.  It stops at
\* the first Remove that fails, and none does: the lane's mempool takes a missing
\* transaction for removed, and fails only where it cannot extract a signer, which
\* had kept Insert from taking the transaction.
RemoveTxsFromLane(l, txs) == pools' = [pools EXCEPT ![l] = @ \ txs]

\* Mutants: the next lane runs on the failed lane's context; a failed lane is
\* called again; the lane behind it is skipped with it.
ContextOfFailed(cacheCtx) == cacheCtx
SameLane == at
SkipTwo == at + 2

\* Mutant: the hashes go into the proposal's cache as they are checked.
SharedMapsWritten(l, txs) == [proposal EXCEPT !.cache = @ \cup ToSet(txs)]

\* The proposal that the lanes behind a failed one get.  The failed lane had a copy of
\* it, but with the same cache and the same map of lanes: they are as they were
\* because UpdateProposal writes to them after its last check.
ProposalAfterFailure(l, txs) == proposal

\* ChainPrepareLanes: after a failure the next lane gets the context from before
\* the failed lane, else the one it wrote.
ContextAfterFailure(cacheCtx) == ctx
LaneAfterFailure == at + 1

PrepareLane ==
  /\ PreparingLane
  /\ \E order \in Select(pools[Lanes[at]]) :
       LET l == Lanes[at]
           s == Selected(order)
       IN  /\ ~UpdateFails(proposal, l, s.include)
           /\ RemoveTxsFromLane(l, s.remove)
           /\ proposal' = Updated(proposal, l, s.include)
           /\ ctx' = s.ctx
  /\ at' = at + 1
  /\ UNCHANGED <<height, phase, block, rest, verdict, lost, panicked, built>>

\* UpdateProposal refuses the selection: the lane contributes nothing.
PrepareLaneFails ==
  /\ PreparingLane
  /\ \E order \in Select(pools[Lanes[at]]) :
       LET l == Lanes[at]
           s == Selected(order)
       IN  /\ UpdateFails(proposal, l, s.include)
           /\ RemoveTxsFromLane(l, s.remove)
           /\ proposal' = ProposalAfterFailure(l, s.include)
           /\ ctx' = ContextAfterFailure(s.ctx)
           /\ lost' = lost \cup {l}
  /\ at' = LaneAfterFailure
  /\ UNCHANGED <<height, phase, block, rest, verdict, panicked, built>>

\* The lane panics, with or without having removed transactions.
PrepareLanePanics ==
  /\ PreparingLane
  /\ Lanes[at] \in MayPanic
  /\ \E order \in Select(pools[Lanes[at]]) :
       LET l == Lanes[at]
           s == Selected(order)
       IN  /\ \E removed \in {{}, s.remove} : RemoveTxsFromLane(l, removed)
           /\ proposal' = ProposalAfterFailure(l, s.include)
           /\ ctx' = ContextAfterFailure(s.ctx)
  /\ at' = LaneAfterFailure
  /\ UNCHANGED <<height, phase, block, rest, verdict, lost, panicked, built>>

\* The terminator ends the chain and the proposal is sent out.
FinishPrepare ==
  /\ phase = "prepare" /\ at > Len(Lanes)
  /\ phase' = "prepared"
  /\ block' = proposal.txs
  /\ built' = TRUE
  /\ UNCHANGED <<height, at, pools, ctx, proposal, rest, verdict, lost, panicked>>

-----------------------------------------------------------------------------
(* ProcessProposal *)

\* A proposal from another proposer.  ProcessProposal does not read the mempool,
\* so an empty one stands for all.
ReceiveProposal ==
  /\ phase = "idle" /\ height > 1
  /\ pools = [l \in ToSet(Lanes) |-> {}]
  /\ block' \in Foreign
  /\ phase' = "prepared"
  /\ UNCHANGED <<height, at, pools, ctx, proposal, rest, verdict, lost, panicked, built>>

Vote(v) == phase' = "done" /\ verdict' = v

\* The first heights accept anything.
ProcessInitialHeight ==
  /\ phase = "prepared" /\ height <= 1
  /\ Vote("accept")
  /\ UNCHANGED <<height, at, pools, ctx, proposal, block, rest, lost, panicked, built>>

DecodeFails ==
  /\ phase = "prepared" /\ height > 1
  /\ ToSet(block) \cap Undecodable # {}
  /\ Vote("reject")
  /\ UNCHANGED <<height, at, pools, ctx, proposal, block, rest, lost, panicked, built>>

\* Verification starts from an empty proposal with the consensus parameters'
\* limits and the committed state.
StartProcess ==
  /\ phase = "prepared" /\ height > 1
  /\ ToSet(block) \cap Undecodable = {}
  /\ phase' = "process"
  /\ at' = 1
  /\ ctx' = StartCtx
  /\ proposal' = NewProposal(ConsMaxBytes, BlockGasLimit(ConsMaxGas))
  /\ rest' = block
  /\ UNCHANGED <<height, pools, block, verdict, lost, panicked, built>>

ProcessingLane == phase = "process" /\ at <= Len(Lanes)

\* A lane is passed over when no transactions remain.
ProcessNothing ==
  /\ ProcessingLane /\ rest = <<>>
  /\ at' = at + 1
  /\ UNCHANGED <<height, phase, pools, ctx, proposal, block, rest, verdict, lost, panicked, built>>

\* The lane verifies its transactions and the proposal takes them.
LaneAccepts(l, h) ==
  /\ h.ok
  /\ ToSet(h.own) \cap Malformed = {}
  /\ ~UpdateFails(proposal, l, h.own)

ProcessLane ==
  /\ ProcessingLane /\ rest # <<>>
  /\ LET l == Lanes[at]
         h == ProcessLaneHandler(l, ctx, rest)
     IN  /\ LaneAccepts(l, h)
         /\ proposal' = Updated(proposal, l, h.own)
         /\ ctx' = h.ctx
         /\ rest' = h.rest
  /\ at' = at + 1
  /\ UNCHANGED <<height, phase, pools, block, verdict, lost, panicked, built>>

ProcessLaneRejects ==
  /\ ProcessingLane /\ rest # <<>>
  /\ ~LaneAccepts(Lanes[at], ProcessLaneHandler(Lanes[at], ctx, rest))
  /\ Vote("reject")
  /\ UNCHANGED <<height, at, pools, ctx, proposal, block, rest, lost, panicked, built>>

ProcessLanePanics ==
  /\ ProcessingLane /\ rest # <<>>
  /\ Lanes[at] \in MayPanic
  /\ panicked' = panicked \cup {Lanes[at]}
  /\ Vote("reject")
  /\ UNCHANGED <<height, at, pools, ctx, proposal, block, rest, lost, built>>

\* Mutant: the terminator lets remaining transactions pass.
TerminatorVerdictLax == "accept"

\* The terminator refuses a proposal with transactions no lane has verified.
TerminatorVerdict == IF rest = <<>> THEN "accept" ELSE "reject"

FinishProcess ==
  /\ phase = "process" /\ at > Len(Lanes)
  /\ Vote(TerminatorVerdict)
  /\ UNCHANGED <<height, at, pools, ctx, proposal, block, rest, lost, panicked, built>>

-----------------------------------------------------------------------------
Prepare ==
  \/ PrepareInitialHeight \/ StartPrepare
  \/ PrepareLane \/ PrepareLaneFails \/ PrepareLanePanics
  \/ FinishPrepare

Process ==
  \/ ReceiveProposal \/ ProcessInitialHeight \/ DecodeFails \/ StartProcess
  \/ ProcessNothing \/ ProcessLane \/ ProcessLaneRejects \/ ProcessLanePanics
  \/ FinishProcess

Next == Prepare \/ Process

Spec == Init /\ [][Next]_vars

\* Both handlers are plain sequential code: once called, they keep running.
FairSpec == Spec /\ WF_vars(Next)

-----------------------------------------------------------------------------
(* Properties *)

\* The shape of the state.
TypeOK ==
  /\ height \in Heights
  /\ phase \in Phases
  /\ at \in 1 .. Len(Lanes) + 1
  /\ pools \in [ToSet(Lanes) -> SUBSET Tx]
  /\ ctx \in [Accounts -> Nat]
  /\ \E contributed \in SUBSET ToSet(Lanes) : proposal \in Proposal(contributed)
  /\ built \in BOOLEAN
  /\ block \in Seq(Tx) /\ rest \in Seq(Tx)
  /\ verdict \in {"none", "accept", "reject"}
  /\ lost \subseteq ToSet(Lanes) /\ panicked \subseteq ToSet(Lanes)

\* The context handed from lane to lane is the committed state with exactly the
\* proposal's transactions applied, in order, and every one of them applied
\* cleanly: a lane that failed or panicked half way has left nothing behind, and
\* no lane added a transaction it had not verified after its predecessors.
ProposalExecutes ==
  VerifyAll(StartCtx, proposal.txs) = [ok |-> TRUE, ctx |-> ctx]

\* The bookkeeping that admits a lane's transactions describes the transactions
\* in the proposal.
InfoMatchesTxs ==
  /\ proposal.cache = ToSet(proposal.txs)
  /\ proposal.size = TotalSize(proposal.txs)
  /\ Len(proposal.txs) = SumFunction(proposal.txsByLane)

\* The transactions a lane contributed: the section of the proposal behind those
\* of the lanes before it.
CountOf(l) == IF l \in DOMAIN proposal.txsByLane THEN proposal.txsByLane[l] ELSE 0

Section(i) ==
  LET before == SumFunction([j \in 1 .. i - 1 |-> CountOf(Lanes[j])])
  IN  SubSeq(proposal.txs, before + 1, before + CountOf(Lanes[i]))

\* The gas of a list of transactions, without the wrap-around of the code.
TrueGas(txs) == FoldLeft(LAMBDA n, t : n + Gas[t], 0, txs)

\* The proposal stays within the block's bytes.
WithinBlockSize == TotalSize(proposal.txs) <= Max({0, proposal.maxSize})

\* update.go, invariants 1 to 4: the proposal stays within the block's bytes and
\* gas, and what a lane contributed within the lane's share of them.
WithinLimits ==
  /\ WithinBlockSize
  /\ TrueGas(proposal.txs) <= proposal.maxGas
  /\ \A i \in DOMAIN Lanes : MaxBlockSpace[Lanes[i]] # 0 /\ Section(i) # <<>> =>
       /\ TotalSize(Section(i)) <= Share(Lanes[i], proposal.maxSize)
       /\ TrueGas(Section(i)) <= Share(Lanes[i], proposal.maxGas)

\* update.go, invariant 6: no transaction is in the proposal twice, whether from
\* two lanes or from one bundle.
NoTxTwice == Cardinality(ToSet(proposal.txs)) = Len(proposal.txs)

\* A lane's handler works from the limits and the cache of the proposal it is
\* given, so UpdateProposal never refuses what it selected and the transactions
\* of a lane are never dropped wholesale.  (With the unlimited lane last.)
NoLaneLost == lost = {}

\* abci/README.md:138: "always parity between the proposal built and the proposal
\* verified".  A proposal that came out of PrepareProposal is accepted, unless a
\* lane panics while it is verified.
Parity == built /\ verdict = "reject" => panicked # {}

\* The votes are sound: what was accepted, from whatever proposer, was verified
\* to its last transaction.
AcceptedIsVerified == height > 1 /\ verdict = "accept" => proposal.txs = block

\* Any bid among the transactions is the first of them and has its bundle behind it.
BidOnTop(txs) ==
  \A i \in DOMAIN txs :
    txs[i] \in Match[MEVLane] => i = 1 /\ IsPrefix(WithBundle(txs[1]), txs)

\* The auction is one bid's: a block that came out of PrepareProposal has at most one
\* bid, at its top, with exactly the bid's bundle behind it, although the lanes
\* behind the auction's would take a bid as they would any transaction.
AuctionOnTop == built => BidOnTop(block)

\* abci/README.md:9: a block "is comprised of contiguous sections of
\* transactions that belong to a single lane".  Bids of an accepted proposal are
\* in the auction lane's section only.
AcceptedBidsContiguous ==
  height > 1 /\ verdict = "accept" =>
    \A i \in DOMAIN Lanes : Lanes[i] # MEVLane => ToSet(Section(i)) \cap Match[MEVLane] = {}

\* Every request is answered, however many lanes fail on the way.
EventuallyAnswered == <>(phase = "done")
=============================================================================
