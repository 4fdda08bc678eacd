------------------------ MODULE ProposalHandlerProofs ------------------------
(***************************************************************************)
(* The safety of PrepareProposal and ProcessProposal, for every chain of   *)
(* lanes, mempool and proposal: what the handlers hand from lane to lane   *)
(* is a list of transactions that executes, and only such a list is built  *)
(* or accepted.                                                            *)
(***************************************************************************)
EXTENDS ProposalHandler, LaneHandlersProofs

\* The mempools are finite, so that their orders are lists.
PoolsFinite == \A l \in ToSet(Lanes) : IsFiniteSet(pools[l])

Types == TypeOK /\ PoolsFinite

-----------------------------------------------------------------------------
(* Steps of the chain *)

\* The transactions are signed by accounts, and a lane of the chain has limits and
\* a match handler.
LEMMA ChainTypes ==
  /\ SignedBy(Accounts)
  /\ StartCtx \in Contexts(Accounts)
  /\ Len(Lanes) \in Nat
  /\ \A i \in 1 .. Len(Lanes) :
       Lanes[i] \in ToSet(Lanes) /\ Lanes[i] \in DOMAIN MaxBlockSpace /\ Lanes[i] \in DOMAIN Match
<1>1. SignedBy(Accounts) /\ StartCtx \in Contexts(Accounts)
  BY HandlerAssumptions DEF SignedBy, Contexts
<1>2. Lanes \in Seq(DOMAIN Match)
  BY LaneAssumptions
<1>3. DOMAIN Lanes = 1 .. Len(Lanes) /\ Len(Lanes) \in Nat
  BY <1>2
<1>4. \A i \in 1 .. Len(Lanes) : Lanes[i] \in ToSet(Lanes)
  BY <1>3 DEF ToSet
<1> QED BY <1>1, <1>3, <1>4, HandlerAssumptions

\* The transactions are new to the proposal and within the lane's limits.
RoomFor(p, limit, txs) ==
  /\ ToSet(txs) \cap p.cache = {}
  /\ TotalSize(txs) <= limit.size /\ TotalGas(txs) <= limit.gas

\* What PrepareLane of the lane at hand selects from an order of its mempool
\* executes on the chain's context and leaves the context it returns.
LEMMA SelectedOk ==
  ASSUME Types, PreparingLane, NEW order \in Select(pools[Lanes[at]])
  PROVE  LET s == Selected(order)
         IN  /\ Lanes[at] \in ToSet(Lanes)
             /\ order \in Seq(Tx) /\ ToSet(order) \subseteq pools[Lanes[at]]
             /\ s.ctx \in Contexts(Accounts) /\ s.include \in Seq(Tx)
             /\ VerifyAll(ctx, s.include) = [ok |-> TRUE, ctx |-> s.ctx]
             /\ Lanes[at] # MEVLane =>
                  ToSet(s.include) \subseteq (ToSet(order) \cap Match[Lanes[at]]) \ Malformed
             /\ s.include # <<>> =>
                  RoomFor(proposal, GetLaneLimits(proposal, Lanes[at]), s.include)
             /\ Lanes[at] = MEVLane =>
                  BidSelectionOk(Accounts, ctx, proposal, GetLaneLimits(proposal, Lanes[at]), order, s)
<1> DEFINE l == Lanes[at]
           limit == GetLaneLimits(proposal, l)
           s == Selected(order)
<1>1. l \in ToSet(Lanes) /\ l \in DOMAIN MaxBlockSpace /\ l \in DOMAIN Match
  BY ChainTypes DEF Types, TypeOK, PreparingLane
<1>2. ctx \in Contexts(Accounts) /\ SignedBy(Accounts)
  BY ChainTypes DEF Types, TypeOK, Contexts
<1>3. limit \in [size : Int, gas : Int]
  <2>1. PICK D \in SUBSET ToSet(Lanes) : proposal \in Proposal(D)
    BY DEF Types, TypeOK
  <2> QED BY <1>1, <2>1, LaneLimitsType
<1>4. order \in Seq(Tx) /\ ToSet(order) \subseteq pools[l]
  <2>1. pools[l] \in SUBSET Tx /\ IsFiniteSet(pools[l])
    BY <1>1 DEF Types, TypeOK, PoolsFinite
  <2> QED BY <2>1, SelectType
<1>5. CASE l = MEVLane
  <2>1. s = MEVPrepare(ctx, proposal, limit, order)
    BY <1>5 DEF Selected, PrepareLaneHandler
  <2>2. BidSelectionOk(Accounts, ctx, proposal, limit, order, s)
    BY <1>1, <1>2, <1>4, <1>5, <2>1, MEVPrepareOk
  <2> HIDE DEF s, limit
  <2>3. s.include # <<>> => RoomFor(proposal, limit, s.include)
    BY <2>2 DEF BidSelectionOk, VerifyBidBasic, RoomFor
  <2> QED BY <1>1, <1>4, <1>5, <2>2, <2>3 DEF BidSelectionOk, s, limit
<1>6. CASE l # MEVLane
  <2>1. s = DefaultPrepare(l, ctx, proposal, limit, order)
    BY <1>6 DEF Selected, PrepareLaneHandler
  <2>2. SelectionOk(Accounts, l, ctx, proposal, limit, order, s)
    BY <1>2, <1>3, <1>4, <2>1, DefaultPrepareOk
  <2> HIDE DEF s, limit
  <2>3. s.include # <<>> => RoomFor(proposal, limit, s.include)
    BY <2>2 DEF SelectionOk, RoomFor
  <2> QED BY <1>1, <1>4, <1>6, <2>2, <2>3 DEF SelectionOk, Selections, s, limit
<1> QED BY <1>5, <1>6

\* What ProcessLane of the lane at hand verifies and leaves is the list it got.
LEMMA ProcessedLaneOk ==
  ASSUME Types, ProcessingLane, rest # <<>>,
         ProcessLaneHandler(Lanes[at], ctx, rest).ok
  PROVE  /\ Lanes[at] \in ToSet(Lanes)
         /\ ProcessedOk(Accounts, ctx, rest, ProcessLaneHandler(Lanes[at], ctx, rest))
<1>1. Lanes[at] \in ToSet(Lanes) /\ Lanes[at] \in DOMAIN Match
  BY ChainTypes DEF Types, TypeOK, ProcessingLane
<1>2. ctx \in Contexts(Accounts) /\ SignedBy(Accounts) /\ rest \in Seq(Tx)
  BY ChainTypes DEF Types, TypeOK, Contexts
<1> QED BY <1>1, <1>2, ProcessLaneOk

\* How the chain treats the context and the proposal it passes along: they start
\* over from the committed state, or take a lane's verified transactions.
Restarts ==
  /\ ctx' = StartCtx /\ at' = 1
  /\ \E maxSize \in Int, maxGas \in Nat : proposal' = NewProposal(maxSize, maxGas)

Takes(txs) ==
  /\ at <= Len(Lanes) /\ at' = at + 1
  /\ txs \in Seq(Tx) /\ Lanes[at] \in ToSet(Lanes)
  /\ ~UpdateFails(proposal, Lanes[at], txs)
  /\ proposal' = Updated(proposal, Lanes[at], txs)
  /\ VerifyAll(ctx, txs) = [ok |-> TRUE, ctx |-> ctx']
  /\ ctx' \in Contexts(Accounts)

\* The limits of the proposals the handlers start from are numbers.
LEMMA StartLimits ==
  BlockGasLimit(ConsMaxGas) \in Nat /\ ReqMaxTxBytes \in Int /\ ConsMaxBytes \in Int
BY HandlerAssumptions, ProposalsAssumptions DEF BlockGasLimit

\* Every step restarts the proposal, leaves it alone or lets the lane at hand add
\* to it: a lane that fails or panics leaves the context and the proposal as they
\* were.
LEMMA ChainStep ==
  ASSUME Types, Next
  PROVE  \/ /\ UNCHANGED <<ctx, proposal>>
            /\ at' = at \/ (at <= Len(Lanes) /\ at' = at + 1)
         \/ Restarts
         \/ \E txs : Takes(txs)
<1>1. CASE PrepareLane
  <2>1. PICK order \in Select(pools[Lanes[at]]) :
          /\ ~UpdateFails(proposal, Lanes[at], Selected(order).include)
          /\ proposal' = Updated(proposal, Lanes[at], Selected(order).include)
          /\ ctx' = Selected(order).ctx
    BY <1>1 DEF PrepareLane
  <2>2. PreparingLane
    BY <1>1 DEF PrepareLane
  <2>3. Takes(Selected(order).include)
    BY <1>1, <2>1, <2>2, SelectedOk DEF Takes, PrepareLane, PreparingLane
  <2> QED BY <2>3
<1>2. CASE ProcessLane
  <2> DEFINE h == ProcessLaneHandler(Lanes[at], ctx, rest)
  <2>1. /\ ProcessingLane /\ rest # <<>> /\ h.ok
        /\ ~UpdateFails(proposal, Lanes[at], h.own)
        /\ proposal' = Updated(proposal, Lanes[at], h.own)
        /\ ctx' = h.ctx
    BY <1>2 DEF ProcessLane, LaneAccepts
  <2>2. Lanes[at] \in ToSet(Lanes) /\ ProcessedOk(Accounts, ctx, rest, h)
    BY <2>1, ProcessedLaneOk
  <2> HIDE DEF h
  <2>3. Takes(h.own)
    BY <1>2, <2>1, <2>2 DEF Takes, ProcessedOk, ProcessLane, ProcessingLane
  <2> QED BY <2>3
<1>3. CASE StartProcess
  BY <1>3, StartLimits DEF StartProcess, Restarts
<1>4. CASE PrepareLaneFails \/ PrepareLanePanics
  BY <1>4 DEF PrepareLaneFails, PrepareLanePanics, PreparingLane, ContextAfterFailure,
              ProposalAfterFailure, LaneAfterFailure
<1>5. CASE \/ PrepareInitialHeight \/ StartPrepare \/ FinishPrepare \/ ReceiveProposal
           \/ ProcessInitialHeight \/ DecodeFails \/ ProcessNothing
           \/ ProcessLaneRejects \/ ProcessLanePanics \/ FinishProcess
  BY <1>5 DEF PrepareInitialHeight, StartPrepare, FinishPrepare, ReceiveProposal,
              ProcessInitialHeight, DecodeFails, ProcessNothing, ProcessingLane,
              ProcessLaneRejects, ProcessLanePanics, FinishProcess
<1> QED BY <1>1, <1>2, <1>3, <1>4, <1>5 DEF Next, Prepare, Process

-----------------------------------------------------------------------------
(* Types *)

\* A new proposal is a proposal to which no lane has contributed.
LEMMA NewProposalType ==
  ASSUME NEW maxSize \in Int, NEW maxGas \in Int
  PROVE  NewProposal(maxSize, maxGas) \in Proposal({})
BY ProposalsAssumptions DEF NewProposal, Proposal

\* The context and the proposal keep their types along the chain.
LEMMA ChainStepTypes ==
  ASSUME Types, Next
  PROVE  /\ ctx' \in [Accounts -> Nat]
         /\ \E contributed \in SUBSET ToSet(Lanes) : proposal' \in Proposal(contributed)
<1>1. CASE UNCHANGED <<ctx, proposal>>
  BY <1>1 DEF Types, TypeOK
<1>2. CASE Restarts
  BY <1>2, NewProposalType, ChainTypes DEF Restarts, Contexts
<1>3. ASSUME NEW txs, Takes(txs)
      PROVE  /\ ctx' \in [Accounts -> Nat]
             /\ \E contributed \in SUBSET ToSet(Lanes) : proposal' \in Proposal(contributed)
  <2>1. PICK D \in SUBSET ToSet(Lanes) : proposal \in Proposal(D)
    BY DEF Types, TypeOK
  <2>2. proposal' = proposal \/ proposal' \in Proposal(D \cup {Lanes[at]})
    BY <1>3, <2>1, UpdatedType DEF Takes, ExtendedBy
  <2>3. D \cup {Lanes[at]} \in SUBSET ToSet(Lanes)
    BY <1>3, <2>1 DEF Takes
  <2> QED BY <1>3, <2>1, <2>2, <2>3 DEF Takes, Contexts
<1> QED BY <1>1, <1>2, <1>3, ChainStep

\* RemoveTxsFromLane leaves a smaller, still finite mempool.
LEMMA RemovedTypes ==
  ASSUME Types, NEW l \in ToSet(Lanes), NEW txs, RemoveTxsFromLane(l, txs)
  PROVE  pools' \in [ToSet(Lanes) -> SUBSET Tx] /\ PoolsFinite'
<1>1. pools \in [ToSet(Lanes) -> SUBSET Tx] /\ \A k \in ToSet(Lanes) : IsFiniteSet(pools[k])
  BY DEF Types, TypeOK, PoolsFinite
<1>2. pools' = [pools EXCEPT ![l] = @ \ txs]
  BY DEF RemoveTxsFromLane
<1>3. pools' \in [ToSet(Lanes) -> SUBSET Tx]
  BY <1>1, <1>2
<1>4. ASSUME NEW k \in ToSet(Lanes)
      PROVE  IsFiniteSet(pools'[k])
  <2>1. pools'[k] \subseteq pools[k]
    BY <1>1, <1>2
  <2> QED BY <1>1, <2>1, FS_Subset
<1> QED BY <1>3, <1>4 DEF PoolsFinite

\* The initial states have the types.
LEMMA InitTypes == Init => Types
<1> SUFFICES ASSUME Init
             PROVE  Types
  OBVIOUS
<1>1. PICK S \in PoolContents : pools = [l \in ToSet(Lanes) |-> {t \in S : l \in FirstMatch(t)}]
  BY DEF Init
<1>2. S \subseteq Tx /\ IsFiniteSet(S)
  BY HandlerAssumptions DEF PoolContents
<1>3. \A l \in ToSet(Lanes) : pools[l] \subseteq S
  BY <1>1
<1>4. PoolsFinite
  BY <1>2, <1>3, FS_Subset DEF PoolsFinite
<1>5. pools \in [ToSet(Lanes) -> SUBSET Tx]
  BY <1>1, <1>2
<1>6. proposal \in Proposal({})
  BY NewProposalType, StartLimits DEF Init
<1>7. ctx \in [Accounts -> Nat]
  BY HandlerAssumptions DEF Init
<1>8. at \in 1 .. Len(Lanes) + 1 /\ block \in Seq(Tx) /\ rest \in Seq(Tx)
  BY ChainTypes DEF Init
<1> QED BY <1>4, <1>5, <1>6, <1>7, <1>8 DEF Init, Types, TypeOK, Phases

\* The types of what the context and the proposal are not: control, mempools, votes.
ControlTypes ==
  /\ height \in Heights
  /\ phase \in Phases
  /\ at \in 1 .. Len(Lanes) + 1
  /\ pools \in [ToSet(Lanes) -> SUBSET Tx] /\ PoolsFinite
  /\ built \in BOOLEAN
  /\ block \in Seq(Tx) /\ rest \in Seq(Tx)
  /\ verdict \in {"none", "accept", "reject"}
  /\ lost \subseteq ToSet(Lanes) /\ panicked \subseteq ToSet(Lanes)

\* Every action keeps them.
LEMMA ControlStepTypes ==
  ASSUME Types, Next
  PROVE  ControlTypes'
<1>a. ControlTypes /\ Len(Lanes) \in Nat
  BY ChainTypes DEF Types, TypeOK, ControlTypes
<1>b. UNCHANGED pools => PoolsFinite'
  BY <1>a DEF PoolsFinite, ControlTypes
<1>c. \A f \in Foreign : f \in Seq(Tx)
  BY HandlerAssumptions
<1>d. PreparingLane \/ ProcessingLane => at + 1 \in 1 .. Len(Lanes) + 1 /\ Lanes[at] \in ToSet(Lanes)
  BY <1>a, ChainTypes DEF ControlTypes, PreparingLane, ProcessingLane
<1>1. CASE PrepareInitialHeight
  BY <1>1, <1>a, <1>b, <1>c DEF ControlTypes, PrepareInitialHeight, Phases
<1>2. CASE StartPrepare
  BY <1>2, <1>a, <1>b DEF ControlTypes, StartPrepare, Phases
<1>3. CASE PrepareLane
  <2>1. PreparingLane /\ \E txs : RemoveTxsFromLane(Lanes[at], txs)
    BY <1>3 DEF PrepareLane
  <2>2. pools' \in [ToSet(Lanes) -> SUBSET Tx] /\ PoolsFinite'
    BY <1>d, <2>1, RemovedTypes
  <2> QED BY <1>3, <1>a, <1>d, <2>1, <2>2 DEF ControlTypes, PrepareLane
<1>4. CASE PrepareLaneFails
  <2>1. /\ PreparingLane /\ \E txs : RemoveTxsFromLane(Lanes[at], txs)
        /\ lost' = lost \cup {Lanes[at]}
    BY <1>4 DEF PrepareLaneFails
  <2>2. pools' \in [ToSet(Lanes) -> SUBSET Tx] /\ PoolsFinite'
    BY <1>d, <2>1, RemovedTypes
  <2> QED BY <1>4, <1>a, <1>d, <2>1, <2>2 DEF ControlTypes, PrepareLaneFails, LaneAfterFailure
<1>5. CASE PrepareLanePanics
  <2>1. PreparingLane /\ \E txs : RemoveTxsFromLane(Lanes[at], txs)
    BY <1>5 DEF PrepareLanePanics
  <2>2. pools' \in [ToSet(Lanes) -> SUBSET Tx] /\ PoolsFinite'
    BY <1>d, <2>1, RemovedTypes
  <2> QED BY <1>5, <1>a, <1>d, <2>1, <2>2 DEF ControlTypes, PrepareLanePanics, LaneAfterFailure
<1>6. CASE FinishPrepare
  <2>1. block' \in Seq(Tx)
    BY <1>6 DEF FinishPrepare, Types, TypeOK, Proposal
  <2> QED BY <1>6, <1>a, <1>b, <2>1 DEF ControlTypes, FinishPrepare, Phases
<1>7. CASE ReceiveProposal
  BY <1>7, <1>a, <1>b, <1>c DEF ControlTypes, ReceiveProposal, Phases
<1>8. CASE ProcessInitialHeight
  BY <1>8, <1>a, <1>b DEF ControlTypes, ProcessInitialHeight, Vote, Phases
<1>9. CASE DecodeFails
  BY <1>9, <1>a, <1>b DEF ControlTypes, DecodeFails, Vote, Phases
<1>10. CASE StartProcess
  BY <1>10, <1>a, <1>b DEF ControlTypes, StartProcess, Phases
<1>11. CASE ProcessNothing
  BY <1>11, <1>a, <1>b, <1>d DEF ControlTypes, ProcessNothing
<1>12. CASE ProcessLane
  <2> DEFINE h == ProcessLaneHandler(Lanes[at], ctx, rest)
  <2>1. ProcessingLane /\ rest # <<>> /\ h.ok /\ rest' = h.rest
    BY <1>12 DEF ProcessLane, LaneAccepts
  <2>2. rest' \in Seq(Tx)
    BY <2>1, ProcessedLaneOk DEF ProcessedOk
  <2> QED BY <1>12, <1>a, <1>b, <1>d, <2>2 DEF ControlTypes, ProcessLane
<1>13. CASE ProcessLaneRejects
  BY <1>13, <1>a, <1>b DEF ControlTypes, ProcessLaneRejects, Vote, Phases
<1>14. CASE ProcessLanePanics
  BY <1>14, <1>a, <1>b, <1>d DEF ControlTypes, ProcessLanePanics, Vote, Phases
<1>15. CASE FinishProcess
  BY <1>15, <1>a, <1>b DEF ControlTypes, FinishProcess, Vote, TerminatorVerdict, Phases
<1> QED BY <1>1, <1>2, <1>3, <1>4, <1>5, <1>6, <1>7, <1>8, <1>9, <1>10, <1>11, <1>12,
           <1>13, <1>14, <1>15 DEF Next, Prepare, Process

\* Every step keeps the types.
LEMMA NextTypes == Types /\ [Next]_vars => Types'
<1> SUFFICES ASSUME Types, [Next]_vars
             PROVE  Types'
  OBVIOUS
<1>1. CASE Next
  BY <1>1, ChainStepTypes, ControlStepTypes DEF ControlTypes, Types, TypeOK
<1>2. CASE UNCHANGED vars
  <2>1. PoolsFinite'
    BY <1>2 DEF vars, Types, PoolsFinite
  <2> QED BY <1>2, <2>1 DEF vars, Types, TypeOK
<1> QED BY <1>1, <1>2

\* TypeOK is an invariant, for every chain of lanes, mempool and proposal.
THEOREM TypeThm == Spec => []TypeOK
<1>1. Types => TypeOK
  BY DEF Types
<1> QED BY <1>1, InitTypes, NextTypes, PTL DEF Spec

-----------------------------------------------------------------------------
(* What the proposal holds *)

\* A proposal that starts over executes, counts nothing and is within its limits.
LEMMA NewProposalOk ==
  ASSUME NEW maxSize \in Int, NEW maxGas, NEW p, p = NewProposal(maxSize, maxGas)
  PROVE  /\ VerifyAll(StartCtx, p.txs) = [ok |-> TRUE, ctx |-> StartCtx]
         /\ p.cache = ToSet(p.txs) /\ p.size = TotalSize(p.txs)
         /\ Len(p.txs) = SumFunction(p.txsByLane)
         /\ TotalSize(p.txs) <= Max({0, p.maxSize})
<1>1. /\ p.txs = <<>> /\ p.cache = {} /\ p.size = 0
      /\ p.maxSize = maxSize /\ p.txsByLane = [l \in {} |-> 0]
  BY DEF NewProposal
<1>2. VerifyAll(StartCtx, <<>>) = [ok |-> TRUE, ctx |-> StartCtx]
  BY VerifyAllStep
<1>3. TotalSize(<<>>) = 0 /\ ToSet(<<>>) = {} /\ Len(<<>>) = 0
  BY TotalSizeStep DEF ToSet
<1>4. SumFunction(p.txsByLane) = 0
  <2>1. DOMAIN p.txsByLane = {}
    BY <1>1
  <2> QED BY <2>1, SumEmpty
<1>5. 0 <= Max({0, maxSize})
  <2>1. Max({0, maxSize}) = IF maxSize >= 0 THEN maxSize ELSE 0
    BY DEF Max
  <2> QED BY <2>1
<1> QED BY <1>1, <1>2, <1>3, <1>4, <1>5

\* What a lane's transactions do to the proposal.
LEMMA TakesShape ==
  ASSUME NEW D, proposal \in Proposal(D), NEW txs, Takes(txs)
  PROVE  /\ txs \in Seq(Tx) /\ proposal.txs \in Seq(Tx) /\ proposal.maxSize \in Int
         /\ proposal.txsByLane \in [D -> Nat] /\ proposal.size \in Nat
         /\ txs # <<>> => Fits(proposal, Lanes[at], txs) /\ Lanes[at] \notin D
         /\ ExtendedBy(D, proposal, Lanes[at], txs, proposal')
<1>1. txs \in Seq(Tx) /\ proposal' = Updated(proposal, Lanes[at], txs)
  BY DEF Takes
<1>2. /\ proposal.txs \in Seq(Tx) /\ proposal.maxSize \in Int
      /\ proposal.txsByLane \in [D -> Nat] /\ proposal.size \in Nat
  BY DEF Proposal
<1>3. txs # <<>> => Fits(proposal, Lanes[at], txs)
  BY DEF Takes, UpdateFails
<1>4. Fits(proposal, Lanes[at], txs) => Lanes[at] \notin D
  BY <1>2 DEF Fits
<1>5. ExtendedBy(D, proposal, Lanes[at], txs, proposal')
  BY <1>1, UpdatedType
<1> QED BY <1>1, <1>2, <1>3, <1>4, <1>5

\* Taking a lane's verified transactions keeps the proposal executable.
LEMMA TakesExecutes ==
  ASSUME Types, ProposalExecutes, NEW txs, Takes(txs)
  PROVE  ProposalExecutes'
<1>1. PICK D \in SUBSET ToSet(Lanes) : proposal \in Proposal(D)
  BY DEF Types, TypeOK
<1>2. proposal.txs \in Seq(Tx) /\ txs \in Seq(Tx)
  BY <1>1, TakesShape
<1>3. proposal'.txs = proposal.txs \o txs
  BY <1>1, TakesShape DEF ExtendedBy
<1>4. VerifyAll(StartCtx, proposal.txs).ok /\ VerifyAll(StartCtx, proposal.txs).ctx = ctx
  BY DEF ProposalExecutes
<1>5. VerifyAll(StartCtx, proposal.txs \o txs) = VerifyAll(ctx, txs)
  BY <1>2, <1>4, ChainTypes, VerifyAllConcat
<1> QED BY <1>3, <1>5 DEF ProposalExecutes, Takes

\* Taking a lane's transactions keeps the bookkeeping right.
LEMMA TakesInfo ==
  ASSUME Types, InfoMatchesTxs, NEW txs, Takes(txs)
  PROVE  InfoMatchesTxs'
<1> DEFINE l == Lanes[at]
<1>1. PICK D \in SUBSET ToSet(Lanes) : proposal \in Proposal(D)
  BY DEF Types, TypeOK
<1>2. /\ proposal.txs \in Seq(Tx) /\ txs \in Seq(Tx)
      /\ proposal.txsByLane \in [D -> Nat]
  BY <1>1, TakesShape
<1>3. CASE txs = <<>>
  <2>1. proposal' = proposal
    BY <1>1, <1>3, TakesShape DEF ExtendedBy
  <2> QED BY <2>1 DEF InfoMatchesTxs
<1>4. CASE txs # <<>>
  <2>1. /\ proposal'.txs = proposal.txs \o txs
        /\ proposal'.cache = proposal.cache \cup ToSet(txs)
        /\ proposal'.size = proposal.size + TotalSize(txs)
        /\ proposal'.txsByLane = [k \in D \cup {l} |->
                                    IF k = l THEN Len(txs) ELSE proposal.txsByLane[k]]
    <3>1. ExtendedBy(D, proposal, l, txs, proposal')
      BY <1>1, TakesShape
    <3> HIDE DEF l
    <3> QED BY <1>4, <3>1 DEF ExtendedBy
  <2>2. l \notin D
    BY <1>1, <1>4, TakesShape
  <2>3. proposal'.cache = ToSet(proposal'.txs)
    BY <1>2, <2>1, ToSetConcat DEF InfoMatchesTxs
  <2>4. proposal'.size = TotalSize(proposal'.txs)
    BY <1>2, <2>1, TotalSizeConcat DEF InfoMatchesTxs
  <2>5. Len(proposal'.txs) = SumFunction(proposal'.txsByLane)
    <3> DEFINE f == proposal.txsByLane
               h == proposal'.txsByLane
               C == D \cup {l}
    <3>1. IsFiniteSet(D)
      <4>1. Lanes \in Seq(DOMAIN Match)
        BY LaneAssumptions
      <4> QED BY <4>1, ToSetFinite, FS_Subset
    <3>2. h \in [C -> Nat] /\ (\A k \in D : f[k] = h[k]) /\ h[l] = Len(txs)
      BY <1>2, <2>1, <2>2
    <3>3. f \in [D -> Nat] /\ Len(proposal.txs) = SumFunction(f)
      BY <1>2 DEF InfoMatchesTxs
    <3>a. C = D \cup {l}
      OBVIOUS
    <3> HIDE DEF f, h, l, C
    <3>4. SumFunction(h) = SumFunction(f) + Len(txs)
      <4>1. /\ IsFiniteSet(D) /\ f \in [D -> Nat] /\ l \notin D /\ C = D \cup {l}
            /\ h \in [C -> Nat] /\ \A y \in D : f[y] = h[y]
        BY <2>2, <3>a, <3>1, <3>2, <3>3
      <4>2. SumFunction(h) = SumFunction(f) + h[l]
        BY ONLY <4>1, SumExtend
      <4> QED BY <3>2, <4>2
    <3>5. Len(proposal'.txs) = Len(proposal.txs) + Len(txs)
      BY <1>2, <2>1
    <3> QED BY <3>3, <3>4, <3>5 DEF h
  <2> QED BY <2>3, <2>4, <2>5 DEF InfoMatchesTxs
<1> QED BY <1>3, <1>4

\* Taking a lane's transactions keeps the proposal within the block.
LEMMA TakesWithin ==
  ASSUME Types, InfoMatchesTxs, WithinBlockSize, NEW txs, Takes(txs)
  PROVE  WithinBlockSize'
<1>1. PICK D \in SUBSET ToSet(Lanes) : proposal \in Proposal(D)
  BY DEF Types, TypeOK
<1>2. txs \in Seq(Tx) /\ proposal.txs \in Seq(Tx) /\ proposal.maxSize \in Int
  BY <1>1, TakesShape
<1>3. CASE txs = <<>>
  <2>1. proposal' = proposal
    BY <1>1, <1>3, TakesShape DEF ExtendedBy
  <2> QED BY <2>1 DEF WithinBlockSize
<1>4. CASE txs # <<>>
  <2>1. /\ proposal'.txs = proposal.txs \o txs
        /\ proposal'.maxSize = proposal.maxSize
    BY <1>1, TakesShape DEF ExtendedBy
  <2>2. proposal.size + TotalSize(txs) <= proposal.maxSize
    BY <1>1, <1>4, TakesShape DEF Fits
  <2>3. TotalSize(proposal'.txs) <= proposal.maxSize /\ TotalSize(proposal'.txs) \in Nat
    <3>1. TotalSize(proposal.txs \o txs) = TotalSize(proposal.txs) + TotalSize(txs)
          /\ TotalSize(proposal.txs) \in Nat /\ TotalSize(txs) \in Nat
      BY <1>2, TotalSizeConcat
    <3> QED BY <2>1, <2>2, <3>1 DEF InfoMatchesTxs
  <2>4. proposal.maxSize <= Max({0, proposal.maxSize}) /\ Max({0, proposal.maxSize}) \in Int
    <3> DEFINE m == proposal.maxSize
    <3>1. m \in Int
      BY <1>2
    <3> HIDE DEF m
    <3>2. Max({0, m}) = IF m >= 0 THEN m ELSE 0
      BY <3>1 DEF Max
    <3>3. m <= Max({0, m}) /\ Max({0, m}) \in Int
      BY <3>1, <3>2
    <3> QED BY <3>3 DEF m
  <2> QED BY <1>2, <2>1, <2>3, <2>4 DEF WithinBlockSize
<1> QED BY <1>3, <1>4

\* The inductive invariant: the proposal executes, its bookkeeping describes it and
\* it is within the block.  (The bookkeeping is what the limit is checked against.)
ProposalInv == Types /\ ProposalExecutes /\ InfoMatchesTxs /\ WithinBlockSize

\* It holds initially.
LEMMA InitProposalInv == Init => ProposalInv
BY InitTypes, StartLimits, NewProposalOk
   DEF Init, ProposalInv, ProposalExecutes, InfoMatchesTxs, WithinBlockSize

\* Every step keeps it.
LEMMA NextProposalInv == ProposalInv /\ [Next]_vars => ProposalInv'
<1> SUFFICES ASSUME ProposalInv, [Next]_vars
             PROVE  ProposalInv'
  OBVIOUS
<1>1. Types'
  BY NextTypes DEF ProposalInv
<1>2. CASE UNCHANGED <<ctx, proposal>>
  BY <1>1, <1>2 DEF ProposalInv, ProposalExecutes, InfoMatchesTxs, WithinBlockSize
<1>3. CASE Restarts
  BY <1>1, <1>3, NewProposalOk
     DEF Restarts, ProposalInv, ProposalExecutes, InfoMatchesTxs, WithinBlockSize
<1>4. ASSUME NEW txs, Takes(txs)
      PROVE  ProposalInv'
  BY <1>1, <1>4, TakesExecutes, TakesInfo, TakesWithin DEF ProposalInv
<1>5. CASE UNCHANGED vars
  BY <1>2, <1>5 DEF vars
<1> QED BY <1>2, <1>3, <1>4, <1>5, ChainStep DEF ProposalInv

\* What the lanes hand to one another executes: the context is the committed state
\* with exactly the proposal's transactions applied.
THEOREM ProposalExecutesThm == Spec => []ProposalExecutes
<1>1. ProposalInv => ProposalExecutes
  BY DEF ProposalInv
<1> QED BY <1>1, InitProposalInv, NextProposalInv, PTL DEF Spec

\* The bookkeeping of Proposal and Info describes the transactions.
THEOREM InfoMatchesTxsThm == Spec => []InfoMatchesTxs
<1>1. ProposalInv => InfoMatchesTxs
  BY DEF ProposalInv
<1> QED BY <1>1, InitProposalInv, NextProposalInv, PTL DEF Spec

\* The proposal is never larger than the block's MaxBytes (update.go, invariant 1).
THEOREM WithinBlockSizeThm == Spec => []WithinBlockSize
<1>1. ProposalInv => WithinBlockSize
  BY DEF ProposalInv
<1> QED BY <1>1, InitProposalInv, NextProposalInv, PTL DEF Spec

\* No transaction is in the proposal twice (update.go, invariant 6): a list that
\* executes cannot use a sequence number twice.
THEOREM NoTxTwiceThm == Spec => []NoTxTwice
<1>1. ProposalInv => NoTxTwice
  <2> SUFFICES ASSUME ProposalInv
               PROVE  NoTxTwice
    OBVIOUS
  <2>1. proposal.txs \in Seq(Tx)
    BY DEF ProposalInv, Types, TypeOK, Proposal
  <2>2. VerifyAll(StartCtx, proposal.txs).ok
    BY DEF ProposalInv, ProposalExecutes
  <2>3. \A i, j \in 1 .. Len(proposal.txs) : proposal.txs[i] = proposal.txs[j] => i = j
    BY <2>1, <2>2, ChainTypes, VerifiedOnce
  <2> QED BY <2>1, <2>3, ToSetFinite DEF NoTxTwice
<1> QED BY <1>1, InitProposalInv, NextProposalInv, PTL DEF Spec

-----------------------------------------------------------------------------
(* The votes *)

\* What has been verified and what remains is the block, until the vote.
VoteInv ==
  /\ Types
  /\ phase = "process" => proposal.txs \o rest = block
  /\ verdict # "none" => phase = "done"
  /\ AcceptedIsVerified

\* Every step keeps it.
LEMMA NextVoteInv == VoteInv /\ [Next]_vars => VoteInv'
<1> SUFFICES ASSUME VoteInv, [Next]_vars
             PROVE  VoteInv'
  OBVIOUS
<1>1. Types' /\ Types
  BY NextTypes DEF VoteInv
<1>2. height \in Nat /\ proposal.txs \in Seq(Tx) /\ rest \in Seq(Tx) /\ block \in Seq(Tx)
  BY <1>1, HandlerAssumptions DEF Types, TypeOK, Proposal
<1>3. CASE StartProcess
  <2>1. proposal'.txs \o rest' = block'
    BY <1>2, <1>3 DEF StartProcess, NewProposal
  <2> QED BY <1>1, <1>3, <2>1 DEF VoteInv, StartProcess, AcceptedIsVerified
<1>4. CASE ProcessLane
  <2> DEFINE h == ProcessLaneHandler(Lanes[at], ctx, rest)
  <2>1. /\ ProcessingLane /\ rest # <<>> /\ h.ok /\ rest' = h.rest
        /\ proposal' = Updated(proposal, Lanes[at], h.own)
    BY <1>4 DEF ProcessLane, LaneAccepts
  <2>2. h.own \in Seq(Tx) /\ h.rest \in Seq(Tx) /\ h.own \o h.rest = rest
    BY <1>1, <2>1, ProcessedLaneOk DEF ProcessedOk
  <2> HIDE DEF h
  <2>3. proposal'.txs = proposal.txs \o h.own
    <3>1. PICK D \in SUBSET ToSet(Lanes) : proposal \in Proposal(D)
      BY <1>1 DEF Types, TypeOK
    <3>2. ExtendedBy(D, proposal, Lanes[at], h.own, proposal')
      BY <2>1, <2>2, <3>1, UpdatedType
    <3> QED BY <3>2 DEF ExtendedBy
  <2>4. proposal'.txs \o rest' = proposal.txs \o rest
    <3>1. \A s, t, u \in Seq(Tx) : (s \o t) \o u = s \o (t \o u)
      BY ConcatAssociative
    <3>2. (proposal.txs \o h.own) \o h.rest = proposal.txs \o (h.own \o h.rest)
      <4>1. proposal.txs \in Seq(Tx) /\ h.own \in Seq(Tx) /\ h.rest \in Seq(Tx)
        BY <1>2, <2>2
      <4> QED BY ONLY <3>1, <4>1, Zenon
    <3> QED BY <2>1, <2>2, <2>3, <3>2
  <2> QED BY <1>1, <1>4, <2>4 DEF VoteInv, ProcessLane, ProcessingLane, AcceptedIsVerified
<1>5. CASE FinishProcess
  <2>1. rest = <<>> => proposal.txs = block
    BY <1>2, <1>5 DEF VoteInv, FinishProcess
  <2> QED BY <1>1, <1>5, <2>1
      DEF VoteInv, FinishProcess, Vote, TerminatorVerdict, AcceptedIsVerified
<1>6. CASE ProcessInitialHeight
  BY <1>1, <1>2, <1>6 DEF VoteInv, ProcessInitialHeight, Vote, AcceptedIsVerified
<1>7. CASE DecodeFails \/ ProcessLaneRejects \/ ProcessLanePanics
  BY <1>1, <1>7 DEF VoteInv, DecodeFails, ProcessLaneRejects, ProcessLanePanics, Vote,
                    AcceptedIsVerified
<1>8. CASE ProcessNothing
  BY <1>1, <1>8 DEF VoteInv, ProcessNothing, ProcessingLane, AcceptedIsVerified
<1>9. CASE \/ PrepareInitialHeight \/ StartPrepare \/ FinishPrepare \/ ReceiveProposal
  BY <1>1, <1>9 DEF VoteInv, PrepareInitialHeight, StartPrepare, FinishPrepare,
                    ReceiveProposal, AcceptedIsVerified
<1>10. CASE PrepareLane \/ PrepareLaneFails \/ PrepareLanePanics
  BY <1>1, <1>10 DEF VoteInv, PrepareLane, PrepareLaneFails, PrepareLanePanics,
                     PreparingLane, AcceptedIsVerified
<1>11. CASE UNCHANGED vars
  BY <1>1, <1>11 DEF VoteInv, vars, AcceptedIsVerified
<1> QED BY <1>3, <1>4, <1>5, <1>6, <1>7, <1>8, <1>9, <1>10, <1>11 DEF Next, Prepare, Process

\* A proposal is accepted, whoever sent it, only if the lanes verified it to its
\* last transaction.
THEOREM AcceptedIsVerifiedThm == Spec => []AcceptedIsVerified
<1>1. Init => VoteInv
  BY InitTypes DEF Init, VoteInv, AcceptedIsVerified
<1>2. VoteInv => AcceptedIsVerified
  BY DEF VoteInv
<1> QED BY <1>1, <1>2, NextVoteInv, PTL DEF Spec

\* An accepted block executes from the committed state to its last transaction; at
\* the first heights ProcessProposal accepts without a look.
AcceptedExecutes ==
  height > 1 /\ verdict = "accept" => VerifyAll(StartCtx, block).ok

\* What ProcessProposal accepts executes, whoever built it: the two invariants above
\* together.
THEOREM AcceptedExecutesThm == Spec => []AcceptedExecutes
<1>1. ProposalExecutes /\ AcceptedIsVerified => AcceptedExecutes
  BY DEF ProposalExecutes, AcceptedIsVerified, AcceptedExecutes
<1> QED BY <1>1, ProposalExecutesThm, AcceptedIsVerifiedThm, PTL

-----------------------------------------------------------------------------
(* The auction, with the auction lane first *)

AuctionFirst == Lanes # <<>> /\ Lanes[1] = MEVLane

\* The other lanes' mempools hold no bid, because the first lane that matches gets
\* it; PrepareProposal has taken nothing before the auction lane, and what it has
\* taken has the winning bid on top.
AuctionInv ==
  /\ Types
  /\ \A l \in ToSet(Lanes) \ {MEVLane} : pools[l] \cap Match[MEVLane] = {}
  /\ phase \in {"idle", "prepare"} =>
       /\ ~built
       /\ at = 1 => proposal.txs = <<>>
       /\ BidOnTop(proposal.txs)
  /\ AuctionOnTop

\* Insert gives a bid to the auction lane if it is the first.
LEMMA BidsMatchFirst ==
  ASSUME AuctionFirst, NEW t \in Match[MEVLane]
  PROVE  FirstMatch(t) = {MEVLane}
<1> DEFINE I == {i \in 1 .. Len(Lanes) : t \in Match[Lanes[i]]}
<1>1. 1 \in 1 .. Len(Lanes)
  BY LaneAssumptions DEF AuctionFirst
<1>2. 1 \in I /\ I \in SUBSET Nat /\ \A i \in I : 1 <= i
  BY <1>1 DEF AuctionFirst
<1> HIDE DEF I
<1>3. Min(I) = 1
  <2>1. Min(I) \in I /\ Min(I) <= 1
    BY <1>2, MinIn
  <2>2. Min(I) \in Nat /\ 1 <= Min(I)
    BY <1>2, <2>1
  <2> QED BY <2>1, <2>2
<1> DEFINE i == SelectInSeq(Lanes, LAMBDA l : t \in Match[l])
<1>4. i = 1
  BY <1>2, <1>3 DEF SelectInSeq, I
<1>5. FirstMatch(t) = IF i = 0 THEN {} ELSE {Lanes[i]}
  BY DEF FirstMatch
<1> HIDE DEF i
<1> QED BY <1>4, <1>5 DEF AuctionFirst

\* A list with no bids behind one with the winning bid on top.
LEMMA OnTopConcat ==
  ASSUME MEVLane \in DOMAIN Match, NEW s \in Seq(Tx), NEW t \in Seq(Tx), BidOnTop(s),
         ToSet(t) \cap Match[MEVLane] = {}
  PROVE  BidOnTop(s \o t)
<1>1. /\ Len(s) \in Nat /\ Len(t) \in Nat /\ Len(s \o t) = Len(s) + Len(t)
      /\ DOMAIN s = 1 .. Len(s) /\ DOMAIN t = 1 .. Len(t)
      /\ DOMAIN (s \o t) = 1 .. Len(s) + Len(t)
      /\ \A i \in 1 .. Len(s) + Len(t) :
           (s \o t)[i] = IF i <= Len(s) THEN s[i] ELSE t[i - Len(s)]
  OBVIOUS
<1> SUFFICES ASSUME NEW i \in DOMAIN (s \o t), (s \o t)[i] \in Match[MEVLane]
             PROVE  i = 1 /\ IsPrefix(WithBundle((s \o t)[1]), s \o t)
  BY DEF BidOnTop
<1>2. CASE i > Len(s)
  <2>1. i - Len(s) \in DOMAIN t /\ t[i - Len(s)] \in Match[MEVLane]
    BY <1>1, <1>2
  <2> QED BY <2>1 DEF ToSet
<1>3. CASE i <= Len(s)
  <2>1. i = 1 /\ s[1] \in Match[MEVLane] /\ (s \o t)[1] = s[1] /\ IsPrefix(WithBundle(s[1]), s)
    BY <1>1, <1>3 DEF BidOnTop
  <2> DEFINE w == WithBundle(s[1])
  <2>2. w \in Seq(Tx)
    BY <2>1, WithBundleType
  <2>3. Len(w) <= Len(s) /\ SubSeq(w, 1, Len(w)) = SubSeq(s, 1, Len(w))
    BY <2>1 DEF IsPrefix
  <2> HIDE DEF w
  <2>4. SubSeq(s \o t, 1, Len(w)) = SubSeq(s, 1, Len(w))
    BY <1>1, <2>2, <2>3
  <2>5. IsPrefix(w, s \o t)
    BY <1>1, <2>2, <2>3, <2>4 DEF IsPrefix
  <2> QED BY <2>1, <2>5 DEF w
<1> QED BY <1>1, <1>2, <1>3

\* A bid with its bundle has the bid on top.
LEMMA OnTopBundle ==
  ASSUME MEVLane \in DOMAIN Match, NEW b \in Match[MEVLane],
         ToSet(Bundle[b]) \cap Match[MEVLane] = {}
  PROVE  BidOnTop(WithBundle(b))
<1> DEFINE w == WithBundle(b)
<1>1. /\ w \in Seq(Tx) /\ w[1] = b
      /\ \A i \in 2 .. Len(w) : w[i] \in ToSet(Bundle[b])
  BY WithBundleType
<1> HIDE DEF w
<1>2. ASSUME NEW i \in DOMAIN w, w[i] \in Match[MEVLane]
      PROVE  i = 1
  <2>1. i \in 1 .. Len(w) /\ i \notin 2 .. Len(w)
    BY <1>1, <1>2
  <2> QED BY <1>1, <2>1
<1>3. IsPrefix(WithBundle(w[1]), w)
  <2>1. WithBundle(w[1]) = w
    BY <1>1 DEF w
  <2> QED BY <1>1, <2>1 DEF IsPrefix
<1> QED BY <1>2, <1>3 DEF BidOnTop, w

\* Initially there are no bids in the other lanes' mempools.
LEMMA InitAuctionInv ==
  ASSUME AuctionFirst
  PROVE  Init => AuctionInv
<1> SUFFICES ASSUME Init
             PROVE  AuctionInv
  OBVIOUS
<1>1. PICK S : pools = [l \in ToSet(Lanes) |-> {t \in S : l \in FirstMatch(t)}]
  BY DEF Init
<1>2. ASSUME NEW l \in ToSet(Lanes) \ {MEVLane}, NEW t \in pools[l], t \in Match[MEVLane]
      PROVE  FALSE
  BY <1>1, <1>2, BidsMatchFirst
<1>3. proposal.txs = <<>>
  BY DEF Init, NewProposal
<1> QED BY <1>2, <1>3, InitTypes DEF Init, AuctionInv, AuctionOnTop, BidOnTop

\* Every step keeps the invariant: only the auction lane adds bids, one of them, to
\* an empty proposal.
LEMMA NextAuctionInv ==
  ASSUME AuctionFirst
  PROVE  AuctionInv /\ [Next]_vars => AuctionInv'
<1> SUFFICES ASSUME AuctionInv, [Next]_vars
             PROVE  AuctionInv'
  OBVIOUS
<1> DEFINE NoBids(ps) == \A l \in ToSet(Lanes) \ {MEVLane} : ps[l] \cap Match[MEVLane] = {}
<1>1. Types' /\ Types /\ at \in Nat /\ at >= 1
  BY NextTypes, ChainTypes DEF AuctionInv, Types, TypeOK
<1>2. ASSUME NEW l, NEW txs, RemoveTxsFromLane(l, txs)
      PROVE  NoBids(pools')
  BY <1>1, <1>2 DEF AuctionInv, Types, TypeOK, RemoveTxsFromLane
<1>3. CASE PrepareLane
  <2>1. PICK order \in Select(pools[Lanes[at]]) :
          /\ proposal' = Updated(proposal, Lanes[at], Selected(order).include)
          /\ RemoveTxsFromLane(Lanes[at], Selected(order).remove)
    BY <1>3 DEF PrepareLane
  <2> DEFINE s == Selected(order)
  <2>2. PreparingLane /\ phase' = phase /\ at' = at + 1 /\ UNCHANGED <<built, block>>
    BY <1>3 DEF PrepareLane
  <2>3. /\ Lanes[at] \in ToSet(Lanes) /\ ToSet(order) \subseteq pools[Lanes[at]]
        /\ s.include \in Seq(Tx)
        /\ Lanes[at] # MEVLane => ToSet(s.include) \subseteq ToSet(order)
        /\ Lanes[at] = MEVLane =>
             BidSelectionOk(Accounts, ctx, proposal, GetLaneLimits(proposal, Lanes[at]), order, s)
    BY <1>1, <2>1, <2>2, SelectedOk
  <2> HIDE DEF s
  <2>4. /\ BidOnTop(proposal.txs) /\ ~built /\ proposal.txs \in Seq(Tx)
        /\ at = 1 => proposal.txs = <<>>
    BY <1>1, <2>2 DEF AuctionInv, PreparingLane, Types, TypeOK, Proposal
  <2>5. proposal'.txs = proposal.txs \o s.include
    <3>1. PICK D \in SUBSET ToSet(Lanes) : proposal \in Proposal(D)
      BY <1>1 DEF Types, TypeOK
    <3>2. ExtendedBy(D, proposal, Lanes[at], s.include, proposal')
      BY <2>1, <2>3, <3>1, UpdatedType DEF s
    <3> QED BY <3>2 DEF ExtendedBy
  <2>6. BidOnTop(proposal'.txs)
    <3>1. MEVLane \in DOMAIN Match /\ at \in DOMAIN Lanes /\ 1 \in DOMAIN Lanes
      BY <1>1, <2>2, LaneAssumptions, ChainTypes DEF AuctionFirst, PreparingLane
    <3>2. CASE Lanes[at] # MEVLane
      <4>1. ToSet(s.include) \cap Match[MEVLane] = {}
        BY <2>3, <3>2 DEF AuctionInv
      <4> QED BY <2>3, <2>4, <2>5, <3>1, <4>1, OnTopConcat
    <3>3. CASE Lanes[at] = MEVLane
      <4>1. at = 1
        BY <3>1, <3>3, HandlerAssumptions DEF AuctionFirst
      <4>2. proposal'.txs = s.include
        <5>1. \A t \in Seq(Tx) : <<>> \o t = t
          OBVIOUS
        <5> QED BY <2>3, <2>4, <2>5, <4>1, <5>1
      <4>3. CASE s.include = <<>>
        BY <4>2, <4>3 DEF BidOnTop
      <4>4. CASE s.include # <<>>
        <5>1. PICK b \in Match[MEVLane] :
                s.include = WithBundle(b) /\ ToSet(Bundle[b]) \cap Match[MEVLane] = {}
          BY <2>3, <3>3, <4>4 DEF BidSelectionOk
        <5> QED BY <3>1, <4>2, <5>1, OnTopBundle
      <4> QED BY <4>3, <4>4
    <3> QED BY <3>2, <3>3
  <2> QED BY <1>1, <1>2, <2>1, <2>2, <2>4, <2>6 DEF AuctionInv, AuctionOnTop
<1>4. CASE PrepareLaneFails \/ PrepareLanePanics
  <2>1. \E txs : RemoveTxsFromLane(Lanes[at], txs)
    BY <1>4 DEF PrepareLaneFails, PrepareLanePanics
  <2>2. /\ UNCHANGED <<proposal, phase, built, block>> /\ at' = at + 1
    BY <1>4 DEF PrepareLaneFails, PrepareLanePanics, LaneAfterFailure, ProposalAfterFailure
  <2> QED BY <1>1, <1>2, <2>1, <2>2 DEF AuctionInv, AuctionOnTop
<1>5. CASE StartPrepare
  BY <1>1, <1>5 DEF AuctionInv, AuctionOnTop, StartPrepare
<1>6. CASE FinishPrepare
  BY <1>1, <1>6 DEF AuctionInv, AuctionOnTop, FinishPrepare
<1>7. CASE PrepareInitialHeight \/ ReceiveProposal
  BY <1>1, <1>7 DEF AuctionInv, AuctionOnTop, PrepareInitialHeight, ReceiveProposal
<1>8. CASE \/ ProcessInitialHeight \/ DecodeFails \/ StartProcess \/ ProcessNothing
           \/ ProcessLane \/ ProcessLaneRejects \/ ProcessLanePanics \/ FinishProcess
  <2>1. phase' \notin {"idle", "prepare"} /\ UNCHANGED <<pools, built, block>>
    BY <1>8 DEF ProcessInitialHeight, DecodeFails, StartProcess, ProcessNothing, ProcessLane,
                ProcessLaneRejects, ProcessLanePanics, FinishProcess, ProcessingLane, Vote
  <2> QED BY <1>1, <2>1 DEF AuctionInv, AuctionOnTop
<1>9. CASE UNCHANGED vars
  BY <1>1, <1>9 DEF AuctionInv, AuctionOnTop, vars
<1> QED BY <1>3, <1>4, <1>5, <1>6, <1>7, <1>8, <1>9 DEF Next, Prepare, Process

\* A block that came out of PrepareProposal has at most one bid, at its top, with
\* exactly its bundle behind it, in every chain whose first lane is the auction's.
THEOREM AuctionOnTopThm ==
  ASSUME AuctionFirst
  PROVE  Spec => []AuctionOnTop
<1>1. Init => AuctionInv
  BY InitAuctionInv
<1>2. AuctionInv /\ [Next]_vars => AuctionInv'
  BY NextAuctionInv
<1>3. AuctionInv => AuctionOnTop
  BY DEF AuctionInv
<1> QED BY <1>1, <1>2, <1>3, PTL DEF Spec

-----------------------------------------------------------------------------
(* The limits *)

\* A list without repetitions.
Once(s) == \A i, j \in 1 .. Len(s) : s[i] = s[j] => i = j

\* All transactions together ask for less gas than a uint64 holds, so that no sum
\* of the gas of distinct transactions wraps.
NoGasWrap == \A s \in Seq(Tx) : Once(s) => TrueGas(s) < GasModulus

TrueGasStep(par, n, t) == n + Gas[t]
TrueGasFold == INSTANCE FoldTheorems WITH Step <- TrueGasStep

\* TrueGas, one transaction at a time.
LEMMA TrueGasAppend ==
  /\ TrueGas(<<>>) = 0
  /\ \A s \in Seq(Tx), t \in Tx : TrueGas(Append(s, t)) = TrueGas(s) + Gas[t]
<1>1. \A s : TrueGas(s) = TrueGasFold!Fold(0, 0, s)
  BY DEF TrueGas, TrueGasFold!Fold, FoldLeft, MapThenFoldSet, Max, TrueGasStep,
         TrueGasFold!FoldLeft, TrueGasFold!MapThenFoldSet, TrueGasFold!Max
<1>2. TrueGas(<<>>) = 0
  BY <1>1, TrueGasFold!FoldEmpty
<1>3. ASSUME NEW s \in Seq(Tx), NEW t \in Tx
      PROVE  TrueGas(Append(s, t)) = TrueGas(s) + Gas[t]
  BY <1>1, TrueGasFold!FoldAppend DEF TrueGasStep
<1> QED BY <1>2, <1>3

\* TrueGas is a natural number and adds up over concatenation.
LEMMA TrueGasConcat ==
  /\ \A s \in Seq(Tx) : TrueGas(s) \in Nat
  /\ \A s, t \in Seq(Tx) : TrueGas(s \o t) = TrueGas(s) + TrueGas(t)
<1>0. \A t \in Tx : Gas[t] \in Nat
  BY ProposalsAssumptions
<1>1. \A s \in Seq(Tx) : TrueGas(s) \in Nat
  <2> DEFINE S == {s \in Seq(Tx) : TrueGas(s) \in Nat}
  <2>1. <<>> \in S
    BY TrueGasAppend
  <2>2. \A s \in Seq(Tx), t \in Tx : s \in S => Append(s, t) \in S
    BY <1>0, TrueGasAppend
  <2> HIDE DEF S
  <2>3. \A s \in Seq(Tx) : s \in S
    BY <2>1, <2>2, SeqInduction
  <2> QED BY <2>3 DEF S
<1>2. ASSUME NEW s \in Seq(Tx)
      PROVE  \A t \in Seq(Tx) : TrueGas(s \o t) = TrueGas(s) + TrueGas(t)
  <2> DEFINE S == {t \in Seq(Tx) : TrueGas(s \o t) = TrueGas(s) + TrueGas(t)}
  <2>1. <<>> \in S
    BY <1>1, TrueGasAppend
  <2>2. ASSUME NEW t \in Seq(Tx), NEW e \in Tx, t \in S
        PROVE  Append(t, e) \in S
    <3>1. s \o Append(t, e) = Append(s \o t, e) /\ s \o t \in Seq(Tx)
      OBVIOUS
    <3>2. TrueGas(s \o Append(t, e)) = TrueGas(s \o t) + Gas[e]
      BY <3>1, TrueGasAppend
    <3>3. TrueGas(Append(t, e)) = TrueGas(t) + Gas[e]
      BY TrueGasAppend
    <3>4. TrueGas(s) \in Nat /\ TrueGas(t) \in Nat /\ Gas[e] \in Nat
      BY <1>0, <1>1
    <3>5. TrueGas(s \o t) = TrueGas(s) + TrueGas(t)
      BY <2>2
    <3>6. TrueGas(s \o Append(t, e)) = TrueGas(s) + TrueGas(Append(t, e))
      BY <3>2, <3>3, <3>4, <3>5
    <3> QED BY <3>6
  <2> HIDE DEF S
  <2>3. \A t \in Seq(Tx) : t \in S
    BY <2>1, <2>2, SeqInduction
  <2> QED BY <2>3 DEF S
<1> QED BY <1>1, <1>2

\* Gas that fits does not wrap, and wrapping never makes it more.
LEMMA WrapExact ==
  ASSUME NEW n \in Nat
  PROVE  Wrap(n) \in Nat /\ Wrap(n) <= n /\ (n < GasModulus => Wrap(n) = n)
BY ProposalsAssumptions DEF Wrap

\* The parts of a list without repetitions have none.
LEMMA OnceParts ==
  ASSUME NEW s \in Seq(Tx), NEW t \in Seq(Tx), Once(s \o t)
  PROVE  Once(s) /\ Once(t)
<1>1. /\ Len(s) \in Nat /\ Len(t) \in Nat /\ Len(s \o t) = Len(s) + Len(t)
      /\ \A i \in 1 .. Len(s) : (s \o t)[i] = s[i]
      /\ \A i \in 1 .. Len(t) : (s \o t)[i + Len(s)] = t[i]
  OBVIOUS
<1>2. Once(s)
  BY <1>1 DEF Once
<1>3. ASSUME NEW i \in 1 .. Len(t), NEW j \in 1 .. Len(t), t[i] = t[j]
      PROVE  i = j
  <2>1. i + Len(s) \in 1 .. Len(s \o t) /\ j + Len(s) \in 1 .. Len(s \o t)
    BY <1>1
  <2>2. (s \o t)[i + Len(s)] = (s \o t)[j + Len(s)]
    BY <1>1, <1>3
  <2>3. i + Len(s) = j + Len(s)
    BY <2>1, <2>2 DEF Once
  <2> QED BY <1>1, <2>3
<1> QED BY <1>2, <1>3 DEF Once

\* The gas that the code adds up, modulo 2^64, is the gas.
LEMMA GasExact ==
  ASSUME NoGasWrap
  PROVE  \A s \in Seq(Tx) : Once(s) => TotalGas(s) = TrueGas(s)
<1> DEFINE S == {s \in Seq(Tx) : Once(s) => TotalGas(s) = TrueGas(s)}
<1>1. <<>> \in S
  BY TotalGasStep, TrueGasAppend
<1>2. ASSUME NEW s \in Seq(Tx), NEW t \in Tx, s \in S
      PROVE  Append(s, t) \in S
  <2> DEFINE q == Append(s, t)
  <2>1. q \in Seq(Tx)
    OBVIOUS
  <2>2. ASSUME Once(q)
        PROVE  TotalGas(q) = TrueGas(q)
    <3>1. q = s \o <<t>> /\ <<t>> \in Seq(Tx)
      OBVIOUS
    <3>2. Once(s)
      <4> HIDE DEF q
      <4> QED BY <2>2, <3>1, OnceParts
    <3>3. TotalGas(s) = TrueGas(s)
      BY <1>2, <3>2
    <3>4. TotalGas(q) = Wrap(TrueGas(q))
      BY <3>3, TotalGasStep, TrueGasAppend
    <3> HIDE DEF q
    <3>5. TrueGas(q) \in Nat /\ TrueGas(q) < GasModulus
      BY <2>1, <2>2, TrueGasConcat DEF NoGasWrap
    <3> QED BY <3>4, <3>5, WrapExact
  <2> HIDE DEF q
  <2>3. q \in S
    BY <2>1, <2>2
  <2> QED BY <2>3 DEF q
<1> HIDE DEF S
<1>3. \A s \in Seq(Tx) : s \in S
  BY <1>1, <1>2, SeqInduction
<1> QED BY <1>3 DEF S

-----------------------------------------------------------------------------
(* Sections: the lanes contribute in the order of the chain, each at most once *)

CountIn(p, l) == IF l \in DOMAIN p.txsByLane THEN p.txsByLane[l] ELSE 0

CountBefore(p, i) == SumFunction([j \in 1 .. i - 1 |-> CountIn(p, Lanes[j])])

SectionIn(p, i) ==
  SubSeq(p.txs, CountBefore(p, i) + 1, CountBefore(p, i) + CountIn(p, Lanes[i]))

\* Lanes from position k on have not contributed, and the transactions are those of
\* the lanes before it.
InChain(p, k) ==
  /\ \A i \in 1 .. Len(Lanes) : i >= k => Lanes[i] \notin DOMAIN p.txsByLane
  /\ \A i \in 1 .. k : CountBefore(p, i) <= Len(p.txs)
  /\ CountBefore(p, k) = Len(p.txs)

\* What the lanes before a position contributed, one lane at a time.
LEMMA BeforeStep ==
  ASSUME NEW D, NEW p \in Proposal(D)
  PROVE  /\ CountBefore(p, 1) = 0
         /\ \A i \in 1 .. Len(Lanes) :
              /\ CountBefore(p, i) \in Nat /\ CountIn(p, Lanes[i]) \in Nat
              /\ CountBefore(p, i + 1) = CountBefore(p, i) + CountIn(p, Lanes[i])
<1>1. \A l : CountIn(p, l) \in Nat
  BY DEF Proposal, CountIn
<1>2. CountBefore(p, 1) = 0
  <2> DEFINE f == [j \in 1 .. 1 - 1 |-> CountIn(p, Lanes[j])]
  <2>1. DOMAIN f = {}
    OBVIOUS
  <2> HIDE DEF f
  <2>2. SumFunction(f) = 0
    BY <2>1, SumEmpty
  <2> QED BY <2>2 DEF f, CountBefore
<1>3. ASSUME NEW i \in 1 .. Len(Lanes)
      PROVE  /\ CountBefore(p, i) \in Nat
             /\ CountBefore(p, i + 1) = CountBefore(p, i) + CountIn(p, Lanes[i])
  <2> DEFINE n == i - 1
             f == [j \in 1 .. n |-> CountIn(p, Lanes[j])]
             h == [j \in 1 .. n + 1 |-> CountIn(p, Lanes[j])]
  <2>1. n \in Nat /\ n + 1 = i /\ (i + 1) - 1 = n + 1
    BY ChainTypes
  <2>2. CountBefore(p, i) = SumFunction(f) /\ CountBefore(p, i + 1) = SumFunction(h)
    BY <2>1 DEF CountBefore
  <2> HIDE DEF n
  <2>3. /\ f \in [1 .. n -> Nat] /\ h \in [1 .. n + 1 -> Nat]
        /\ \A j \in 1 .. n : f[j] = h[j]
    BY <1>1, <2>1
  <2>4. h[n + 1] = CountIn(p, Lanes[i])
    BY <2>1
  <2> HIDE DEF f, h
  <2>5. SumFunction(f) \in Nat /\ SumFunction(h) = SumFunction(f) + h[n + 1]
    BY <2>1, <2>3, SumNext
  <2> QED BY <2>2, <2>4, <2>5
<1> QED BY <1>1, <1>2, <1>3

\* A new proposal is at the start of the chain.
LEMMA InChainNew ==
  ASSUME NEW maxSize \in Int, NEW maxGas \in Int, NEW p, p = NewProposal(maxSize, maxGas)
  PROVE  InChain(p, 1)
<1>1. p \in Proposal({}) /\ p.txs = <<>> /\ DOMAIN p.txsByLane = {}
  BY NewProposalType DEF NewProposal
<1>2. CountBefore(p, 1) = 0
  BY <1>1, BeforeStep
<1> QED BY <1>1, <1>2 DEF InChain

\* A lane that contributes nothing.
LEMMA InChainPass ==
  ASSUME NEW D, NEW p \in Proposal(D), NEW k \in 1 .. Len(Lanes), InChain(p, k)
  PROVE  InChain(p, k + 1)
<1>1. CountBefore(p, k + 1) = CountBefore(p, k) + CountIn(p, Lanes[k])
  BY BeforeStep
<1>2. CountIn(p, Lanes[k]) = 0 /\ k \in Nat
  BY ChainTypes DEF InChain, CountIn
<1>3. Len(p.txs) \in Nat /\ CountBefore(p, k) = Len(p.txs)
  BY DEF Proposal, InChain
<1>4. CountBefore(p, k + 1) = Len(p.txs)
  BY <1>1, <1>2, <1>3
<1>5. \A i \in 1 .. k + 1 : i \in 1 .. k \/ i = k + 1
  BY <1>2
<1>6. \A i \in 1 .. Len(Lanes) : i >= k + 1 => i >= k
  BY <1>2, ChainTypes
<1> QED BY <1>3, <1>4, <1>5, <1>6 DEF InChain

\* Proposals with the same counts for the lanes before a position.
LEMMA SameBefore ==
  ASSUME NEW p, NEW q, NEW i, \A j \in 1 .. i - 1 : CountIn(p, Lanes[j]) = CountIn(q, Lanes[j])
  PROVE  CountBefore(p, i) = CountBefore(q, i)
<1>1. [j \in 1 .. i - 1 |-> CountIn(p, Lanes[j])] = [j \in 1 .. i - 1 |-> CountIn(q, Lanes[j])]
  OBVIOUS
<1> QED BY <1>1 DEF CountBefore

\* A section of a list is a section of the list with more behind it, and what is
\* behind is a section.
LEMMA SectionKept ==
  ASSUME NEW s \in Seq(Tx), NEW t \in Seq(Tx), NEW b \in Nat, NEW c \in Nat, b + c <= Len(s)
  PROVE  SubSeq(s \o t, b + 1, b + c) = SubSeq(s, b + 1, b + c)
OBVIOUS

\* What is appended to a list is the section behind it.
LEMMA SectionAdded ==
  ASSUME NEW s \in Seq(Tx), NEW t \in Seq(Tx)
  PROVE  SubSeq(s \o t, Len(s) + 1, Len(s) + Len(t)) = t
OBVIOUS

\* From p to q, the lane at position k has become the last with a section.
SectionAt(p, q, k, txs) ==
  \A i \in 1 .. Len(Lanes) :
    /\ i < k => SectionIn(q, i) = SectionIn(p, i)
    /\ i = k => SectionIn(q, i) = txs
    /\ i > k => SectionIn(q, i) = <<>>

\* The lane at position k contributes: its transactions are its section, and the
\* sections of the other lanes are what they were.
LEMMA InChainTakes ==
  ASSUME NEW D, NEW p \in Proposal(D), NEW k \in 1 .. Len(Lanes), InChain(p, k),
         NEW txs \in Seq(Tx), txs # <<>>, NEW q, ExtendedBy(D, p, Lanes[k], txs, q)
  PROVE  InChain(q, k + 1) /\ SectionAt(p, q, k, txs)
<1>1. /\ k \in Nat /\ Len(Lanes) \in Nat /\ k <= Len(Lanes)
      /\ \A i, j \in 1 .. Len(Lanes) : Lanes[i] = Lanes[j] => i = j
  BY ChainTypes, HandlerAssumptions, LaneAssumptions
<1>2. /\ p.txs \in Seq(Tx) /\ q.txs = p.txs \o txs /\ DOMAIN p.txsByLane = D
      /\ q.txsByLane = [l \in D \cup {Lanes[k]} |->
                          IF l = Lanes[k] THEN Len(txs) ELSE p.txsByLane[l]]
      /\ q \in Proposal(D \cup {Lanes[k]})
  BY DEF Proposal, ExtendedBy
<1>3. /\ Len(p.txs) \in Nat /\ Len(txs) \in Nat /\ Len(q.txs) = Len(p.txs) + Len(txs)
      /\ q.txs \in Seq(Tx)
  BY <1>2
<1>4. \A i \in 1 .. Len(Lanes) : i # k => CountIn(q, Lanes[i]) = CountIn(p, Lanes[i])
  BY <1>1, <1>2 DEF CountIn
<1>5. CountIn(q, Lanes[k]) = Len(txs)
  BY <1>2 DEF CountIn
<1>6. \A i \in 1 .. k : CountBefore(q, i) = CountBefore(p, i)
  <2> SUFFICES ASSUME NEW i \in 1 .. k PROVE CountBefore(p, i) = CountBefore(q, i)
    OBVIOUS
  <2>1. \A j \in 1 .. i - 1 : j \in 1 .. Len(Lanes) /\ j # k
    BY <1>1
  <2> QED BY <1>4, <2>1, SameBefore
<1>7. CountBefore(p, k) = Len(p.txs) /\ \A i \in 1 .. k : CountBefore(p, i) <= Len(p.txs)
  BY DEF InChain
<1>8. \A i \in 1 .. Len(Lanes) :
        /\ CountBefore(p, i) \in Nat /\ CountIn(p, Lanes[i]) \in Nat
        /\ CountBefore(p, i + 1) = CountBefore(p, i) + CountIn(p, Lanes[i])
  BY BeforeStep
<1>9. \A i \in 1 .. Len(Lanes) :
        /\ CountBefore(q, i) \in Nat
        /\ CountBefore(q, i + 1) = CountBefore(q, i) + CountIn(q, Lanes[i])
  BY <1>2, BeforeStep
<1>10. InChain(q, k + 1)
  <2>1. CountBefore(q, k + 1) = Len(q.txs)
    <3>1. k \in 1 .. k /\ k \in 1 .. Len(Lanes)
      BY <1>1
    <3>2. CountBefore(q, k + 1) = CountBefore(q, k) + CountIn(q, Lanes[k])
      BY <1>9, <3>1
    <3> QED BY <1>3, <1>5, <1>6, <1>7, <3>1, <3>2
  <2>2. ASSUME NEW i \in 1 .. k + 1
        PROVE  CountBefore(q, i) <= Len(q.txs)
    <3>1. i \in 1 .. k \/ i = k + 1
      BY <1>1
    <3>2. CASE i \in 1 .. k
      <4>1. CountBefore(q, i) \in Nat /\ CountBefore(q, i) <= Len(p.txs)
        BY <1>1, <1>6, <1>7, <1>9, <3>2
      <4> QED BY <1>3, <4>1
    <3> QED BY <1>3, <2>1, <3>1, <3>2
  <2>3. ASSUME NEW i \in 1 .. Len(Lanes), i >= k + 1
        PROVE  Lanes[i] \notin DOMAIN q.txsByLane
    <3>1. i >= k /\ i # k
      BY <1>1, <2>3
    <3>2. Lanes[i] \notin D /\ Lanes[i] # Lanes[k]
      BY <1>1, <1>2, <3>1 DEF InChain
    <3> QED BY <1>2, <3>2
  <2> QED BY <2>1, <2>2, <2>3 DEF InChain
<1>11. ASSUME NEW i \in 1 .. Len(Lanes)
       PROVE  /\ i < k => SectionIn(q, i) = SectionIn(p, i)
              /\ i = k => SectionIn(q, i) = txs
              /\ i > k => SectionIn(q, i) = <<>>
  <2> DEFINE b == CountBefore(p, i)
             c == CountIn(p, Lanes[i])
  <2>1. CASE i < k
    <3>1. i \in 1 .. k /\ i + 1 \in 1 .. k /\ i # k
      BY <1>1, <2>1
    <3>2. b \in Nat /\ c \in Nat /\ b + c <= Len(p.txs)
      BY <1>7, <1>8, <3>1
    <3>3. SectionIn(q, i) = SubSeq(p.txs \o txs, b + 1, b + c)
      BY <1>2, <1>4, <1>6, <3>1 DEF SectionIn
    <3>4. SectionIn(p, i) = SubSeq(p.txs, b + 1, b + c)
      BY DEF SectionIn
    <3> HIDE DEF b, c
    <3>5. SubSeq(p.txs \o txs, b + 1, b + c) = SubSeq(p.txs, b + 1, b + c)
      BY ONLY <1>2, <3>2, SectionKept
    <3>6. SectionIn(q, i) = SectionIn(p, i)
      BY <3>3, <3>4, <3>5
    <3> QED BY <1>1, <2>1, <3>6
  <2>2. CASE i = k
    <3>1. SectionIn(q, i) = SubSeq(p.txs \o txs, Len(p.txs) + 1, Len(p.txs) + Len(txs))
      <4>1. CountBefore(q, k) = Len(p.txs)
        BY <1>1, <1>6, <1>7
      <4> QED BY <1>2, <1>5, <2>2, <4>1 DEF SectionIn
    <3>2. SubSeq(p.txs \o txs, Len(p.txs) + 1, Len(p.txs) + Len(txs)) = txs
      BY <1>2, SectionAdded
    <3>3. SectionIn(q, i) = txs
      BY <3>1, <3>2
    <3> QED BY <1>1, <2>2, <3>3
  <2>3. CASE i > k
    <3>1. CountIn(q, Lanes[i]) = 0
      <4>1. Lanes[i] \notin DOMAIN q.txsByLane
        BY <1>1, <1>10, <2>3 DEF InChain
      <4> QED BY <4>1 DEF CountIn
    <3>2. SectionIn(q, i) = SubSeq(q.txs, CountBefore(q, i) + 1, CountBefore(q, i) + 0)
      BY <3>1 DEF SectionIn
    <3>3. \A n \in Nat : SubSeq(q.txs, n + 1, n + 0) = <<>>
      BY <1>3
    <3> QED BY <1>9, <2>3, <3>2, <3>3
  <2> QED BY <1>1, <2>1, <2>2, <2>3
<1> QED BY <1>10, <1>11 DEF SectionAt

-----------------------------------------------------------------------------
(* The invariants of the chain *)

\* The proposal is within the block, as far as the counters tell, and its sections
\* are those of the lanes called so far.
ChainInv ==
  /\ ProposalInv
  /\ proposal.maxGas \in Nat /\ proposal.gas <= proposal.maxGas
  /\ InChain(proposal, at)

\* A new proposal has used no gas.
LEMMA NewChain ==
  ASSUME NEW maxSize \in Int, NEW maxGas \in Nat, NEW p, p = NewProposal(maxSize, maxGas)
  PROVE  /\ InChain(p, 1) /\ p.maxGas \in Nat /\ p.gas <= p.maxGas
         /\ p.gas = 0 /\ p.size = 0 /\ p.txs = <<>> /\ p.maxSize = maxSize /\ p.maxGas = maxGas
<1>1. /\ p.gas = 0 /\ p.size = 0 /\ p.txs = <<>> /\ p.maxSize = maxSize /\ p.maxGas = maxGas
  BY DEF NewProposal
<1>2. InChain(p, 1)
  BY InChainNew
<1> QED BY <1>1, <1>2

\* ChainInv holds initially.
LEMMA InitChainInv == Init => ChainInv
<1> SUFFICES ASSUME Init
             PROVE  ChainInv
  OBVIOUS
<1>1. ProposalInv
  BY InitProposalInv
<1>2. proposal = NewProposal(ReqMaxTxBytes, BlockGasLimit(ConsMaxGas)) /\ at = 1
  BY DEF Init
<1> QED BY <1>1, <1>2, StartLimits, NewChain DEF ChainInv

\* A lane's turn with a contribution, in terms of the proposal.
LEMMA TakesChain ==
  ASSUME ChainInv, NEW txs, Takes(txs)
  PROVE  \E D \in SUBSET ToSet(Lanes) :
           /\ proposal \in Proposal(D) /\ at \in 1 .. Len(Lanes) /\ at' = at + 1
           /\ txs \in Seq(Tx) /\ Lanes[at] \in DOMAIN MaxBlockSpace
           /\ ExtendedBy(D, proposal, Lanes[at], txs, proposal')
           /\ txs # <<>> => Fits(proposal, Lanes[at], txs)
<1>1. PICK D \in SUBSET ToSet(Lanes) : proposal \in Proposal(D)
  BY DEF ChainInv, ProposalInv, Types, TypeOK
<1>2. at \in 1 .. Len(Lanes) /\ at' = at + 1
  BY ChainTypes DEF ChainInv, ProposalInv, Types, TypeOK, Takes
<1>3. /\ txs \in Seq(Tx) /\ ExtendedBy(D, proposal, Lanes[at], txs, proposal')
      /\ txs # <<>> => Fits(proposal, Lanes[at], txs)
  BY <1>1, TakesShape
<1> QED BY <1>1, <1>2, <1>3, ChainTypes

\* A lane's turn without one.
LEMMA PassChain ==
  ASSUME ChainInv, proposal' = proposal, at <= Len(Lanes), at' = at + 1
  PROVE  InChain(proposal', at')
<1>1. PICK D \in SUBSET ToSet(Lanes) : proposal \in Proposal(D)
  BY DEF ChainInv, ProposalInv, Types, TypeOK
<1>2. at \in 1 .. Len(Lanes)
  BY ChainTypes DEF ChainInv, ProposalInv, Types, TypeOK
<1>3. InChain(proposal, at + 1)
  BY <1>1, <1>2, InChainPass DEF ChainInv
<1> QED BY <1>3

\* Every step keeps ChainInv.
LEMMA NextChainInv == ChainInv /\ [Next]_vars => ChainInv'
<1> SUFFICES ASSUME ChainInv, [Next]_vars
             PROVE  ChainInv'
  OBVIOUS
<1>1. ProposalInv' /\ ProposalInv /\ Types
  BY NextProposalInv DEF ChainInv, ProposalInv
<1>2. CASE UNCHANGED <<proposal, at>>
  BY <1>1, <1>2 DEF ChainInv
<1>3. CASE proposal' = proposal /\ at <= Len(Lanes) /\ at' = at + 1
  BY <1>1, <1>3, PassChain DEF ChainInv
<1>4. CASE Restarts
  BY <1>1, <1>4, NewChain DEF Restarts, ChainInv
<1>5. ASSUME NEW txs, Takes(txs)
      PROVE  ChainInv'
  <2>1. PICK D \in SUBSET ToSet(Lanes) :
           /\ proposal \in Proposal(D) /\ at \in 1 .. Len(Lanes) /\ at' = at + 1
           /\ txs \in Seq(Tx) /\ Lanes[at] \in DOMAIN MaxBlockSpace
           /\ ExtendedBy(D, proposal, Lanes[at], txs, proposal')
           /\ txs # <<>> => Fits(proposal, Lanes[at], txs)
    BY <1>5, TakesChain
  <2>2. CASE txs = <<>>
    <3>1. proposal' = proposal
      BY <2>1, <2>2 DEF ExtendedBy
    <3> QED BY <1>5, <3>1, <1>3 DEF Takes
  <2>3. CASE txs # <<>>
    <3>1. InChain(proposal', at')
      <4>1. InChain(proposal, at)
        BY DEF ChainInv
      <4>2. InChain(proposal', at + 1)
        BY <2>1, <2>3, <4>1, InChainTakes
      <4> QED BY <2>1, <4>2
    <3>2. /\ proposal'.maxGas = proposal.maxGas
          /\ proposal'.gas = Wrap(proposal.gas + TotalGas(txs))
      BY <2>1, <2>3 DEF ExtendedBy
    <3>3. Wrap(proposal.gas + TotalGas(txs)) <= proposal.maxGas
      BY <2>1, <2>3 DEF Fits
    <3> QED BY <1>1, <3>1, <3>2, <3>3 DEF ChainInv
  <2> QED BY <2>2, <2>3
<1> QED BY <1>1, <1>2, <1>3, <1>4, <1>5, ChainStep DEF vars

\* Every section is within its lane's share.
SectionsWithin(p) ==
  \A i \in 1 .. Len(Lanes) :
    MaxBlockSpace[Lanes[i]] # 0 /\ SectionIn(p, i) # <<>> =>
      /\ TotalSize(SectionIn(p, i)) <= Share(Lanes[i], p.maxSize)
      /\ TrueGas(SectionIn(p, i)) <= Share(Lanes[i], p.maxGas)

\* The inductive invariant behind WithinLimits: the gas counter has not wrapped, so
\* that what UpdateProposal checked with it is true of the transactions.
LimitsInv ==
  /\ ChainInv
  /\ proposal.gas = TrueGas(proposal.txs)
  /\ SectionsWithin(proposal)

\* A proposal without transactions has empty sections.
LEMMA EmptySections ==
  ASSUME NEW D, NEW p \in Proposal(D), p.txs = <<>>, InChain(p, 1), NEW i \in 1 .. Len(Lanes)
  PROVE  SectionIn(p, i) = <<>>
<1>1. CountIn(p, Lanes[i]) = 0
  BY ChainTypes DEF InChain, CountIn
<1>2. CountBefore(p, i) \in Nat
  BY BeforeStep
<1>3. SectionIn(p, i) = SubSeq(p.txs, CountBefore(p, i) + 1, CountBefore(p, i) + 0)
  BY <1>1 DEF SectionIn
<1>4. p.txs \in Seq(Tx) /\ \A n \in Nat : SubSeq(p.txs, n + 1, n + 0) = <<>>
  BY DEF Proposal
<1> QED BY <1>2, <1>3, <1>4

\* It holds initially.
LEMMA InitLimitsInv == Init => LimitsInv
<1> SUFFICES ASSUME Init
             PROVE  LimitsInv
  OBVIOUS
<1>1. proposal = NewProposal(ReqMaxTxBytes, BlockGasLimit(ConsMaxGas)) /\ at = 1
  BY DEF Init
<1>2. proposal.gas = 0 /\ proposal.txs = <<>>
  BY <1>1, StartLimits, NewChain
<1>3. ChainInv
  BY InitChainInv
<1>4. SectionsWithin(proposal)
  <2>1. PICK D \in SUBSET ToSet(Lanes) : proposal \in Proposal(D)
    BY <1>3 DEF ChainInv, ProposalInv, Types, TypeOK
  <2>2. InChain(proposal, 1)
    BY <1>1, <1>3 DEF ChainInv
  <2> QED BY <1>2, <2>1, <2>2, EmptySections DEF SectionsWithin
<1> QED BY <1>2, <1>3, <1>4, TrueGasAppend DEF LimitsInv

\* A lane's transactions keep the gas exact and the sections within.
LEMMA TakesLimits ==
  ASSUME NoGasWrap, LimitsInv, ProposalInv', NEW txs, Takes(txs), txs # <<>>
  PROVE  proposal'.gas = TrueGas(proposal'.txs) /\ SectionsWithin(proposal')
<1>0. ChainInv
  BY DEF LimitsInv
<1>1. PICK D \in SUBSET ToSet(Lanes) :
         /\ proposal \in Proposal(D) /\ at \in 1 .. Len(Lanes) /\ at' = at + 1
         /\ txs \in Seq(Tx) /\ Lanes[at] \in DOMAIN MaxBlockSpace
         /\ ExtendedBy(D, proposal, Lanes[at], txs, proposal')
         /\ txs # <<>> => Fits(proposal, Lanes[at], txs)
  BY <1>0, TakesChain
<1>2. /\ proposal.txs \in Seq(Tx) /\ proposal'.txs = proposal.txs \o txs
      /\ proposal'.gas = Wrap(proposal.gas + TotalGas(txs))
      /\ proposal'.maxSize = proposal.maxSize /\ proposal'.maxGas = proposal.maxGas
      /\ Fits(proposal, Lanes[at], txs)
  BY <1>1 DEF Proposal, ExtendedBy
<1>3. Once(proposal.txs \o txs) /\ proposal.txs \o txs \in Seq(Tx)
  <2>1. VerifyAll(StartCtx, proposal'.txs).ok /\ proposal'.txs \in Seq(Tx)
    BY <1>1, <1>2 DEF ProposalInv, ProposalExecutes
  <2>2. \A s \in Seq(Tx) : VerifyAll(StartCtx, s).ok => Once(s)
    BY ChainTypes, VerifiedOnce DEF Once
  <2>3. Once(proposal'.txs)
    BY <2>1, <2>2
  <2> HIDE DEF Once
  <2> QED BY <1>2, <2>1, <2>3
<1>4. TotalGas(txs) = TrueGas(txs)
  BY <1>1, <1>2, <1>3, OnceParts, GasExact
<1>5. proposal'.gas = TrueGas(proposal'.txs)
  <2>1. proposal.gas + TotalGas(txs) = TrueGas(proposal.txs \o txs)
    BY <1>1, <1>2, <1>4, TrueGasConcat DEF LimitsInv
  <2>2. TrueGas(proposal.txs \o txs) \in Nat /\ TrueGas(proposal.txs \o txs) < GasModulus
    BY <1>3, TrueGasConcat DEF NoGasWrap
  <2> QED BY <1>2, <2>1, <2>2, WrapExact
<1>6. MaxBlockSpace[Lanes[at]] # 0 =>
        /\ TotalSize(txs) <= Share(Lanes[at], proposal.maxSize)
        /\ TrueGas(txs) <= Share(Lanes[at], proposal.maxGas)
  BY <1>2, <1>4 DEF Fits, GetLaneLimits
<1>7. SectionAt(proposal, proposal', at, txs)
  <2>1. InChain(proposal, at)
    BY <1>0 DEF ChainInv
  <2> QED BY <1>1, <2>1, InChainTakes
<1>8. ASSUME NEW i \in 1 .. Len(Lanes),
             MaxBlockSpace[Lanes[i]] # 0, SectionIn(proposal', i) # <<>>
      PROVE  /\ TotalSize(SectionIn(proposal', i)) <= Share(Lanes[i], proposal'.maxSize)
             /\ TrueGas(SectionIn(proposal', i)) <= Share(Lanes[i], proposal'.maxGas)
  <2>1. i \in Int /\ at \in Int /\ (i < at \/ i = at \/ i > at)
    BY <1>1, ChainTypes
  <2>2. CASE i < at
    <3>1. SectionIn(proposal', i) = SectionIn(proposal, i)
      BY <1>7, <2>2 DEF SectionAt
    <3> QED BY <1>2, <1>8, <3>1 DEF LimitsInv, SectionsWithin
  <2>3. CASE i = at
    <3>1. SectionIn(proposal', i) = txs
      BY <1>7, <2>3 DEF SectionAt
    <3> QED BY <1>2, <1>6, <1>8, <2>3, <3>1
  <2>4. CASE i > at
    BY <1>7, <1>8, <2>4 DEF SectionAt
  <2> QED BY <2>1, <2>2, <2>3, <2>4
<1> QED BY <1>5, <1>8 DEF SectionsWithin

\* Every step keeps the invariant.
LEMMA NextLimitsInv ==
  ASSUME NoGasWrap
  PROVE  LimitsInv /\ [Next]_vars => LimitsInv'
<1> SUFFICES ASSUME LimitsInv, [Next]_vars
             PROVE  LimitsInv'
  OBVIOUS
<1>1. ChainInv' /\ ProposalInv' /\ ChainInv /\ Types
  BY NextChainInv DEF LimitsInv, ChainInv, ProposalInv
<1>2. CASE proposal' = proposal
  BY <1>1, <1>2 DEF LimitsInv
<1>3. CASE Restarts
  <2>1. proposal'.gas = 0 /\ proposal'.txs = <<>>
    BY <1>3, NewChain DEF Restarts
  <2>2. PICK D \in SUBSET ToSet(Lanes) : proposal' \in Proposal(D)
    BY <1>1 DEF ProposalInv, Types, TypeOK
  <2>3. SectionsWithin(proposal')
    <3>1. InChain(proposal', 1)
      BY <1>1, <1>3 DEF ChainInv, Restarts
    <3> QED BY <2>1, <2>2, <3>1, EmptySections DEF SectionsWithin
  <2> QED BY <1>1, <2>1, <2>3, TrueGasAppend DEF LimitsInv
<1>4. ASSUME NEW txs, Takes(txs)
      PROVE  LimitsInv'
  <2>1. CASE txs = <<>>
    <3>1. \E D : ExtendedBy(D, proposal, Lanes[at], txs, proposal')
      BY <1>1, <1>4, TakesChain
    <3> QED BY <1>2, <2>1, <3>1 DEF ExtendedBy
  <2>2. CASE txs # <<>>
    BY <1>1, <1>4, <2>2, TakesLimits DEF LimitsInv
  <2> QED BY <2>1, <2>2
<1> QED BY <1>1, <1>2, <1>3, <1>4, ChainStep DEF vars

\* The proposal is within the block's bytes and gas and every lane within its share
\* of them (update.go, invariants 1 to 4), for every chain of lanes, as long as the
\* gas of the transactions does not wrap.
THEOREM WithinLimitsThm ==
  ASSUME NoGasWrap
  PROVE  Spec => []WithinLimits
<1>1. Init => LimitsInv
  BY InitLimitsInv
<1>2. LimitsInv /\ [Next]_vars => LimitsInv'
  BY NextLimitsInv
<1>3. LimitsInv => WithinLimits
  <2> SUFFICES ASSUME LimitsInv
               PROVE  WithinLimits
    OBVIOUS
  <2>1. \A i : Section(i) = SectionIn(proposal, i)
    BY DEF Section, SectionIn, CountOf, CountIn, CountBefore
  <2>2. DOMAIN Lanes = 1 .. Len(Lanes)
    BY LaneAssumptions
  <2>3. WithinBlockSize /\ TrueGas(proposal.txs) <= proposal.maxGas
    BY DEF LimitsInv, ChainInv, ProposalInv
  <2> QED BY <2>1, <2>2, <2>3 DEF LimitsInv, SectionsWithin, WithinLimits
<1> QED BY <1>1, <1>2, <1>3, PTL DEF Spec

-----------------------------------------------------------------------------
(* No lane is lost *)

\* The percentages of the lanes before a position.
SpaceBefore(k) == SumFunction([j \in 1 .. k - 1 |-> MaxBlockSpace[Lanes[j]]])

\* ValidateBasic: the percentages add up to at most the block.
SharesWithinBlock == SpaceBefore(Len(Lanes) + 1) <= 100

\* The lane without a limit, if any, is the last.
UnlimitedLast == \A i \in 1 .. Len(Lanes) - 1 : MaxBlockSpace[Lanes[i]] # 0

\* Products of natural numbers.
LEMMA Products ==
  ASSUME NEW a \in Nat, NEW b \in Nat, NEW m \in Nat
  PROVE  /\ a * m \in Nat
         /\ (a + b) * m = a * m + b * m
         /\ a <= b => a * m <= b * m
OBVIOUS

\* The percentages, one lane at a time.
LEMMA SpaceStep ==
  /\ SpaceBefore(1) = 0
  /\ \A i \in 1 .. Len(Lanes) :
       /\ SpaceBefore(i) \in Nat /\ MaxBlockSpace[Lanes[i]] \in Nat
       /\ SpaceBefore(i + 1) = SpaceBefore(i) + MaxBlockSpace[Lanes[i]]
<1>1. \A i \in 1 .. Len(Lanes) : MaxBlockSpace[Lanes[i]] \in Nat
  <2>1. \A l \in DOMAIN MaxBlockSpace : MaxBlockSpace[l] \in Nat
    BY ProposalsAssumptions
  <2> QED BY <2>1, ChainTypes
<1>2. SpaceBefore(1) = 0
  <2> DEFINE f == [j \in 1 .. 1 - 1 |-> MaxBlockSpace[Lanes[j]]]
  <2>1. DOMAIN f = {}
    OBVIOUS
  <2> HIDE DEF f
  <2>2. SumFunction(f) = 0
    BY <2>1, SumEmpty
  <2> QED BY <2>2 DEF f, SpaceBefore
<1>3. ASSUME NEW i \in 1 .. Len(Lanes)
      PROVE  /\ SpaceBefore(i) \in Nat
             /\ SpaceBefore(i + 1) = SpaceBefore(i) + MaxBlockSpace[Lanes[i]]
  <2> DEFINE n == i - 1
             f == [j \in 1 .. n |-> MaxBlockSpace[Lanes[j]]]
             h == [j \in 1 .. n + 1 |-> MaxBlockSpace[Lanes[j]]]
  <2>1. n \in Nat /\ n + 1 = i /\ (i + 1) - 1 = n + 1 /\ Len(Lanes) \in Nat /\ i <= Len(Lanes)
    BY ChainTypes
  <2>2. SpaceBefore(i) = SumFunction(f) /\ SpaceBefore(i + 1) = SumFunction(h)
    BY <2>1 DEF SpaceBefore
  <2> HIDE DEF n
  <2>3. /\ f \in [1 .. n -> Nat] /\ h \in [1 .. n + 1 -> Nat]
        /\ \A j \in 1 .. n : f[j] = h[j]
    <3>1. 1 .. n \subseteq 1 .. Len(Lanes) /\ 1 .. n + 1 \subseteq 1 .. Len(Lanes)
      BY <2>1
    <3>2. 1 .. n \subseteq 1 .. n + 1
      BY <2>1
    <3> QED BY <1>1, <3>1, <3>2
  <2>4. h[n + 1] = MaxBlockSpace[Lanes[i]]
    BY <2>1
  <2> HIDE DEF f, h
  <2>5. SumFunction(f) \in Nat /\ SumFunction(h) = SumFunction(f) + h[n + 1]
    BY <2>1, <2>3, SumNext
  <2> QED BY <2>2, <2>4, <2>5
<1> QED BY <1>1, <1>2, <1>3

\* With the whole within the block, so is every part.
LEMMA SpaceBound ==
  ASSUME SharesWithinBlock
  PROVE  \A i \in 1 .. Len(Lanes) : SpaceBefore(i + 1) <= 100
<1> DEFINE S == {n \in Nat : n < Len(Lanes) => SpaceBefore(Len(Lanes) - n + 1) <= 100}
<1>0. Len(Lanes) \in Nat
  BY ChainTypes
<1>1. 0 \in S
  BY <1>0 DEF SharesWithinBlock
<1>2. ASSUME NEW n \in Nat, n \in S
      PROVE  n + 1 \in S
  <2>1. ASSUME n + 1 < Len(Lanes)
        PROVE  SpaceBefore(Len(Lanes) - (n + 1) + 1) <= 100
    <3> DEFINE i == Len(Lanes) - n
    <3>1. i \in 1 .. Len(Lanes) /\ Len(Lanes) - (n + 1) + 1 = i /\ n < Len(Lanes)
      BY <1>0, <2>1
    <3>2. SpaceBefore(i + 1) <= 100
      BY <1>2, <3>1
    <3> HIDE DEF i
    <3>3. /\ SpaceBefore(i) \in Nat /\ MaxBlockSpace[Lanes[i]] \in Nat
          /\ SpaceBefore(i + 1) = SpaceBefore(i) + MaxBlockSpace[Lanes[i]]
      BY <3>1, SpaceStep
    <3>4. SpaceBefore(i) <= 100
      BY <3>2, <3>3
    <3> QED BY <3>1, <3>4
  <2> QED BY <2>1
<1> HIDE DEF S
<1>3. \A n \in Nat : n \in S
  BY <1>1, <1>2, SetInduction
<1>4. ASSUME NEW i \in 1 .. Len(Lanes)
      PROVE  SpaceBefore(i + 1) <= 100
  <2>1. Len(Lanes) - i \in Nat /\ Len(Lanes) - i < Len(Lanes)
        /\ Len(Lanes) - (Len(Lanes) - i) + 1 = i + 1
    BY <1>0
  <2>2. Len(Lanes) - i \in S
    BY <1>3, <2>1
  <2> QED BY <2>1, <2>2 DEF S
<1> QED BY <1>4

\* A share is at most its percentage.
LEMMA ShareBound ==
  ASSUME NEW l \in DOMAIN MaxBlockSpace, NEW n \in Nat
  PROVE  /\ Share(l, n) \in Nat
         /\ 100 * Share(l, n) <= MaxBlockSpace[l] * n
<1>1. MaxBlockSpace[l] \in Nat
  BY ProposalsAssumptions
<1> DEFINE m == MaxBlockSpace[l] * n
<1>2. m \in Nat
  BY <1>1, Products
<1>3. Share(l, n) = m \div 100
  BY DEF Share
<1> HIDE DEF m
<1>4. m \div 100 \in Nat /\ 100 * (m \div 100) <= m
  BY <1>2
<1> QED BY <1>3, <1>4 DEF m

\* What the lanes before a position have used is at most their shares.
Budget(p, k) ==
  /\ 100 * p.size <= SpaceBefore(k) * p.maxSize
  /\ 100 * p.gas <= SpaceBefore(k) * p.maxGas

\* Used and added within their shares is within the shares' sum, and the block.
LEMMA Adds ==
  ASSUME NEW m \in Nat, NEW w \in Nat, NEW c \in Nat, w + c <= 100,
         NEW x \in Nat, 100 * x <= w * m, NEW y \in Nat, 100 * y <= c * m
  PROVE  100 * (x + y) <= (w + c) * m /\ x + y <= m
<1>1. (w + c) * m = w * m + c * m /\ w * m \in Nat /\ c * m \in Nat
  BY Products
<1>2. (w + c) * m <= 100 * m
  BY Products
<1>3. 100 * (x + y) <= (w + c) * m
  BY <1>1
<1>4. 100 * (x + y) <= 100 * m
  BY <1>1, <1>2, <1>3
<1> QED BY <1>3, <1>4

\* A selection within the lane's limits fits the proposal, and leaves the lanes
\* called so far within their shares.
LEMMA BudgetFits ==
  ASSUME SharesWithinBlock, NEW D, NEW p \in Proposal(D), NEW k \in 1 .. Len(Lanes),
         InChain(p, k), p.maxSize \in Nat, p.maxGas \in Nat,
         p.size <= p.maxSize, p.gas <= p.maxGas, Budget(p, k),
         NEW txs \in Seq(Tx), RoomFor(p, GetLaneLimits(p, Lanes[k]), txs)
  PROVE  /\ Fits(p, Lanes[k], txs)
         /\ MaxBlockSpace[Lanes[k]] # 0 =>
              /\ 100 * (p.size + TotalSize(txs)) <= SpaceBefore(k + 1) * p.maxSize
              /\ 100 * Wrap(p.gas + TotalGas(txs)) <= SpaceBefore(k + 1) * p.maxGas
<1> DEFINE l == Lanes[k]
           x == p.size
           y == TotalSize(txs)
           g == p.gas
           h == TotalGas(txs)
           m == p.maxSize
           n == p.maxGas
           w == SpaceBefore(k)
           c == MaxBlockSpace[Lanes[k]]
<1>1. /\ w \in Nat /\ c \in Nat /\ SpaceBefore(k + 1) = w + c
      /\ w + c <= 100
  BY SpaceStep, SpaceBound
<1>2. x \in Nat /\ y \in Nat /\ g \in Nat /\ h \in Nat /\ m \in Nat /\ n \in Nat
  <2>1. TotalSize(txs) \in Nat
    BY TotalSizeConcat
  <2>2. TotalGas(txs) \in 0 .. GasModulus - 1
    BY TotalGasType
  <2> QED BY <2>1, <2>2 DEF Proposal
<1>3. l \in DOMAIN MaxBlockSpace /\ l \notin DOMAIN p.txsByLane
  BY ChainTypes DEF InChain
<1>4. ToSet(txs) \cap p.cache = {} /\ y <= GetLaneLimits(p, l).size /\ h <= GetLaneLimits(p, l).gas
  BY DEF RoomFor
<1>5. Wrap(g + h) \in Nat /\ Wrap(g + h) <= g + h
  <2>1. g + h \in Nat
    BY <1>2
  <2> HIDE DEF g, h
  <2> QED BY <2>1, WrapExact
<1>6. x <= m /\ g <= n /\ 100 * x <= w * m /\ 100 * g <= w * n
  BY DEF Budget
<1>7. CASE c # 0
  <2>1. y <= Share(l, m) /\ h <= Share(l, n)
    BY <1>4, <1>7 DEF GetLaneLimits
  <2>2. /\ Share(l, m) \in Nat /\ 100 * Share(l, m) <= c * m
        /\ Share(l, n) \in Nat /\ 100 * Share(l, n) <= c * n
        /\ c * m \in Nat /\ c * n \in Nat
    BY <1>1, <1>2, <1>3, ShareBound, Products
  <2> HIDE DEF l, x, y, g, h, m, n, w, c
  <2>3. 100 * y <= c * m /\ 100 * h <= c * n
    <3>1. \A i, j, d \in Nat : i <= j /\ 100 * j <= d => 100 * i <= d
      OBVIOUS
    <3> DEFINE u == Share(l, m)
               v == Share(l, n)
               e == c * m
               f == c * n
    <3>2. u \in Nat /\ v \in Nat /\ e \in Nat /\ f \in Nat /\ y \in Nat /\ h \in Nat
      BY <1>2, <2>2
    <3>3. y <= u /\ h <= v /\ 100 * u <= e /\ 100 * v <= f
      BY <2>1, <2>2
    <3> HIDE DEF u, v, e, f
    <3>4. 100 * y <= e /\ 100 * h <= f
      BY <3>1, <3>2, <3>3
    <3> QED BY <3>4 DEF e, f
  <2>4. 100 * (x + y) <= (w + c) * m /\ x + y <= m
    BY <1>1, <1>2, <1>6, <2>3, Adds
  <2>5. 100 * (g + h) <= (w + c) * n /\ g + h <= n
    BY <1>1, <1>2, <1>6, <2>3, Adds
  <2>6. (w + c) * n \in Nat
    <3>1. w + c \in Nat
      BY <1>1
    <3> QED BY <1>2, <3>1, Products
  <2>7. 100 * Wrap(g + h) <= (w + c) * n /\ Wrap(g + h) <= n
    <3>1. \A i, j, d, b \in Nat : i <= j /\ j <= b /\ 100 * j <= d => 100 * i <= d /\ i <= b
      OBVIOUS
    <3> DEFINE r == Wrap(g + h)
               q == g + h
               d == (w + c) * n
    <3>2. r \in Nat /\ q \in Nat /\ d \in Nat /\ n \in Nat
      BY <1>2, <1>5, <2>6
    <3>3. r <= q /\ q <= n /\ 100 * q <= d
      BY <1>5, <2>5
    <3> HIDE DEF r, q, d
    <3>4. 100 * r <= d /\ r <= n
      BY <3>1, <3>2, <3>3
    <3> QED BY <3>4 DEF r, d
  <2> QED BY <1>1, <1>3, <1>4, <2>4, <2>7 DEF Fits, l, x, y, g, h, m, n, w, c
<1>8. CASE c = 0
  <2>1. y <= Max({0, m - x}) /\ h <= Max({0, n - g})
    BY <1>4, <1>8 DEF GetLaneLimits
  <2> HIDE DEF l, x, y, g, h, m, n, w, c
  <2>2. Max({0, m - x}) = m - x /\ Max({0, n - g}) = n - g
    <3>1. \A i \in Nat : Max({0, i}) = i
      BY DEF Max
    <3>2. m - x \in Nat /\ n - g \in Nat
      BY <1>2, <1>6
    <3> QED BY <3>1, <3>2
  <2>3. x + y <= m /\ Wrap(g + h) <= n
    BY <1>2, <1>5, <2>1, <2>2
  <2> QED BY <1>3, <1>4, <1>8, <2>3 DEF Fits, l, x, y, g, h, m, n, w, c
<1> QED BY <1>7, <1>8

\* The inductive invariant: while the proposal is prepared, the lanes called so far
\* are within their shares, so that the share of the lane at hand is free.
BudgetInv ==
  /\ ChainInv
  /\ phase \in {"idle", "prepare"} =>
       /\ proposal.maxSize \in Nat
       /\ at <= Len(Lanes) => Budget(proposal, at)
  /\ lost = {}

\* It holds initially.
LEMMA InitBudgetInv ==
  ASSUME ReqMaxTxBytes \in Nat
  PROVE  Init => BudgetInv
<1> SUFFICES ASSUME Init
             PROVE  BudgetInv
  OBVIOUS
<1>1. proposal = NewProposal(ReqMaxTxBytes, BlockGasLimit(ConsMaxGas)) /\ at = 1 /\ lost = {}
  BY DEF Init
<1>2. /\ proposal.gas = 0 /\ proposal.size = 0
      /\ proposal.maxSize = ReqMaxTxBytes /\ proposal.maxGas = BlockGasLimit(ConsMaxGas)
  BY <1>1, StartLimits, NewChain
<1>3. Budget(proposal, 1)
  BY <1>2, StartLimits, SpaceStep DEF Budget
<1> QED BY <1>1, <1>2, <1>3, InitChainInv DEF BudgetInv

\* A lane that adds nothing leaves the lanes called so far within their shares.
LEMMA BudgetPass ==
  ASSUME NEW D, NEW p \in Proposal(D), NEW k \in 1 .. Len(Lanes), Budget(p, k),
         p.maxSize \in Nat, p.maxGas \in Nat
  PROVE  Budget(p, k + 1)
<1> DEFINE w == SpaceBefore(k)
           v == SpaceBefore(k + 1)
           m == p.maxSize
           n == p.maxGas
<1>1. w \in Nat /\ v \in Nat /\ w <= v /\ m \in Nat /\ n \in Nat
  <2>1. SpaceBefore(k) \in Nat /\ MaxBlockSpace[Lanes[k]] \in Nat
        /\ SpaceBefore(k + 1) = SpaceBefore(k) + MaxBlockSpace[Lanes[k]]
    BY SpaceStep
  <2> QED BY <2>1
<1>2. 100 * p.size <= w * m /\ 100 * p.gas <= w * n /\ p.size \in Nat /\ p.gas \in Nat
  BY DEF Budget, Proposal
<1> HIDE DEF w, v, m, n
<1>3. w * m <= v * m /\ w * n <= v * n /\ w * m \in Nat /\ v * m \in Nat /\ w * n \in Nat /\ v * n \in Nat
  BY <1>1, Products
<1>4. 100 * p.size <= v * m /\ 100 * p.gas <= v * n
  BY <1>2, <1>3
<1> QED BY <1>4 DEF Budget, v, m, n

\* The selection of the lane at hand fits, and with it the chain stays in budget.
LEMMA SelectedFits ==
  ASSUME SharesWithinBlock, BudgetInv, PreparingLane, NEW order \in Select(pools[Lanes[at]])
  PROVE  LET txs == Selected(order).include
         IN  /\ ~UpdateFails(proposal, Lanes[at], txs)
             /\ \A q : q = Updated(proposal, Lanes[at], txs) /\ MaxBlockSpace[Lanes[at]] # 0
                  => Budget(q, at + 1) /\ q.maxSize \in Nat
<1> DEFINE l == Lanes[at]
           txs == Selected(order).include
<1>1. Types /\ ChainInv /\ phase = "prepare" /\ at <= Len(Lanes)
  BY DEF BudgetInv, ChainInv, ProposalInv, PreparingLane
<1>2. PICK D \in SUBSET ToSet(Lanes) : proposal \in Proposal(D)
  BY <1>1 DEF Types, TypeOK
<1>3. at \in 1 .. Len(Lanes)
  BY <1>1, ChainTypes DEF Types, TypeOK
<1>4. txs \in Seq(Tx) /\ (txs # <<>> => RoomFor(proposal, GetLaneLimits(proposal, l), txs))
  BY <1>1, SelectedOk
<1>5. /\ proposal.maxSize \in Nat /\ proposal.maxGas \in Nat /\ proposal.gas <= proposal.maxGas
      /\ InChain(proposal, at) /\ Budget(proposal, at)
  BY <1>1 DEF BudgetInv, ChainInv
<1>6. proposal.size <= proposal.maxSize
  <2> DEFINE m == proposal.maxSize
  <2>1. TotalSize(proposal.txs) <= Max({0, m}) /\ proposal.size = TotalSize(proposal.txs)
    BY <1>1 DEF ChainInv, ProposalInv, WithinBlockSize, InfoMatchesTxs
  <2>2. m \in Nat
    BY <1>5
  <2> HIDE DEF m
  <2>3. Max({0, m}) = m
    BY <2>2 DEF Max
  <2> QED BY <2>1, <2>3 DEF m
<1> HIDE DEF txs
<1>7. txs # <<>> =>
        /\ Fits(proposal, l, txs)
        /\ MaxBlockSpace[l] # 0 =>
             /\ 100 * (proposal.size + TotalSize(txs)) <= SpaceBefore(at + 1) * proposal.maxSize
             /\ 100 * Wrap(proposal.gas + TotalGas(txs)) <= SpaceBefore(at + 1) * proposal.maxGas
  BY <1>2, <1>3, <1>4, <1>5, <1>6, BudgetFits
<1>8. ~UpdateFails(proposal, l, txs)
  BY <1>7 DEF UpdateFails
<1>9. ASSUME NEW q, q = Updated(proposal, l, txs), MaxBlockSpace[l] # 0
      PROVE  Budget(q, at + 1) /\ q.maxSize \in Nat
  <2>1. ExtendedBy(D, proposal, l, txs, q)
    BY <1>2, <1>4, <1>9, UpdatedType
  <2>2. q.maxSize = proposal.maxSize /\ q.maxGas = proposal.maxGas
    BY <2>1 DEF ExtendedBy
  <2>3. CASE txs # <<>>
    <3>1. q.size = proposal.size + TotalSize(txs) /\ q.gas = Wrap(proposal.gas + TotalGas(txs))
      BY <2>1, <2>3 DEF ExtendedBy
    <3> QED BY <1>5, <1>7, <1>9, <2>2, <2>3, <3>1 DEF Budget
  <2>4. CASE txs = <<>>
    <3>1. q = proposal
      BY <2>1, <2>4 DEF ExtendedBy
    <3> QED BY <1>2, <1>3, <1>5, <3>1, BudgetPass
  <2> QED BY <2>3, <2>4
<1> QED BY <1>8, <1>9 DEF txs

\* Every step keeps the invariant: no selection is refused.
LEMMA NextBudgetInv ==
  ASSUME SharesWithinBlock, UnlimitedLast
  PROVE  BudgetInv /\ [Next]_vars => BudgetInv'
<1> SUFFICES ASSUME BudgetInv, [Next]_vars
             PROVE  BudgetInv'
  OBVIOUS
<1>1. ChainInv' /\ ChainInv /\ Types /\ at \in Nat /\ at >= 1 /\ Len(Lanes) \in Nat
  BY NextChainInv, ChainTypes DEF BudgetInv, ChainInv, ProposalInv, Types, TypeOK
<1>2. PreparingLane /\ at + 1 <= Len(Lanes) => MaxBlockSpace[Lanes[at]] # 0
  <2>1. PreparingLane /\ at + 1 <= Len(Lanes) => at \in 1 .. Len(Lanes) - 1
    BY <1>1
  <2> QED BY <2>1 DEF UnlimitedLast
<1>3. CASE PrepareLane
  <2>1. PICK order \in Select(pools[Lanes[at]]) :
          proposal' = Updated(proposal, Lanes[at], Selected(order).include)
    BY <1>3 DEF PrepareLane
  <2>2. PreparingLane /\ at' = at + 1 /\ phase' = phase /\ lost' = lost
    BY <1>3 DEF PrepareLane
  <2>3. MaxBlockSpace[Lanes[at]] # 0 => Budget(proposal', at') /\ proposal'.maxSize \in Nat
    BY <2>1, <2>2, SelectedFits
  <2>4. proposal'.maxSize \in Nat
    <3>1. PICK D \in SUBSET ToSet(Lanes) : proposal \in Proposal(D)
      BY <1>1 DEF Types, TypeOK
    <3>2. Selected(order).include \in Seq(Tx)
      BY <1>1, <2>2, SelectedOk
    <3>3. ExtendedBy(D, proposal, Lanes[at], Selected(order).include, proposal')
      BY <2>1, <3>1, <3>2, UpdatedType
    <3>4. proposal'.maxSize = proposal.maxSize
      BY <3>3 DEF ExtendedBy
    <3> QED BY <2>2, <3>4 DEF BudgetInv, PreparingLane
  <2> QED BY <1>1, <1>2, <2>2, <2>3, <2>4 DEF BudgetInv
<1>4. CASE PrepareLaneFails
  <2>1. PICK order \in Select(pools[Lanes[at]]) :
          UpdateFails(proposal, Lanes[at], Selected(order).include)
    BY <1>4 DEF PrepareLaneFails
  <2>2. PreparingLane
    BY <1>4 DEF PrepareLaneFails
  <2> QED BY <2>1, <2>2, SelectedFits
<1>5. CASE PrepareLanePanics
  <2>1. PreparingLane /\ UNCHANGED <<proposal, lost, phase>> /\ at' = at + 1
    BY <1>5 DEF PrepareLanePanics, LaneAfterFailure, ProposalAfterFailure
  <2>2. at + 1 <= Len(Lanes) => Budget(proposal, at + 1)
    <3>1. PICK D \in SUBSET ToSet(Lanes) : proposal \in Proposal(D)
      BY <1>1 DEF Types, TypeOK
    <3>2. /\ proposal.maxSize \in Nat /\ proposal.maxGas \in Nat /\ Budget(proposal, at)
          /\ at \in 1 .. Len(Lanes)
      BY <1>1, <2>1 DEF BudgetInv, ChainInv, PreparingLane
    <3> QED BY <3>1, <3>2, BudgetPass
  <2> QED BY <1>1, <2>1, <2>2 DEF BudgetInv
<1>6. CASE StartPrepare
  BY <1>1, <1>6 DEF BudgetInv, StartPrepare
<1>7. CASE \/ PrepareInitialHeight \/ FinishPrepare \/ ReceiveProposal
           \/ ProcessInitialHeight \/ DecodeFails \/ StartProcess \/ ProcessNothing
           \/ ProcessLane \/ ProcessLaneRejects \/ ProcessLanePanics \/ FinishProcess
  <2>1. phase' \notin {"idle", "prepare"} /\ lost' = lost
    BY <1>7 DEF PrepareInitialHeight, FinishPrepare, ReceiveProposal, ProcessInitialHeight,
                DecodeFails, StartProcess, ProcessNothing, ProcessLane, ProcessLaneRejects,
                ProcessLanePanics, FinishProcess, ProcessingLane, Vote
  <2> QED BY <1>1, <2>1 DEF BudgetInv
<1>8. CASE UNCHANGED vars
  BY <1>1, <1>8 DEF BudgetInv, vars
<1> QED BY <1>3, <1>4, <1>5, <1>6, <1>7, <1>8 DEF Next, Prepare, Process

\* UpdateProposal never refuses what a lane selected: for every chain of lanes with
\* the unlimited lane last whose shares add up to at most the block, whatever lanes
\* panic on the way.
THEOREM NoLaneLostThm ==
  ASSUME SharesWithinBlock, UnlimitedLast, ReqMaxTxBytes \in Nat
  PROVE  Spec => []NoLaneLost
<1>1. Init => BudgetInv
  BY InitBudgetInv
<1>2. BudgetInv /\ [Next]_vars => BudgetInv'
  BY NextBudgetInv
<1>3. BudgetInv => NoLaneLost
  BY DEF BudgetInv, NoLaneLost
<1> QED BY <1>1, <1>2, <1>3, PTL DEF Spec

-----------------------------------------------------------------------------
(* Parity: what was built is verified the same way *)

\* A list that verifies verifies as far as one likes.
LEMMA VerifyPrefix ==
  ASSUME NEW A, SignedBy(A), NEW c \in Contexts(A), NEW s \in Seq(Tx)
  PROVE  \A t \in Seq(Tx) : VerifyAll(c, s \o t).ok => VerifyAll(c, s).ok
<1> DEFINE S == {t \in Seq(Tx) : VerifyAll(c, s \o t).ok => VerifyAll(c, s).ok}
<1>1. <<>> \in S
  <2>1. s \o <<>> = s
    OBVIOUS
  <2> QED BY <2>1
<1>2. ASSUME NEW t \in Seq(Tx), NEW e \in Tx, t \in S
      PROVE  Append(t, e) \in S
  <2>1. s \o Append(t, e) = Append(s \o t, e) /\ s \o t \in Seq(Tx) /\ Append(t, e) \in Seq(Tx)
    OBVIOUS
  <2>2. VerifyAll(c, Append(s \o t, e)) = VerifyTx(VerifyAll(c, s \o t), e)
    BY <2>1, VerifyAllStep
  <2>3. VerifyTx(VerifyAll(c, s \o t), e).ok => VerifyAll(c, s \o t).ok
    <3>1. VerifyAll(c, s \o t) \in Runs(A)
      BY <2>1, VerifyAllType
    <3> QED BY <3>1, VerifyTxStep
  <2> QED BY <1>2, <2>1, <2>2, <2>3
<1> HIDE DEF S
<1>3. \A t \in Seq(Tx) : t \in S
  BY <1>1, <1>2, SeqInduction
<1> QED BY <1>3 DEF S

\* In a list that verifies, a sender's sequence numbers ascend.
LEMMA VerifiedAscends ==
  ASSUME NEW A, SignedBy(A), NEW c \in Contexts(A)
  PROVE  \A s \in Seq(Tx) : VerifyAll(c, s).ok =>
           \A i, j \in 1 .. Len(s) : i < j /\ Sender[s[i]] = Sender[s[j]] => Nonce[s[i]] < Nonce[s[j]]
<1> DEFINE Asc(s) == \A i, j \in 1 .. Len(s) :
                       i < j /\ Sender[s[i]] = Sender[s[j]] => Nonce[s[i]] < Nonce[s[j]]
           S == {s \in Seq(Tx) : VerifyAll(c, s).ok => Asc(s)}
<1>1. <<>> \in S
  OBVIOUS
<1>2. ASSUME NEW s \in Seq(Tx), NEW e \in Tx, s \in S
      PROVE  Append(s, e) \in S
  <2>0. Append(s, e) \in Seq(Tx)
    OBVIOUS
  <2> HIDE DEF Asc
  <2> SUFFICES ASSUME VerifyAll(c, Append(s, e)).ok
               PROVE  Asc(Append(s, e))
    BY <2>0
  <2> DEFINE run == VerifyAll(c, s)
  <2>1. VerifyTx(run, e).ok
    BY VerifyAllStep
  <2>2. run \in Runs(A)
    BY VerifyAllType
  <2> HIDE DEF run
  <2>3. run.ok /\ Nonce[e] = run.ctx[Sender[e]]
    <3>1. \A r \in Runs(A) : VerifyTx(r, e).ok => r.ok /\ Nonce[e] = r.ctx[Sender[e]]
      <4> TAKE r \in Runs(A)
      <4>1. CASE r.ok /\ AnteOk(r.ctx, e)
        BY <4>1 DEF AnteOk
      <4>2. CASE ~(r.ok /\ AnteOk(r.ctx, e))
        <5>1. VerifyTx(r, e) = [r EXCEPT !.ok = FALSE]
          BY <4>2 DEF VerifyTx
        <5> QED BY <5>1 DEF Runs
      <4> QED BY <4>1, <4>2
    <3> QED BY <2>1, <2>2, <3>1
  <2>4. Asc(s)
    BY <1>2, <2>3 DEF run
  <2> USE DEF Asc
  <2>5. \A i \in 1 .. Len(s) : Nonce[s[i]] < run.ctx[Sender[s[i]]]
    BY <2>3, VerifiedOnce DEF run
  <2>6. /\ Len(Append(s, e)) = Len(s) + 1 /\ Append(s, e)[Len(s) + 1] = e /\ Len(s) \in Nat
        /\ \A i \in 1 .. Len(s) : Append(s, e)[i] = s[i]
    OBVIOUS
  <2> SUFFICES ASSUME NEW i \in 1 .. Len(s) + 1, NEW j \in 1 .. Len(s) + 1, i < j,
                      Sender[Append(s, e)[i]] = Sender[Append(s, e)[j]]
               PROVE  Nonce[Append(s, e)[i]] < Nonce[Append(s, e)[j]]
    BY <2>6
  <2>7. i \in 1 .. Len(s) /\ Append(s, e)[i] = s[i]
    BY <2>6
  <2>8. CASE j = Len(s) + 1
    BY <2>3, <2>5, <2>6, <2>7, <2>8
  <2>9. CASE j # Len(s) + 1
    <3>1. j \in 1 .. Len(s) /\ Append(s, e)[j] = s[j]
      BY <2>6, <2>9
    <3> QED BY <2>4, <2>7, <3>1
  <2> QED BY <2>8, <2>9
<1> HIDE DEF S
<1>3. \A s \in Seq(Tx) : s \in S
  BY <1>1, <1>2, SeqInduction
<1> QED BY <1>3 DEF S

\* The two parts of a list without repetitions have nothing in common.
LEMMA OnceDisjoint ==
  ASSUME NEW s \in Seq(Tx), NEW t \in Seq(Tx), Once(s \o t)
  PROVE  ToSet(s) \cap ToSet(t) = {}
<1>1. /\ Len(s) \in Nat /\ Len(t) \in Nat /\ Len(s \o t) = Len(s) + Len(t)
      /\ DOMAIN s = 1 .. Len(s) /\ DOMAIN t = 1 .. Len(t)
      /\ \A i \in 1 .. Len(s) : (s \o t)[i] = s[i]
      /\ \A i \in 1 .. Len(t) : (s \o t)[i + Len(s)] = t[i]
  OBVIOUS
<1> SUFFICES ASSUME NEW i \in 1 .. Len(s), NEW j \in 1 .. Len(t), s[i] = t[j]
             PROVE  FALSE
  BY <1>1 DEF ToSet
<1>2. i \in 1 .. Len(s \o t) /\ j + Len(s) \in 1 .. Len(s \o t)
  BY <1>1
<1>3. (s \o t)[i] = (s \o t)[j + Len(s)]
  BY <1>1
<1>4. i = j + Len(s)
  BY <1>2, <1>3 DEF Once
<1> QED BY <1>1, <1>4

\* A transaction is inserted into the first lane that matches it.
LEMMA FirstMatchFirst ==
  ASSUME NEW k \in 1 .. Len(Lanes), NEW t, Lanes[k] \in FirstMatch(t)
  PROVE  \A i \in 1 .. k - 1 : t \notin Match[Lanes[i]]
<1> DEFINE I == {i \in 1 .. Len(Lanes) : t \in Match[Lanes[i]]}
           f == SelectInSeq(Lanes, LAMBDA l : t \in Match[l])
<1>1. FirstMatch(t) = IF f = 0 THEN {} ELSE {Lanes[f]}
  BY DEF FirstMatch
<1>2. f = IF I = {} THEN 0 ELSE Min(I)
  BY DEF SelectInSeq
<1>3. Len(Lanes) \in Nat /\ I \in SUBSET Nat
  BY ChainTypes
<1>4. I # {} => Min(I) \in I /\ \A i \in I : Min(I) <= i
  BY <1>3, MinIn
<1>5. f \in I /\ Lanes[f] = Lanes[k] /\ \A i \in I : f <= i
  <2> HIDE DEF f
  <2> QED BY <1>1, <1>2, <1>4
<1> HIDE DEF f
<1>6. f = k
  <2>1. f \in DOMAIN Lanes /\ k \in DOMAIN Lanes
    BY <1>5, LaneAssumptions
  <2> QED BY <1>5, <2>1, HandlerAssumptions
<1> QED BY <1>3, <1>5, <1>6

\* What a lane's mempool may hold.
Held(l) == {t \in Pooled : l \in FirstMatch(t)}

\* The lanes other than the auction's rank all they hold alike, as those do that use
\* base.DefaultTxPriority (block/base/tx_priority.go).
FlatLanes ==
  \A l \in ToSet(Lanes) \ {MEVLane} : \A t, u \in Held(l) : Priority[t] >= Priority[u]

\* A quantity within what GetLaneLimits leaves a lane of a block's maximum.
WithinLane(l, max, used, n) ==
  n <= IF MaxBlockSpace[l] = 0 THEN Max({0, max - used}) ELSE Share(l, max)

\* The checks of UpdateProposal on the totals, for a block of the size given.
HasRoom(l, maxSize, size, gas, txs) ==
  LET maxGas == BlockGasLimit(ConsMaxGas)
  IN  /\ WithinLane(l, maxSize, size, TotalSize(txs))
      /\ WithinLane(l, maxGas, gas, TotalGas(txs))
      /\ size + TotalSize(txs) <= maxSize
      /\ Wrap(gas + TotalGas(txs)) <= maxGas

\* UpdateProposal in these terms.
LEMMA FitsIsRoom ==
  ASSUME NEW p, p.maxGas = BlockGasLimit(ConsMaxGas), NEW l, NEW txs
  PROVE  Fits(p, l, txs) <=> /\ l \notin DOMAIN p.txsByLane
                             /\ ToSet(txs) \cap p.cache = {}
                             /\ HasRoom(l, p.maxSize, p.size, p.gas, txs)
BY DEF Fits, HasRoom, WithinLane, GetLaneLimits

\* What fits a block fits a larger one.
LEMMA RoomInLarger ==
  ASSUME NEW l \in DOMAIN MaxBlockSpace, NEW m \in Int, NEW n \in Int, m <= n,
         NEW size \in Nat, NEW gas, NEW txs \in Seq(Tx), HasRoom(l, m, size, gas, txs)
  PROVE  HasRoom(l, n, size, gas, txs)
<1> DEFINE x == TotalSize(txs)
<1>1. x \in Nat
  BY TotalSizeConcat
<1>2. WithinLane(l, m, size, x) /\ size + x <= m
  BY DEF HasRoom
<1> HIDE DEF x
<1>3. m \in Nat /\ n \in Nat /\ size + x <= n
  BY <1>1, <1>2
<1>4. WithinLane(l, n, size, x)
  <2>1. CASE MaxBlockSpace[l] = 0
    <3>1. n - size \in Nat
      BY <1>1, <1>3
    <3>2. Max({0, n - size}) = n - size
      BY <3>1 DEF Max
    <3> QED BY <1>1, <1>3, <2>1, <3>2 DEF WithinLane
  <2>2. CASE MaxBlockSpace[l] # 0
    <3> DEFINE c == MaxBlockSpace[l]
               a == c * m
               b == c * n
    <3>1. c \in Nat
      <4>1. c \in 0 .. 100
        BY ProposalsAssumptions
      <4> HIDE DEF c
      <4> QED BY <4>1
    <3>2. a \in Nat /\ b \in Nat /\ a <= b
      <4>1. m * c \in Nat /\ n * c \in Nat /\ m * c <= n * c
        BY <1>3, <3>1, Products
      <4>2. m * c = c * m /\ n * c = c * n
        BY <1>3, <3>1
      <4> QED BY <4>1, <4>2
    <3>3. Share(l, m) = a \div 100 /\ Share(l, n) = b \div 100
      BY <1>3 DEF Share
    <3> HIDE DEF a, b
    <3>4. a \div 100 <= b \div 100 /\ a \div 100 \in Nat /\ b \div 100 \in Nat
      BY <3>2
    <3> QED BY <1>1, <1>2, <2>2, <3>3, <3>4 DEF WithinLane
  <2> QED BY <2>1, <2>2
<1> QED BY <1>3, <1>4 DEF HasRoom, x

\* A lane's part of a proposal that was built: its own transactions, if it added any,
\* had room and are such as its ProcessLaneHandler takes, and it matches none of those
\* behind them.
Link(l, own, tail, size, gas) ==
  /\ ToSet(tail) \cap Match[l] = {}
  /\ own # <<>> =>
       /\ HasRoom(l, ReqMaxTxBytes, size, gas, own)
       /\ l # MEVLane => ToSet(own) \subseteq Match[l] \cap Held(l)
       /\ l = MEVLane => \E b \in Match[MEVLane] :
                           own = WithBundle(b) /\ ToSet(Bundle[b]) \cap Match[MEVLane] = {}

\* The parts of a list that is two lists.
LEMMA Parts ==
  ASSUME NEW s \in Seq(Tx), NEW t \in Seq(Tx)
  PROVE  /\ s \o t \in Seq(Tx) /\ Len(s) \in Nat /\ Len(s) <= Len(s \o t)
         /\ SubSeq(s \o t, 1, Len(s)) = s
         /\ SubSeq(s \o t, Len(s) + 1, Len(s \o t)) = t
         /\ \A i \in 1 .. Len(s) : (s \o t)[i] = s[i]
         /\ \A i \in Len(s) + 1 .. Len(s \o t) : (s \o t)[i] \in ToSet(t)
         /\ ToSet(s \o t) = ToSet(s) \cup ToSet(t)
<1>1. /\ s \o t \in Seq(Tx) /\ Len(s) \in Nat /\ Len(t) \in Nat /\ Len(s \o t) = Len(s) + Len(t)
      /\ DOMAIN t = 1 .. Len(t)
      /\ \A i \in 1 .. Len(s) : (s \o t)[i] = s[i]
      /\ \A i \in Len(s) + 1 .. Len(s) + Len(t) : (s \o t)[i] = t[i - Len(s)]
  OBVIOUS
<1>2. SubSeq(s \o t, 1, Len(s)) = s
  <2>1. SubSeq(s \o t, 1, Len(s)) \in Seq(Tx) /\ Len(SubSeq(s \o t, 1, Len(s))) = Len(s)
        /\ \A i \in 1 .. Len(s) : SubSeq(s \o t, 1, Len(s))[i] = s[i]
    BY <1>1
  <2> QED BY <2>1
<1>3. SubSeq(s \o t, Len(s) + 1, Len(s \o t)) = t
  <2>1. /\ SubSeq(s \o t, Len(s) + 1, Len(s \o t)) \in Seq(Tx)
        /\ Len(SubSeq(s \o t, Len(s) + 1, Len(s \o t))) = Len(t)
        /\ \A i \in 1 .. Len(t) : SubSeq(s \o t, Len(s) + 1, Len(s \o t))[i] = t[i]
    BY <1>1
  <2> QED BY <2>1
<1>4. \A i \in Len(s) + 1 .. Len(s \o t) : (s \o t)[i] \in ToSet(t)
  <2> TAKE i \in Len(s) + 1 .. Len(s \o t)
  <2>1. (s \o t)[i] = t[i - Len(s)] /\ i - Len(s) \in DOMAIN t
    BY <1>1
  <2> QED BY <2>1 DEF ToSet
<1> QED BY <1>1, <1>2, <1>3, <1>4, ToSetConcat

\* The lane verified own and left tail.
Repeated(h, own, tail) == h.ok /\ h.own = own /\ h.rest = tail

\* The verification of a lane finds the lane's transactions, and accepts them.
LEMMA HandlerRepeats ==
  ASSUME FlatLanes, NEW A, SignedBy(A), NEW l \in ToSet(Lanes), NEW c \in Contexts(A),
         NEW own \in Seq(Tx), NEW tail \in Seq(Tx), NEW txs, txs = own \o tail, txs # <<>>,
         NEW size, NEW gas, Link(l, own, tail, size, gas), VerifyAll(c, own).ok
  PROVE  Repeated(ProcessLaneHandler(l, c, txs), own, tail)
<1> USE DEF Repeated
<1> DEFINE h == ProcessLaneHandler(l, c, txs)
           n == Len(own)
<1>1. /\ txs \in Seq(Tx) /\ n \in Nat /\ n <= Len(txs)
      /\ SubSeq(txs, 1, n) = own /\ SubSeq(txs, n + 1, Len(txs)) = tail
      /\ \A i \in 1 .. n : txs[i] = own[i]
      /\ \A i \in n + 1 .. Len(txs) : txs[i] \in ToSet(tail)
  BY Parts
<1>2. ToSet(tail) \cap Match[l] = {} /\ l \in DOMAIN Match /\ DOMAIN own = 1 .. n
  BY HandlerAssumptions DEF Link
<1>3. CASE l = MEVLane /\ own = <<>>
  <2>1. txs = tail /\ Head(txs) \in ToSet(tail)
    <3>1. txs = tail
      BY <1>3
    <3>2. 1 \in DOMAIN tail /\ Head(tail) = tail[1]
      BY <3>1
    <3> QED BY <3>1, <3>2 DEF ToSet
  <2>2. Head(txs) \notin Match[MEVLane] /\ ToSet(txs) \cap Match[MEVLane] = {}
    BY <1>2, <1>3, <2>1
  <2>3. h = [ok |-> TRUE, ctx |-> c, own |-> <<>>, rest |-> txs]
    BY <1>3, <2>2 DEF ProcessLaneHandler, MEVProcess
  <2> QED BY <1>3, <2>1, <2>3
<1>4. CASE l = MEVLane /\ own # <<>>
  <2>1. PICK b \in Match[MEVLane] :
          own = WithBundle(b) /\ ToSet(Bundle[b]) \cap Match[MEVLane] = {}
    BY <1>4 DEF Link
  <2>2. own[1] = b /\ 1 \in 1 .. n
    BY <1>2, <1>4, <2>1, WithBundleType
  <2>3. Head(txs) = b
    BY <1>1, <2>2
  <2>4. VerifyBidTx(c, b).ok
    <3>1. VerifyAll(c, own) \in Runs(A)
      BY VerifyAllType
    <3> QED BY <2>1, <3>1 DEF VerifyBidTx, Runs
  <2>5. h = [ok |-> n <= Len(txs) /\ SubSeq(txs, 1, n) = own /\ VerifyBidTx(c, b).ok,
             ctx |-> VerifyBidTx(c, b).ctx, own |-> own, rest |-> SubSeq(txs, n + 1, Len(txs))]
    BY <1>4, <2>1, <2>3 DEF ProcessLaneHandler, MEVProcess
  <2>6. n <= Len(txs) /\ SubSeq(txs, 1, n) = own /\ VerifyBidTx(c, b).ok
    BY <1>1, <2>4
  <2> HIDE DEF h, n
  <2>7. h.ok /\ h.own = own /\ h.rest = tail
    BY <1>1, <2>5, <2>6
  <2> QED BY <2>7 DEF h
<1>5. CASE l # MEVLane
  <2>1. \A i \in 1 .. n : txs[i] \in Match[l] /\ txs[i] \in Held(l)
    <3> TAKE i \in 1 .. n
    <3>1. own # <<>> => ToSet(own) \subseteq Match[l] \cap Held(l)
      BY <1>5 DEF Link
    <3>2. i \in DOMAIN own /\ txs[i] = own[i]
      BY <1>1, <1>2
    <3>3. own # <<>> /\ own[i] \in ToSet(own)
      BY <3>2 DEF ToSet
    <3> QED BY <3>1, <3>2, <3>3
  <2>2. \A i \in n + 1 .. Len(txs) : txs[i] \notin Match[l]
    BY <1>1, <1>2
  <2>3. OwnPrefix(l, txs) = n
    <3> DEFINE N == {k \in 0 .. Len(txs) : \A i \in 1 .. k : txs[i] \in Match[l]}
    <3>1. n \in N /\ N \in SUBSET (0 .. Len(txs)) /\ Len(txs) \in Nat
      BY <1>1, <2>1
    <3>a. \A k \in N : k \in Nat
      BY <3>1
    <3>2. \A k \in N : k <= n
      <4> TAKE k \in N
      <4>0. k \in Nat /\ k <= Len(txs) /\ Len(txs) \in Nat /\ \A i \in 1 .. k : txs[i] \in Match[l]
        BY <3>1
      <4> HIDE DEF N, n
      <4> SUFFICES ASSUME n + 1 <= k
                   PROVE  FALSE
        BY <1>1, <4>0
      <4>1. n + 1 \in 1 .. k /\ n + 1 \in n + 1 .. Len(txs)
        BY <1>1, <4>0
      <4> QED BY <2>2, <4>0, <4>1
    <3> HIDE DEF N
    <3>3. Max(N) \in N /\ Max(N) >= n
      BY <3>1, MaxIn
    <3> HIDE DEF n
    <3>4. Max(N) = n
      <4>1. Max(N) \in Nat
        BY <3>a, <3>3
      <4>2. Max(N) <= n /\ Max(N) >= n
        BY <3>2, <3>3
      <4> QED BY <1>1, <4>1, <4>2
    <3> QED BY <3>4 DEF OwnPrefix, N
  <2>4. \A i \in 2 .. n : InOrder(txs[i - 1], txs[i])
    <3> TAKE i \in 2 .. n
    <3>1. /\ i \in 1 .. Len(own) /\ i - 1 \in 1 .. Len(own) /\ i - 1 < i
          /\ txs[i] = own[i] /\ txs[i - 1] = own[i - 1]
      BY <1>1
    <3>2. Sender[own[i - 1]] = Sender[own[i]] => Nonce[own[i - 1]] < Nonce[own[i]]
      BY <3>1, VerifiedAscends
    <3>3. Priority[own[i - 1]] >= Priority[own[i]]
      BY <1>5, <2>1, <3>1 DEF FlatLanes
    <3> QED BY <3>1, <3>2, <3>3 DEF InOrder
  <2>5. h = [ok |-> /\ VerifyAll(c, SubSeq(txs, 1, n)).ok
                    /\ \A i \in 2 .. n : InOrder(txs[i - 1], txs[i])
                    /\ \A i \in n + 1 .. Len(txs) : txs[i] \notin Match[l],
             ctx |-> VerifyAll(c, SubSeq(txs, 1, n)).ctx,
             own |-> SubSeq(txs, 1, n), rest |-> SubSeq(txs, n + 1, Len(txs))]
    <3> HIDE DEF n
    <3> QED BY <1>5, <2>3 DEF ProcessLaneHandler, DefaultProcess
  <2>6. VerifyAll(c, SubSeq(txs, 1, n)).ok
    BY <1>1
  <2> HIDE DEF h, n
  <2>7. h.ok /\ h.own = own /\ h.rest = tail
    BY <1>1, <2>2, <2>4, <2>5, <2>6
  <2> QED BY <2>7 DEF h
<1> QED BY <1>3, <1>4, <1>5

\* The gas used once a lane has added its transactions.
GasAfter(gas, own) == IF own = <<>> THEN gas ELSE Wrap(gas + TotalGas(own))

\* The first n lanes' parts of a proposal: own transactions, what is behind them, and
\* the totals the lanes found and left.
Linked(n, own, tail, size, gas) ==
  /\ own \in [1 .. n -> Seq(Tx)] /\ tail \in [0 .. n -> Seq(Tx)]
  /\ size \in [0 .. n -> Nat] /\ gas \in [0 .. n -> Nat]
  /\ size[0] = 0 /\ gas[0] = 0 /\ tail[n] = <<>>
  /\ \A i \in 1 .. n :
       /\ tail[i - 1] = own[i] \o tail[i]
       /\ size[i] = size[i - 1] + TotalSize(own[i])
       /\ gas[i] = GasAfter(gas[i - 1], own[i])
       /\ Link(Lanes[i], own[i], tail[i], size[i - 1], gas[i - 1])

\* A proposal made of the parts of n lanes, with its totals.
MadeBy(n, txs, size, gas) ==
  \E own, tail, s, g : Linked(n, own, tail, s, g) /\ tail[0] = txs /\ s[n] = size /\ g[n] = gas

\* Nothing is made by no lanes.
LEMMA MadeByNone == MadeBy(0, <<>>, 0, 0)
<1> DEFINE own == [i \in 1 .. 0 |-> <<>>]
           tail == [i \in 0 .. 0 |-> <<>>]
           s == [i \in 0 .. 0 |-> 0]
<1>1. /\ own \in [1 .. 0 -> Seq(Tx)] /\ tail \in [0 .. 0 -> Seq(Tx)] /\ s \in [0 .. 0 -> Nat]
      /\ s[0] = 0 /\ tail[0] = <<>>
  OBVIOUS
<1> HIDE DEF own, tail, s
<1>2. Linked(0, own, tail, s, s)
  BY <1>1 DEF Linked
<1> QED BY <1>1, <1>2 DEF MadeBy

\* Concatenation of lists of transactions.
LEMMA Associative == \A s, t, u \in Seq(Tx) : (s \o t) \o u = s \o (t \o u)
BY ConcatAssociative

\* A lane more, whose transactions no lane before it matches.
LEMMA MadeByMore ==
  ASSUME NEW n \in Nat, NEW txs \in Seq(Tx), NEW size, NEW gas, MadeBy(n, txs, size, gas),
         NEW add \in Seq(Tx), Link(Lanes[n + 1], add, <<>>, size, gas),
         \A i \in 1 .. n : ToSet(add) \cap Match[Lanes[i]] = {}
  PROVE  MadeBy(n + 1, txs \o add, size + TotalSize(add), GasAfter(gas, add))
<1>1. PICK own, tail, s, g :
        Linked(n, own, tail, s, g) /\ tail[0] = txs /\ s[n] = size /\ g[n] = gas
  BY DEF MadeBy
<1> DEFINE owns == [i \in 1 .. n + 1 |-> IF i = n + 1 THEN add ELSE own[i]]
           tails == [i \in 0 .. n + 1 |-> IF i = n + 1 THEN <<>> ELSE tail[i] \o add]
           sizes == [i \in 0 .. n + 1 |-> IF i = n + 1 THEN size + TotalSize(add) ELSE s[i]]
           gases == [i \in 0 .. n + 1 |-> IF i = n + 1 THEN GasAfter(gas, add) ELSE g[i]]
<1>2. /\ own \in [1 .. n -> Seq(Tx)] /\ tail \in [0 .. n -> Seq(Tx)]
      /\ s \in [0 .. n -> Nat] /\ g \in [0 .. n -> Nat] /\ size \in Nat /\ gas \in Nat
      /\ tail[n] = <<>> /\ s[0] = 0 /\ g[0] = 0
  <2>1. n \in 0 .. n
    OBVIOUS
  <2> QED BY <1>1, <2>1 DEF Linked
<1>3. TotalSize(add) \in Nat /\ GasAfter(gas, add) \in Nat
  <2>1. TotalSize(add) \in Nat /\ TotalGas(add) \in Nat
    <3>1. TotalGas(add) \in 0 .. GasModulus - 1
      BY TotalGasType
    <3> QED BY <3>1, TotalSizeConcat, ProposalsAssumptions
  <2>2. gas + TotalGas(add) \in Nat
    <3>1. gas \in Nat
      BY <1>2
    <3> QED BY ONLY <2>1, <3>1
  <2>3. Wrap(gas + TotalGas(add)) \in Nat
    BY <2>2, WrapExact
  <2> QED BY <1>2, <2>1, <2>3 DEF GasAfter
<1>4. owns \in [1 .. n + 1 -> Seq(Tx)]
  BY <1>2
<1>5. tails \in [0 .. n + 1 -> Seq(Tx)]
  <2>1. \A i \in 0 .. n : tail[i] \in Seq(Tx)
    BY <1>2
  <2>2. \A q \in Seq(Tx) : q \o add \in Seq(Tx)
    OBVIOUS
  <2>3. \A i \in 0 .. n + 1 : (IF i = n + 1 THEN <<>> ELSE tail[i] \o add) \in Seq(Tx)
    BY <2>1, <2>2
  <2> QED BY <2>3
<1>6. sizes \in [0 .. n + 1 -> Nat] /\ gases \in [0 .. n + 1 -> Nat]
  <2>1. \A i \in 0 .. n : s[i] \in Nat /\ g[i] \in Nat
    BY <1>2
  <2>2. size + TotalSize(add) \in Nat
    <3>1. size \in Nat
      BY <1>2
    <3> QED BY ONLY <1>3, <3>1
  <2>3. \A i \in 0 .. n + 1 : i = n + 1 \/ i \in 0 .. n
    OBVIOUS
  <2> QED BY <1>3, <2>1, <2>2, <2>3
<1>7. /\ sizes[0] = 0 /\ gases[0] = 0 /\ tails[n + 1] = <<>> /\ tails[0] = txs \o add
      /\ sizes[n + 1] = size + TotalSize(add) /\ gases[n + 1] = GasAfter(gas, add)
  <2>1. 0 \in 0 .. n + 1 /\ n + 1 \in 0 .. n + 1 /\ 0 # n + 1
    OBVIOUS
  <2> QED BY <1>1, <1>2, <2>1
<1>8. ASSUME NEW i \in 1 .. n + 1
      PROVE  /\ tails[i - 1] = owns[i] \o tails[i]
             /\ sizes[i] = sizes[i - 1] + TotalSize(owns[i])
             /\ gases[i] = GasAfter(gases[i - 1], owns[i])
             /\ Link(Lanes[i], owns[i], tails[i], sizes[i - 1], gases[i - 1])
  <2>1. CASE i = n + 1
    <3>1. /\ owns[i] = add /\ tails[i] = <<>> /\ tails[i - 1] = tail[n] \o add
          /\ sizes[i - 1] = size /\ gases[i - 1] = gas
          /\ sizes[i] = size + TotalSize(add) /\ gases[i] = GasAfter(gas, add)
      <4>1. i - 1 = n /\ n \in 0 .. n + 1 /\ n # n + 1 /\ i \in 0 .. n + 1
        BY <2>1
      <4> QED BY <1>1, <2>1, <4>1
    <3>2. tail[n] \o add = add \o <<>>
      <4>1. <<>> \o add = add /\ add \o <<>> = add
        OBVIOUS
      <4> QED BY <1>2, <4>1
    <3> HIDE DEF owns, tails, sizes, gases
    <3> QED BY <2>1, <3>1, <3>2
  <2>2. CASE i # n + 1
    <3>1. i \in 1 .. n /\ i \in 0 .. n /\ i - 1 \in 0 .. n /\ i # n + 1 /\ i - 1 # n + 1
          /\ i \in 0 .. n + 1 /\ i - 1 \in 0 .. n + 1
      BY <2>2
    <3>2. /\ owns[i] = own[i] /\ tails[i] = tail[i] \o add /\ tails[i - 1] = tail[i - 1] \o add
          /\ sizes[i - 1] = s[i - 1] /\ gases[i - 1] = g[i - 1]
          /\ sizes[i] = s[i] /\ gases[i] = g[i]
      BY <3>1
    <3>3. /\ tail[i - 1] = own[i] \o tail[i]
          /\ s[i] = s[i - 1] + TotalSize(own[i])
          /\ g[i] = GasAfter(g[i - 1], own[i])
          /\ Link(Lanes[i], own[i], tail[i], s[i - 1], g[i - 1])
      BY <1>1, <3>1 DEF Linked
    <3>4. own[i] \in Seq(Tx) /\ tail[i] \in Seq(Tx)
      BY <1>2, <3>1
    <3> HIDE DEF owns, tails, sizes, gases
    <3>5. tails[i - 1] = owns[i] \o tails[i]
      <4>1. (own[i] \o tail[i]) \o add = own[i] \o (tail[i] \o add)
        BY <3>4, Associative, Zenon
      <4> QED BY <3>2, <3>3, <4>1
    <3>6. Link(Lanes[i], own[i], tail[i] \o add, s[i - 1], g[i - 1])
      <4>1. ToSet(tail[i] \o add) = ToSet(tail[i]) \cup ToSet(add)
        BY <3>4, ToSetConcat
      <4>2. ToSet(add) \cap Match[Lanes[i]] = {}
        BY <3>1
      <4> QED BY <3>3, <4>1, <4>2 DEF Link
    <3> QED BY <3>2, <3>3, <3>5, <3>6
  <2> QED BY <2>1, <2>2
<1> HIDE DEF owns, tails, sizes, gases
<1>9. Linked(n + 1, owns, tails, sizes, gases)
  BY <1>4, <1>5, <1>6, <1>7, <1>8 DEF Linked
<1> QED BY <1>7, <1>9 DEF MadeBy

\* The transactions decode and their information can be read.
Readable(txs) == ToSet(txs) \cap (Malformed \cup Undecodable) = {}

\* Each lane's mempool holds transactions whose first match it is.
PoolsSorted == \A l \in ToSet(Lanes) : pools[l] \subseteq Held(l)

\* While a proposal is prepared, it is made of the parts of the lanes called so far.
Preparing ==
  /\ ~built
  /\ proposal.maxSize = ReqMaxTxBytes /\ proposal.maxGas = BlockGasLimit(ConsMaxGas)
  /\ Readable(proposal.txs)
  /\ MadeBy(at - 1, proposal.txs, proposal.size, proposal.gas)

\* A block that was built is made of the parts of all lanes, and executes.
BlockBuilt ==
  /\ Readable(block) /\ VerifyAll(StartCtx, block).ok
  /\ \E size, gas : MadeBy(Len(Lanes), block, size, gas)

\* While it is verified, what remains is the parts of the lanes to come, and the totals
\* are those these lanes found when the proposal was prepared.
Matches(own, tail, s, g) ==
  /\ Linked(Len(Lanes), own, tail, s, g)
  /\ rest = tail[at - 1] /\ proposal.size = s[at - 1] /\ proposal.gas = g[at - 1]

Verifying ==
  /\ proposal.maxSize = ConsMaxBytes /\ proposal.maxGas = BlockGasLimit(ConsMaxGas)
  /\ \E own, tail, s, g : Matches(own, tail, s, g)

\* The inductive invariant.
ParityInv ==
  /\ ChainInv /\ VoteInv /\ PoolsSorted
  /\ phase \in {"idle", "prepare"} => Preparing
  /\ phase \in {"prepared", "process"} /\ built => BlockBuilt
  /\ phase = "process" /\ built => Verifying
  /\ Parity

\* What the lane at hand selects becomes its part of the proposal.
LEMMA SelectedLink ==
  ASSUME AuctionFirst, Types, PoolsSorted, Preparing, PreparingLane,
         NEW order \in Select(pools[Lanes[at]]), NEW txs, txs = Selected(order).include,
         ~UpdateFails(proposal, Lanes[at], txs)
  PROVE  /\ Readable(txs)
         /\ Link(Lanes[at], txs, <<>>, proposal.size, proposal.gas)
         /\ \A i \in 1 .. at - 1 : ToSet(txs) \cap Match[Lanes[i]] = {}
<1> DEFINE l == Lanes[at]
           s == Selected(order)
<1>1. /\ l \in ToSet(Lanes) /\ ToSet(order) \subseteq pools[l]
      /\ l # MEVLane => ToSet(s.include) \subseteq (ToSet(order) \cap Match[l]) \ Malformed
      /\ l = MEVLane =>
           BidSelectionOk(Accounts, ctx, proposal, GetLaneLimits(proposal, l), order, s)
  BY SelectedOk
<1>2. at \in 1 .. Len(Lanes) /\ at \in DOMAIN Lanes /\ 1 \in DOMAIN Lanes
  BY ChainTypes, LaneAssumptions DEF Types, TypeOK, PreparingLane
<1> HIDE DEF s
<1>3. txs # <<>> => HasRoom(l, ReqMaxTxBytes, proposal.size, proposal.gas, txs)
  <2>1. proposal.maxGas = BlockGasLimit(ConsMaxGas) /\ proposal.maxSize = ReqMaxTxBytes
    BY DEF Preparing
  <2>2. txs # <<>> => Fits(proposal, l, txs)
    BY DEF UpdateFails
  <2> HIDE DEF l
  <2> QED BY <2>1, <2>2, FitsIsRoom
<1>4. ToSet(<<>>) = {}
  BY DEF ToSet
<1>5. CASE l = MEVLane
  <2>1. at = 1
    BY <1>2, <1>5, HandlerAssumptions DEF AuctionFirst
  <2>2. CASE txs = <<>>
    BY <1>4, <2>1, <2>2 DEF Readable, Link
  <2>3. CASE txs # <<>>
    <3>1. PICK b \in Match[MEVLane] :
            /\ txs = WithBundle(b) /\ ToSet(Bundle[b]) \cap Match[MEVLane] = {}
            /\ VerifyBidBasic(proposal, GetLaneLimits(proposal, l), b)
      BY <1>1, <1>5, <2>3 DEF BidSelectionOk, s
    <3>2. Readable(txs)
      BY <3>1 DEF VerifyBidBasic, Readable
    <3>3. Link(l, txs, <<>>, proposal.size, proposal.gas)
      BY <1>3, <1>4, <1>5, <2>3, <3>1 DEF Link
    <3> QED BY <2>1, <3>2, <3>3
  <2> QED BY <2>2, <2>3
<1>6. CASE l # MEVLane
  <2>1. ToSet(txs) \subseteq pools[l] /\ ToSet(txs) \subseteq Match[l] /\ ToSet(txs) \cap Malformed = {}
    BY <1>1, <1>6 DEF s
  <2>2. \A t \in ToSet(txs) : t \in Pooled /\ l \in FirstMatch(t)
    BY <1>1, <2>1 DEF PoolsSorted, Held
  <2>3. Readable(txs)
    BY <2>1, <2>2, HandlerAssumptions DEF Readable
  <2>4. Link(l, txs, <<>>, proposal.size, proposal.gas)
    <3>1. ToSet(txs) \subseteq Held(l)
      BY <1>1, <2>1 DEF PoolsSorted
    <3> QED BY <1>3, <1>4, <1>6, <2>1, <3>1 DEF Link
  <2>5. \A i \in 1 .. at - 1 : ToSet(txs) \cap Match[Lanes[i]] = {}
    BY <1>2, <2>2, FirstMatchFirst
  <2> QED BY <2>3, <2>4, <2>5
<1> QED BY <1>5, <1>6

\* The proposal with what the lane added.
LEMMA PrepareLaneKeeps ==
  ASSUME AuctionFirst, Types, PoolsSorted, Preparing, PrepareLane
  PROVE  Preparing'
<1>1. PICK order \in Select(pools[Lanes[at]]) :
        /\ ~UpdateFails(proposal, Lanes[at], Selected(order).include)
        /\ proposal' = Updated(proposal, Lanes[at], Selected(order).include)
  BY DEF PrepareLane
<1> DEFINE txs == Selected(order).include
<1>2. PreparingLane /\ at' = at + 1 /\ built' = built
  BY DEF PrepareLane
<1>3. txs \in Seq(Tx)
  BY <1>2, SelectedOk
<1>4. /\ Readable(txs) /\ Link(Lanes[at], txs, <<>>, proposal.size, proposal.gas)
      /\ \A i \in 1 .. at - 1 : ToSet(txs) \cap Match[Lanes[i]] = {}
  BY <1>1, <1>2, SelectedLink
<1>5. PICK D \in SUBSET ToSet(Lanes) : proposal \in Proposal(D)
  BY DEF Types, TypeOK
<1>6. ExtendedBy(D, proposal, Lanes[at], txs, proposal')
  BY <1>1, <1>3, <1>5, UpdatedType
<1> HIDE DEF txs
<1>7. /\ proposal.txs \in Seq(Tx) /\ at - 1 \in Nat /\ (at - 1) + 1 = at /\ at' - 1 = at
  BY <1>2, <1>5, ChainTypes DEF Proposal, Types, TypeOK
<1>8. /\ proposal'.txs = proposal.txs \o txs /\ proposal'.size = proposal.size + TotalSize(txs)
      /\ proposal'.maxSize = proposal.maxSize /\ proposal'.maxGas = proposal.maxGas
      /\ proposal'.gas = GasAfter(proposal.gas, txs)
  BY <1>6 DEF ExtendedBy, GasAfter
<1>9. MadeBy(at, proposal'.txs, proposal'.size, proposal'.gas)
  <2>1. MadeBy(at - 1, proposal.txs, proposal.size, proposal.gas)
    BY DEF Preparing
  <2>2. Link(Lanes[(at - 1) + 1], txs, <<>>, proposal.size, proposal.gas)
    BY <1>4, <1>7
  <2>3. MadeBy((at - 1) + 1, proposal.txs \o txs, proposal.size + TotalSize(txs),
               GasAfter(proposal.gas, txs))
    BY <1>3, <1>4, <1>7, <2>1, <2>2, MadeByMore
  <2> QED BY <1>7, <1>8, <2>3
<1>10. Readable(proposal'.txs)
  <2>1. ToSet(proposal'.txs) = ToSet(proposal.txs) \cup ToSet(txs)
    BY <1>3, <1>7, <1>8, ToSetConcat
  <2>2. Readable(proposal.txs)
    BY DEF Preparing
  <2> QED BY <1>4, <2>1, <2>2 DEF Readable
<1> QED BY <1>2, <1>7, <1>8, <1>9, <1>10 DEF Preparing

\* ParityInv holds initially.
LEMMA InitParityInv == Init => ParityInv
<1> SUFFICES ASSUME Init
             PROVE  ParityInv
  OBVIOUS
<1>1. /\ phase = "idle" /\ at = 1 /\ built = FALSE /\ verdict = "none"
      /\ proposal = NewProposal(ReqMaxTxBytes, BlockGasLimit(ConsMaxGas))
  BY DEF Init
<1>2. ChainInv
  BY InitChainInv
<1>3. VoteInv
  BY <1>1, InitTypes DEF VoteInv, AcceptedIsVerified
<1>4. PoolsSorted
  <2>1. PICK S \in PoolContents : pools = [l \in ToSet(Lanes) |-> {t \in S : l \in FirstMatch(t)}]
    BY DEF Init
  <2>2. S \subseteq Pooled
    BY DEF PoolContents
  <2> QED BY <2>1, <2>2 DEF PoolsSorted, Held
<1>5. Preparing
  <2>1. /\ proposal.txs = <<>> /\ proposal.size = 0 /\ proposal.gas = 0
        /\ proposal.maxSize = ReqMaxTxBytes /\ proposal.maxGas = BlockGasLimit(ConsMaxGas)
    BY <1>1 DEF NewProposal
  <2>2. Readable(<<>>)
    BY DEF Readable, ToSet
  <2> QED BY <1>1, <2>1, <2>2, MadeByNone DEF Preparing
<1> QED BY <1>1, <1>2, <1>3, <1>4, <1>5 DEF ParityInv, Parity

\* A lane that contributes nothing has an empty part.
LEMMA PreparePassKeeps ==
  ASSUME Types, Preparing, PreparingLane, proposal' = proposal, at' = at + 1, built' = built
  PROVE  Preparing'
<1>1. /\ at \in 1 .. Len(Lanes) /\ at - 1 \in Nat /\ (at - 1) + 1 = at /\ at' - 1 = at
  BY ChainTypes DEF Types, TypeOK, PreparingLane
<1>2. PICK D \in SUBSET ToSet(Lanes) : proposal \in Proposal(D)
  BY DEF Types, TypeOK
<1>3. proposal.txs \in Seq(Tx) /\ proposal.size \in Nat /\ <<>> \in Seq(Tx)
  BY <1>2 DEF Proposal
<1>4. ToSet(<<>>) = {}
  BY DEF ToSet
<1>5. MadeBy((at - 1) + 1, proposal.txs \o <<>>, proposal.size + TotalSize(<<>>),
             GasAfter(proposal.gas, <<>>))
  <2>1. Link(Lanes[(at - 1) + 1], <<>>, <<>>, proposal.size, proposal.gas)
    BY <1>4 DEF Link
  <2>2. MadeBy(at - 1, proposal.txs, proposal.size, proposal.gas)
    BY DEF Preparing
  <2>3. \A i \in 1 .. at - 1 : ToSet(<<>>) \cap Match[Lanes[i]] = {}
    BY <1>4
  <2> QED BY <1>1, <1>3, <2>1, <2>2, <2>3, MadeByMore
<1>6. proposal.txs \o <<>> = proposal.txs
  BY <1>3
<1>7. proposal.size + TotalSize(<<>>) = proposal.size
  BY <1>3, TotalSizeStep
<1>8. MadeBy(at, proposal.txs, proposal.size, proposal.gas)
  BY <1>1, <1>5, <1>6, <1>7 DEF GasAfter
<1> QED BY <1>1, <1>8 DEF Preparing

\* RemoveTxsFromLane leaves the other transactions where they were.
LEMMA RemovedSorted ==
  ASSUME Types, PoolsSorted, NEW l \in ToSet(Lanes), NEW txs, RemoveTxsFromLane(l, txs)
  PROVE  PoolsSorted'
<1>1. pools \in [ToSet(Lanes) -> SUBSET Tx] /\ pools' = [pools EXCEPT ![l] = @ \ txs]
  BY DEF RemoveTxsFromLane, Types, TypeOK
<1>2. \A k \in ToSet(Lanes) : pools'[k] \subseteq pools[k]
  BY <1>1
<1> QED BY <1>2 DEF PoolsSorted

\* The block that is sent out is made of the parts of all lanes.
LEMMA FinishPrepareBuilds ==
  ASSUME Types, ProposalExecutes, Preparing, FinishPrepare
  PROVE  BlockBuilt'
<1>1. at - 1 = Len(Lanes)
  BY ChainTypes DEF Types, TypeOK, FinishPrepare
<1>2. block' = proposal.txs
  BY DEF FinishPrepare
<1>3. VerifyAll(StartCtx, proposal.txs).ok
  BY DEF ProposalExecutes
<1> QED BY <1>1, <1>2, <1>3 DEF BlockBuilt, Preparing

\* Verification starts with all the parts to come.
LEMMA StartVerifying ==
  ASSUME BlockBuilt, StartProcess
  PROVE  Verifying'
<1>1. PICK size, gas : MadeBy(Len(Lanes), block, size, gas)
  BY DEF BlockBuilt
<1>2. PICK own, tail, s, g : Linked(Len(Lanes), own, tail, s, g) /\ tail[0] = block
  BY <1>1 DEF MadeBy
<1>3. /\ at' = 1 /\ rest' = block
      /\ proposal' = NewProposal(ConsMaxBytes, BlockGasLimit(ConsMaxGas))
  BY DEF StartProcess
<1>4. /\ proposal'.size = 0 /\ proposal'.gas = 0
      /\ proposal'.maxSize = ConsMaxBytes /\ proposal'.maxGas = BlockGasLimit(ConsMaxGas)
  BY <1>3 DEF NewProposal
<1>5. s[0] = 0 /\ g[0] = 0
  BY <1>2 DEF Linked
<1>6. at' - 1 = 0
  BY <1>3
<1>7. Matches(own, tail, s, g)'
  BY <1>2, <1>3, <1>4, <1>5, <1>6 DEF Matches
<1> QED BY <1>4, <1>7 DEF Verifying

\* One lane's part, with the totals before and behind it.
PartAt(k, own, tail, s, g) ==
  /\ own[k] \in Seq(Tx) /\ tail[k] \in Seq(Tx) /\ s[k - 1] \in Nat
  /\ tail[k - 1] = own[k] \o tail[k]
  /\ s[k] = s[k - 1] + TotalSize(own[k])
  /\ g[k] = GasAfter(g[k - 1], own[k])
  /\ Link(Lanes[k], own[k], tail[k], s[k - 1], g[k - 1])

\* Every lane has one.
LEMMA LinkedAt ==
  ASSUME NEW own, NEW tail, NEW s, NEW g, Linked(Len(Lanes), own, tail, s, g)
  PROVE  \A k \in 1 .. Len(Lanes) : PartAt(k, own, tail, s, g)
<1> TAKE k \in 1 .. Len(Lanes)
<1>1. k \in 1 .. Len(Lanes) /\ k \in 0 .. Len(Lanes) /\ k - 1 \in 0 .. Len(Lanes)
  BY ChainTypes
<1> QED BY <1>1 DEF Linked, PartAt

\* The lane at hand accepts its part of a block that was built: it finds the
\* transactions the lane selected, which are valid where they stand, readable, new to
\* the proposal and within limits no smaller than those they were selected for.
LEMMA VerifiedLane ==
  ASSUME FlatLanes, ReqMaxTxBytes <= ConsMaxBytes, ChainInv, VoteInv, BlockBuilt,
         ProcessingLane, rest # <<>>,
         proposal.maxSize = ConsMaxBytes, proposal.maxGas = BlockGasLimit(ConsMaxGas),
         NEW own, NEW tail, NEW s, NEW g, Matches(own, tail, s, g)
  PROVE  LET h == ProcessLaneHandler(Lanes[at], ctx, rest)
         IN  LaneAccepts(Lanes[at], h) /\ h.own = own[at] /\ h.rest = tail[at]
<1> DEFINE l == Lanes[at]
           mine == own[at]
           behind == tail[at]
           h == ProcessLaneHandler(l, ctx, rest)
<1>1. Types /\ ProposalExecutes /\ InfoMatchesTxs /\ InChain(proposal, at)
  BY DEF ChainInv, ProposalInv
<1> HIDE DEF l, mine, behind
<1>2. /\ at \in 1 .. Len(Lanes) /\ l \in ToSet(Lanes) /\ l \in DOMAIN MaxBlockSpace
      /\ SignedBy(Accounts) /\ StartCtx \in Contexts(Accounts) /\ ctx \in Contexts(Accounts)
      /\ proposal.txs \in Seq(Tx) /\ rest \in Seq(Tx)
  BY <1>1, ChainTypes DEF Types, TypeOK, ProcessingLane, Contexts, Proposal, l
<1>3. /\ mine \in Seq(Tx) /\ behind \in Seq(Tx) /\ rest = mine \o behind
      /\ s[at - 1] \in Nat /\ proposal.size = s[at - 1] /\ proposal.gas = g[at - 1]
      /\ Link(l, mine, behind, proposal.size, proposal.gas)
  <2>1. Linked(Len(Lanes), own, tail, s, g)
    BY DEF Matches
  <2>2. PartAt(at, own, tail, s, g)
    BY <1>2, <2>1, LinkedAt
  <2>3. rest = tail[at - 1] /\ proposal.size = s[at - 1] /\ proposal.gas = g[at - 1]
    BY DEF Matches
  <2> QED BY <2>2, <2>3 DEF PartAt, l, mine, behind
<1>4. block = proposal.txs \o rest
  BY DEF VoteInv, ProcessingLane
<1>5. VerifyAll(StartCtx, block).ok
  BY DEF BlockBuilt
<1>6. VerifyAll(ctx, mine).ok
  <2>1. VerifyAll(StartCtx, proposal.txs).ok /\ VerifyAll(StartCtx, proposal.txs).ctx = ctx
    BY <1>1 DEF ProposalExecutes
  <2>2. VerifyAll(StartCtx, proposal.txs \o rest) = VerifyAll(ctx, rest)
    BY <1>2, <2>1, VerifyAllConcat
  <2>3. VerifyAll(ctx, mine \o behind).ok
    BY <1>3, <1>4, <1>5, <2>2
  <2> QED BY <1>2, <1>3, <2>3, VerifyPrefix
<1>7. h.ok /\ h.own = mine /\ h.rest = behind
  <2>1. \A txs, x, y \in Seq(Tx) : \A size, gas :
          /\ txs = x \o y /\ txs # <<>> /\ Link(l, x, y, size, gas) /\ VerifyAll(ctx, x).ok
          => Repeated(ProcessLaneHandler(l, ctx, txs), x, y)
    BY <1>2, HandlerRepeats
  <2> QED BY <1>2, <1>3, <1>6, <2>1 DEF Repeated
<1>8. ToSet(mine) \subseteq ToSet(rest) /\ ToSet(rest) \subseteq ToSet(block)
  <2>1. \A x, y \in Seq(Tx) : ToSet(x \o y) = ToSet(x) \cup ToSet(y)
    BY ToSetConcat
  <2>2. ToSet(rest) = ToSet(mine) \cup ToSet(behind)
    BY <1>3, <2>1
  <2>3. ToSet(block) = ToSet(proposal.txs) \cup ToSet(rest)
    BY <1>2, <1>4, <2>1
  <2> QED BY <2>2, <2>3
<1>9. ToSet(mine) \cap Malformed = {}
  BY <1>8 DEF BlockBuilt, Readable
<1>10. ~UpdateFails(proposal, l, mine)
  <2> SUFFICES ASSUME mine # <<>>
               PROVE  Fits(proposal, l, mine)
    BY DEF UpdateFails
  <2>1. l \notin DOMAIN proposal.txsByLane
    <3>1. \A i \in 1 .. Len(Lanes) : i >= at => Lanes[i] \notin DOMAIN proposal.txsByLane
      BY <1>1 DEF InChain
    <3>2. at >= at
      BY <1>2
    <3> QED BY <1>2, <3>1, <3>2 DEF l
  <2>2. ToSet(mine) \cap proposal.cache = {}
    <3>1. Once(block)
      <4>1. block \in Seq(Tx)
        BY <1>1 DEF Types, TypeOK
      <4> QED BY <1>2, <1>5, <4>1, VerifiedOnce DEF Once
    <3>2. ToSet(proposal.txs) \cap ToSet(rest) = {}
      BY <1>2, <1>4, <3>1, OnceDisjoint
    <3>3. proposal.cache = ToSet(proposal.txs)
      BY <1>1 DEF InfoMatchesTxs
    <3> QED BY <1>8, <3>2, <3>3
  <2>3. HasRoom(l, ReqMaxTxBytes, proposal.size, proposal.gas, mine)
    BY <1>3 DEF Link
  <2>4. HasRoom(l, ConsMaxBytes, proposal.size, proposal.gas, mine)
    <3>1. proposal.size \in Nat
      BY <1>3
    <3> QED BY <1>2, <1>3, <2>3, <3>1, StartLimits, RoomInLarger
  <2>5. HasRoom(l, proposal.maxSize, proposal.size, proposal.gas, mine)
    BY <2>4
  <2> QED BY <2>1, <2>2, <2>5, FitsIsRoom
<1> HIDE DEF h
<1>11. LaneAccepts(l, h) /\ h.own = mine /\ h.rest = behind
  BY <1>7, <1>9, <1>10 DEF LaneAccepts
<1> QED BY <1>11 DEF h, l, mine, behind

\* The lane takes its part and leaves the others to the lanes to come.
LEMMA ProcessLaneKeeps ==
  ASSUME FlatLanes, ReqMaxTxBytes <= ConsMaxBytes, ChainInv, VoteInv, BlockBuilt, Verifying,
         ProcessLane
  PROVE  Verifying'
<1>1. proposal.maxSize = ConsMaxBytes /\ proposal.maxGas = BlockGasLimit(ConsMaxGas)
  BY DEF Verifying
<1>2. PICK own, tail, s, g : Matches(own, tail, s, g)
  BY DEF Verifying
<1> DEFINE h == ProcessLaneHandler(Lanes[at], ctx, rest)
<1>3. /\ ProcessingLane /\ rest # <<>> /\ at' = at + 1 /\ rest' = h.rest
      /\ proposal' = Updated(proposal, Lanes[at], h.own)
  BY DEF ProcessLane
<1>4. h.own = own[at] /\ h.rest = tail[at]
  BY <1>1, <1>2, <1>3, VerifiedLane
<1> HIDE DEF h
<1>5. at \in 1 .. Len(Lanes) /\ at' - 1 = at
  BY <1>3, ChainTypes DEF ChainInv, ProposalInv, Types, TypeOK, ProcessingLane
<1>6. /\ own[at] \in Seq(Tx) /\ proposal.size = s[at - 1] /\ proposal.gas = g[at - 1]
      /\ s[at] = s[at - 1] + TotalSize(own[at]) /\ g[at] = GasAfter(g[at - 1], own[at])
  <2>1. Linked(Len(Lanes), own, tail, s, g)
    BY <1>2 DEF Matches
  <2>2. PartAt(at, own, tail, s, g)
    BY <1>5, <2>1, LinkedAt
  <2> QED BY <1>2, <2>2 DEF Matches, PartAt
<1>7. PICK D \in SUBSET ToSet(Lanes) : proposal \in Proposal(D)
  BY DEF ChainInv, ProposalInv, Types, TypeOK
<1>8. ExtendedBy(D, proposal, Lanes[at], own[at], proposal')
  BY <1>3, <1>4, <1>6, <1>7, UpdatedType
<1>9. /\ proposal'.size = s[at] /\ proposal'.gas = g[at]
      /\ proposal'.maxSize = proposal.maxSize /\ proposal'.maxGas = proposal.maxGas
  BY <1>6, <1>8 DEF ExtendedBy, GasAfter
<1>10. Matches(own, tail, s, g)'
  BY <1>2, <1>3, <1>4, <1>5, <1>9 DEF Matches
<1> QED BY <1>1, <1>9, <1>10 DEF Verifying

\* A lane that is passed over has an empty part.
LEMMA ProcessNothingKeeps ==
  ASSUME ChainInv, Verifying, ProcessNothing
  PROVE  Verifying'
<1>1. PICK own, tail, s, g : Matches(own, tail, s, g)
  BY DEF Verifying
<1>2. ProcessingLane /\ rest = <<>> /\ rest' = rest /\ at' = at + 1 /\ proposal' = proposal
  BY DEF ProcessNothing
<1>3. at \in 1 .. Len(Lanes) /\ at' - 1 = at
  BY <1>2, ChainTypes DEF ChainInv, ProposalInv, Types, TypeOK, ProcessingLane
<1>4. /\ own[at] \in Seq(Tx) /\ tail[at] \in Seq(Tx) /\ own[at] \o tail[at] = <<>>
      /\ s[at - 1] \in Nat
      /\ s[at] = s[at - 1] + TotalSize(own[at]) /\ g[at] = GasAfter(g[at - 1], own[at])
  <2>1. Linked(Len(Lanes), own, tail, s, g)
    BY <1>1 DEF Matches
  <2>2. PartAt(at, own, tail, s, g)
    BY <1>3, <2>1, LinkedAt
  <2>3. tail[at - 1] = <<>>
    BY <1>1, <1>2 DEF Matches
  <2> QED BY <2>2, <2>3 DEF PartAt
<1>5. own[at] = <<>> /\ tail[at] = <<>>
  BY <1>4
<1>6. s[at] = s[at - 1] /\ g[at] = g[at - 1]
  BY <1>4, <1>5, TotalSizeStep DEF GasAfter
<1>7. Matches(own, tail, s, g)'
  BY <1>1, <1>2, <1>3, <1>5, <1>6 DEF Matches
<1> QED BY <1>2, <1>7 DEF Verifying

\* When the lanes have had their turn, nothing remains.
LEMMA NothingRemains ==
  ASSUME ChainInv, Verifying, FinishProcess
  PROVE  rest = <<>>
<1>1. PICK own, tail, s, g : Matches(own, tail, s, g)
  BY DEF Verifying
<1>2. at - 1 = Len(Lanes)
  BY ChainTypes DEF ChainInv, ProposalInv, Types, TypeOK, FinishProcess
<1>3. tail[Len(Lanes)] = <<>>
  BY <1>1 DEF Matches, Linked
<1> QED BY <1>1, <1>2, <1>3 DEF Matches

\* Every step keeps ParityInv.
LEMMA NextParityInv ==
  ASSUME AuctionFirst, FlatLanes, ReqMaxTxBytes <= ConsMaxBytes
  PROVE  ParityInv /\ [Next]_vars => ParityInv'
<1> SUFFICES ASSUME ParityInv, [Next]_vars
             PROVE  ParityInv'
  OBVIOUS
<1>1. /\ ChainInv /\ VoteInv /\ PoolsSorted /\ Parity /\ Types /\ ProposalExecutes
      /\ built \in BOOLEAN
  BY DEF ParityInv, ChainInv, ProposalInv, Types, TypeOK
<1>2. ChainInv' /\ VoteInv'
  BY <1>1, NextChainInv, NextVoteInv
<1>3. phase # "done" => verdict = "none"
  BY <1>1 DEF VoteInv
<1>a. UNCHANGED pools => PoolsSorted'
  BY <1>1 DEF PoolsSorted
<1>b. UNCHANGED <<at, proposal, built>> => (Preparing => Preparing')
  BY DEF Preparing
<1>c. UNCHANGED block => (BlockBuilt => BlockBuilt')
  BY DEF BlockBuilt
<1>d. PreparingLane => Preparing /\ Lanes[at] \in ToSet(Lanes)
  BY <1>1, ChainTypes DEF ParityInv, PreparingLane, Types, TypeOK
<1>4. CASE PrepareInitialHeight
  BY <1>1, <1>2, <1>3, <1>4, <1>a DEF ParityInv, Preparing, PrepareInitialHeight, Parity
<1>5. CASE StartPrepare
  BY <1>1, <1>2, <1>3, <1>5, <1>a, <1>b DEF ParityInv, StartPrepare, Parity
<1>6. CASE PrepareLane
  <2>1. PreparingLane /\ \E txs : RemoveTxsFromLane(Lanes[at], txs)
    BY <1>6 DEF PrepareLane
  <2>2. PoolsSorted' /\ Preparing'
    BY <1>1, <1>6, <1>d, <2>1, RemovedSorted, PrepareLaneKeeps
  <2> QED BY <1>1, <1>2, <1>3, <1>6, <2>1, <2>2
      DEF ParityInv, PrepareLane, PreparingLane, Parity
<1>7. CASE PrepareLaneFails \/ PrepareLanePanics
  <2>1. /\ PreparingLane /\ \E txs : RemoveTxsFromLane(Lanes[at], txs)
        /\ UNCHANGED <<phase, proposal, built, verdict, panicked>> /\ at' = at + 1
    BY <1>7 DEF PrepareLaneFails, PrepareLanePanics, LaneAfterFailure, ProposalAfterFailure
  <2>2. PoolsSorted' /\ Preparing'
    BY <1>1, <1>d, <2>1, RemovedSorted, PreparePassKeeps
  <2> QED BY <1>1, <1>2, <1>3, <2>1, <2>2 DEF ParityInv, PreparingLane, Parity
<1>8. CASE FinishPrepare
  <2>1. BlockBuilt'
    BY <1>1, <1>8, FinishPrepareBuilds DEF ParityInv, FinishPrepare
  <2> QED BY <1>1, <1>2, <1>3, <1>8, <1>a, <2>1 DEF ParityInv, FinishPrepare, Parity
<1>9. CASE ReceiveProposal
  BY <1>1, <1>2, <1>3, <1>9, <1>a DEF ParityInv, Preparing, ReceiveProposal, Parity
<1>10. CASE ProcessInitialHeight
  BY <1>1, <1>2, <1>10, <1>a DEF ParityInv, ProcessInitialHeight, Vote, Parity
<1>11. CASE DecodeFails
  <2>1. ~built
    BY <1>11 DEF ParityInv, DecodeFails, BlockBuilt, Readable
  <2> QED BY <1>1, <1>2, <1>11, <1>a, <2>1 DEF ParityInv, DecodeFails, Vote, Parity
<1>12. CASE StartProcess
  <2>1. built => BlockBuilt /\ Verifying'
    BY <1>12, StartVerifying DEF ParityInv, StartProcess
  <2> QED BY <1>1, <1>2, <1>3, <1>12, <1>a, <1>c, <2>1 DEF ParityInv, StartProcess, Parity
<1>13. CASE ProcessNothing
  <2>1. built => BlockBuilt /\ Verifying'
    BY <1>1, <1>13, ProcessNothingKeeps DEF ParityInv, ProcessNothing, ProcessingLane
  <2> QED BY <1>1, <1>2, <1>3, <1>13, <1>a, <1>c, <2>1
      DEF ParityInv, ProcessNothing, ProcessingLane, Parity
<1>14. CASE ProcessLane
  <2>1. built => BlockBuilt /\ Verifying'
    BY <1>1, <1>14, ProcessLaneKeeps DEF ParityInv, ProcessLane, ProcessingLane
  <2> QED BY <1>1, <1>2, <1>3, <1>14, <1>a, <1>c, <2>1
      DEF ParityInv, ProcessLane, ProcessingLane, Parity
<1>15. CASE ProcessLaneRejects
  <2>1. ProcessingLane /\ rest # <<>>
    BY <1>15 DEF ProcessLaneRejects
  <2>2. ~built
    <3> SUFFICES ASSUME built
                 PROVE  FALSE
      OBVIOUS
    <3>1. BlockBuilt /\ Verifying
      BY <2>1 DEF ParityInv, ProcessingLane
    <3>2. proposal.maxSize = ConsMaxBytes /\ proposal.maxGas = BlockGasLimit(ConsMaxGas)
      BY <3>1 DEF Verifying
    <3>3. PICK own, tail, s, g : Matches(own, tail, s, g)
      BY <3>1 DEF Verifying
    <3>4. LaneAccepts(Lanes[at], ProcessLaneHandler(Lanes[at], ctx, rest))
      BY <1>1, <2>1, <3>1, <3>2, <3>3, VerifiedLane
    <3> QED BY <1>15, <3>4 DEF ProcessLaneRejects
  <2> QED BY <1>1, <1>2, <1>15, <1>a, <2>2 DEF ParityInv, ProcessLaneRejects, Vote, Parity
<1>16. CASE ProcessLanePanics
  BY <1>1, <1>2, <1>16, <1>a DEF ParityInv, ProcessLanePanics, Vote, Parity
<1>17. CASE FinishProcess
  <2>1. built => rest = <<>>
    BY <1>1, <1>17, NothingRemains DEF ParityInv, FinishProcess
  <2> QED BY <1>1, <1>2, <1>17, <1>a, <2>1
      DEF ParityInv, FinishProcess, Vote, TerminatorVerdict, Parity
<1>18. CASE UNCHANGED vars
  <2>1. Verifying => Verifying'
    BY <1>18 DEF vars, Verifying, Matches
  <2> QED BY <1>1, <1>2, <1>18, <1>a, <1>b, <1>c, <2>1 DEF ParityInv, vars, Parity
<1> QED BY <1>4, <1>5, <1>6, <1>7, <1>8, <1>9, <1>10, <1>11, <1>12, <1>13, <1>14, <1>15,
           <1>16, <1>17, <1>18 DEF Next, Prepare, Process

\* A proposal that PrepareProposal built is accepted by ProcessProposal of the same
\* validator at the same height, whatever lanes failed or panicked while it was built,
\* unless a lane panics while it verifies it: with the auction lane first, lanes that
\* rank their own transactions alike, and a consensus limit no smaller than the
\* request's.
THEOREM ParityThm ==
  ASSUME AuctionFirst, FlatLanes, ReqMaxTxBytes <= ConsMaxBytes
  PROVE  Spec => []Parity
<1>1. ParityInv => Parity
  BY DEF ParityInv
<1> QED BY <1>1, InitParityInv, NextParityInv, PTL DEF Spec
=============================================================================
