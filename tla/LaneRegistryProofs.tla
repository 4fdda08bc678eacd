-------------------------- MODULE LaneRegistryProofs --------------------------
(***************************************************************************)
(* Which lane holds a transaction, for every registry, transaction and     *)
(* fee: bids are in the auction lane only, and what executes from the free *)
(* lane and nothing else is exempt from the fee.                           *)
(***************************************************************************)
EXTENDS LaneRegistry, FiniteSetTheorems, TLAPS

Kinds == {"mev", "free", "all", "rest"}

\* The positions of a list of messages.
LEMMA MsgTypes ==
  ASSUME NEW t \in Tx
  PROVE  /\ DOMAIN Msgs[t] = 1 .. Len(Msgs[t]) /\ Len(Msgs[t]) \in Nat
         /\ \A i \in DOMAIN Msgs[t] : Msgs[t][i] \in Staking \cup {"bid", "other"}
BY LaneRegistryAssumptions

\* A transaction that the bid handlers take for a bid has that message only; of one
\* they take for none, no message is a bid.
LEMMA BidInfo ==
  ASSUME NEW t \in Tx
  PROVE  /\ GetAuctionBidInfo(t) = "bid" => Len(Msgs[t]) = 1 /\ Msgs[t][1] = "bid"
         /\ GetAuctionBidInfo(t) \notin {"bid", "error"} =>
              \A i \in DOMAIN Msgs[t] : Msgs[t][i] # "bid"
<1> DEFINE bids == {i \in DOMAIN Msgs[t] : Msgs[t][i] = "bid"}
           g == GetMsgAuctionBidFromTx(t)
<1>1. CASE bids = {}
  <2>1. Cardinality(bids) # 1
    BY <1>1, FS_EmptySet
  <2>2. g = "none"
    BY <1>1, <2>1 DEF GetMsgAuctionBidFromTx
  <2> HIDE DEF g
  <2>3. GetAuctionBidInfo(t) # "bid"
    BY <2>2 DEF GetAuctionBidInfo, g
  <2> QED BY <1>1, <2>3
<1>2. CASE bids # {} /\ Cardinality(bids) = 1 /\ Len(Msgs[t]) = 1
  <2>1. g = "bid"
    BY <1>2 DEF GetMsgAuctionBidFromTx
  <2>2. Msgs[t][1] = "bid"
    <3>1. PICK i \in DOMAIN Msgs[t] : Msgs[t][i] = "bid"
      BY <1>2
    <3>2. i = 1
      BY <1>2, <3>1, MsgTypes
    <3> QED BY <3>1, <3>2
  <2> HIDE DEF g
  <2>3. GetAuctionBidInfo(t) \in {"bid", "error"}
    BY <2>1 DEF GetAuctionBidInfo, g
  <2> QED BY <1>2, <2>2, <2>3
<1>3. CASE bids # {} /\ ~(Cardinality(bids) = 1 /\ Len(Msgs[t]) = 1)
  <2>1. g = "error"
    BY <1>3 DEF GetMsgAuctionBidFromTx
  <2> HIDE DEF g
  <2> QED BY <2>1 DEF GetAuctionBidInfo, g
<1> QED BY <1>1, <1>2, <1>3

\* A bid does not match the free lane.
LEMMA BidNotFree ==
  ASSUME NEW t \in Tx, GetAuctionBidInfo(t) = "bid"
  PROVE  ~FreeMatchHandler(t)
<1>1. Len(Msgs[t]) = 1 /\ Msgs[t][1] = "bid" /\ DOMAIN Msgs[t] = 1 .. 1
  BY BidInfo, MsgTypes
<1> QED BY <1>1 DEF FreeMatchHandler, Staking

\* The handler of a lane, by its kind.
LEMMA MatchOf ==
  ASSUME NEW lane, NEW t
  PROVE  /\ lane.match = "mev" => (Match(lane, t) <=> MEVMatchHandler(t))
         /\ lane.match = "free" => (Match(lane, t) <=> FreeMatchHandler(t))
         /\ lane.match = "all" => Match(lane, t)
         /\ lane.match = "rest" =>
              (Match(lane, t) <=> ~MEVMatchHandler(t) /\ ~FreeMatchHandler(t))
<1>1. MEVMatchHandler(t) \in BOOLEAN /\ FreeMatchHandler(t) \in BOOLEAN
  BY DEF MEVMatchHandler, FreeMatchHandler
<1> QED BY <1>1 DEF Match, NewMatchHandler

-----------------------------------------------------------------------------
(* The invariant *)

\* What a lane may hold: what its handler matches; of bids, only the auction lane;
\* and with a free lane in front, of what that matches, only a free lane.
Placed(i, t) ==
  /\ t \in Tx /\ Match(registry[i], t)
  /\ "bid" \in ToSet(Msgs[t]) => registry[i].match = "mev"
  /\ FreeLaneFirst /\ FreeMatchHandler(t) => registry[i].match = "free"

RegistryInv ==
  /\ registry \in Seq({lane \in LaneChoices : NewBaseLane(lane)})
  /\ built \in BOOLEAN
  /\ ~built => pools = <<>> /\ executed = {}
  /\ built => DOMAIN pools = DOMAIN registry
  /\ \A i \in DOMAIN pools : \A t \in pools[i] : Placed(i, t)
  /\ FeeMatchesLane

\* Registered lanes are of one of the four kinds.
LEMMA RegistryKinds ==
  ASSUME RegistryInv
  PROVE  /\ DOMAIN registry = 1 .. Len(registry) /\ Len(registry) \in Nat
         /\ \A i \in DOMAIN registry : registry[i].match \in Kinds
<1>1. /\ DOMAIN registry = 1 .. Len(registry) /\ Len(registry) \in Nat
      /\ \A i \in DOMAIN registry : registry[i] \in LaneChoices
  BY DEF RegistryInv
<1> QED BY <1>1, LaneRegistryAssumptions DEF Kinds

\* A transaction that is no bid and is not refused may be held by the first lane
\* that matches it.
LEMMA FirstMatchPlaced ==
  ASSUME RegistryInv, NEW t \in Tx, GetAuctionBidInfo(t) \notin {"bid", "error"},
         NEW i \in FirstMatch(t)
  PROVE  Placed(i, t)
<1>1. /\ i \in DOMAIN registry /\ Match(registry[i], t)
      /\ \A j \in 1 .. i - 1 : ~Match(registry[j], t)
  BY DEF FirstMatch
<1>2. "bid" \notin ToSet(Msgs[t])
  BY BidInfo DEF ToSet
<1>3. ASSUME FreeLaneFirst, FreeMatchHandler(t)
      PROVE  registry[i].match = "free"
  <2>1. PICK k \in DOMAIN registry :
          registry[k].match = "free" /\ \A j \in 1 .. k - 1 : registry[j].match # "all"
    BY <1>3 DEF FreeLaneFirst
  <2>2. Match(registry[k], t)
    BY <1>3, <2>1, MatchOf
  <2>3. i \in Nat /\ i >= 1 /\ k \in Nat /\ k >= 1
    BY <1>1, <2>1, RegistryKinds
  <2>4. i <= k
    BY <1>1, <2>2, <2>3
  <2>5. registry[i].match # "all"
    <3>1. i = k \/ i \in 1 .. k - 1
      BY <2>3, <2>4
    <3> QED BY <2>1, <3>1
  <2>6. registry[i].match # "mev"
    BY <1>1, MatchOf DEF MEVMatchHandler
  <2>7. registry[i].match # "rest"
    BY <1>1, <1>3, MatchOf
  <2> QED BY <1>1, <2>5, <2>6, <2>7, RegistryKinds DEF Kinds
<1> QED BY <1>1, <1>2, <1>3 DEF Placed

\* A bid may be held by the auction lane.
LEMMA BidPlaced ==
  ASSUME RegistryInv, NEW t \in Tx, GetAuctionBidInfo(t) = "bid", NEW i \in MEVLanes
  PROVE  i \in DOMAIN registry /\ Placed(i, t)
<1>1. i \in DOMAIN registry /\ registry[i].match = "mev"
  BY DEF MEVLanes
<1>2. Match(registry[i], t)
  BY <1>1, MatchOf DEF MEVMatchHandler
<1> QED BY <1>1, <1>2, BidNotFree DEF Placed

\* What executes from the lanes that hold a transaction pays as FeeMatchesLane says.
LEMMA FeePlaced ==
  ASSUME RegistryInv, built, NEW t, FreeLaneFirst,
         NEW lanes, lanes = {registry[i].match : i \in Holding(t)}, lanes # {}
  PROVE  FeeOf(t) = IF lanes = {"free"} THEN 0 ELSE Fee[t]
<1>1. \A i \in Holding(t) : i \in DOMAIN registry /\ Placed(i, t)
  BY DEF Holding, RegistryInv
<1>2. CASE FreeMatchHandler(t)
  <2>1. \A i \in Holding(t) : registry[i].match = "free"
    BY <1>1, <1>2 DEF Placed
  <2>2. lanes = {"free"}
    BY <2>1
  <2> QED BY <1>2, <2>2 DEF FeeOf
<1>3. CASE ~FreeMatchHandler(t)
  <2>1. \A i \in Holding(t) : registry[i].match # "free"
    BY <1>1, <1>3, MatchOf DEF Placed
  <2>2. lanes # {"free"}
    BY <2>1
  <2> QED BY <1>3, <2>2 DEF FeeOf
<1> QED BY <1>2, <1>3

\* Inserting keeps what the lanes hold in place.
LEMMA InsertedPlaced ==
  ASSUME RegistryInv, UNCHANGED registry, NEW t, NEW places,
         \A i \in places : Placed(i, t), pools' = Inserted(places, t)
  PROVE  DOMAIN pools' = DOMAIN pools /\ \A i \in DOMAIN pools' : \A u \in pools'[i] : Placed(i, u)'
<1>1. \A i, u : Placed(i, u)' <=> Placed(i, u)
  BY DEF Placed, FreeLaneFirst
<1>2. /\ DOMAIN pools' = DOMAIN pools
      /\ \A i \in DOMAIN pools : \A u \in pools'[i] : u \in pools[i] \/ (i \in places /\ u = t)
  BY DEF Inserted
<1>3. \A i \in DOMAIN pools : \A u \in pools[i] : Placed(i, u)
  BY DEF RegistryInv
<1> QED BY <1>1, <1>2, <1>3

\* The invariant holds initially.
LEMMA InitRegistryInv == Init => RegistryInv
<1> DEFINE L == {k \in LaneChoices : NewBaseLane(k)}
<1> SUFFICES ASSUME Init
             PROVE  RegistryInv
  OBVIOUS
<1>1. registry = <<>> /\ built = FALSE /\ pools = <<>> /\ executed = {}
  BY DEF Init
<1>2. registry \in Seq(L)
  <2> HIDE DEF L
  <2> QED BY <1>1
<1>3. \A i \in DOMAIN pools : \A t \in pools[i] : Placed(i, t)
  BY <1>1
<1>4. FeeMatchesLane
  BY <1>1 DEF FeeMatchesLane
<1> QED BY <1>1, <1>2, <1>3, <1>4 DEF RegistryInv

\* Every step keeps it: the registry no longer changes once a lane holds anything.
LEMMA NextRegistryInv == RegistryInv /\ [Next]_vars => RegistryInv'
<1> SUFFICES ASSUME RegistryInv, [Next]_vars
             PROVE  RegistryInv'
  OBVIOUS
<1>1. ASSUME NEW lane \in LaneChoices, MakeLane(lane)
      PROVE  RegistryInv'
  <2> DEFINE L == {k \in LaneChoices : NewBaseLane(k)}
  <2>1. /\ ~built /\ pools = <<>> /\ executed = {} /\ registry \in Seq(L) /\ lane \in L
        /\ registry' = Append(registry, lane) /\ UNCHANGED <<built, pools, executed>>
    BY <1>1 DEF MakeLane, RegistryInv
  <2>2. registry' \in Seq(L)
    <3> HIDE DEF L
    <3> QED BY <2>1
  <2> QED BY <2>1, <2>2 DEF RegistryInv, FeeMatchesLane, NewBaseLane
<1>2. CASE NewLanedMempool
  <2>1. /\ ~built /\ executed = {} /\ built' = TRUE /\ pools' = [i \in DOMAIN registry |-> {}]
        /\ UNCHANGED <<registry, executed>>
    BY <1>2 DEF NewLanedMempool, RegistryInv
  <2> QED BY <2>1 DEF RegistryInv, FeeMatchesLane, NewBaseLane
<1>3. ASSUME NEW t \in Tx, CheckTx(t)
      PROVE  RegistryInv'
  <2>1. built /\ UNCHANGED <<registry, built, executed>>
    BY <1>3 DEF CheckTx
  <2>2. \E places : (\A i \in places : Placed(i, t)) /\ pools' = Inserted(places, t)
    <3>1. CASE GetAuctionBidInfo(t) = "bid"
      <4>1. pools' = Inserted(MEVLanes, t)
        BY <1>3, <3>1 DEF CheckTx
      <4> QED BY <3>1, <4>1, BidPlaced
    <3>2. CASE GetAuctionBidInfo(t) # "bid"
      <4>1. pools' = Inserted(FirstMatch(t), t) /\ GetAuctionBidInfo(t) # "error"
        BY <1>3, <3>2 DEF CheckTx, MEVCheckTxRefuses
      <4> QED BY <3>2, <4>1, FirstMatchPlaced
    <3> QED BY <3>1, <3>2
  <2>3. /\ DOMAIN pools' = DOMAIN pools
        /\ \A i \in DOMAIN pools' : \A u \in pools'[i] : Placed(i, u)'
    BY <2>1, <2>2, InsertedPlaced
  <2> QED BY <2>1, <2>3 DEF RegistryInv, FeeMatchesLane, FreeLaneFirst, NewBaseLane
<1>4. ASSUME NEW t \in Tx, Execute(t)
      PROVE  RegistryInv'
  <2> DEFINE lanes == {registry[i].match : i \in Holding(t)}
             e == [tx |-> t, fee |-> FeeOf(t), lanes |-> lanes]
  <2>1. /\ built /\ UNCHANGED <<registry, built>> /\ pools' = Removed(t)
        /\ executed' = executed \cup {e}
    BY <1>4 DEF Execute
  <2>2. DOMAIN pools' = DOMAIN pools /\ \A i \in DOMAIN pools : pools'[i] \subseteq pools[i]
    BY <2>1 DEF Removed
  <2>3. \A i \in DOMAIN pools' : \A u \in pools'[i] : Placed(i, u)'
    <3>1. \A i, u : Placed(i, u)' <=> Placed(i, u)
      BY <2>1 DEF Placed, FreeLaneFirst
    <3> QED BY <2>2, <3>1 DEF RegistryInv
  <2>4. FeeMatchesLane'
    <3> SUFFICES ASSUME FreeLaneFirst', NEW x \in executed', x.lanes # {}
                 PROVE  x.fee = IF x.lanes = {"free"} THEN 0 ELSE Fee[x.tx]
      BY DEF FeeMatchesLane
    <3>1. FreeLaneFirst
      BY <2>1 DEF FreeLaneFirst
    <3>2. CASE x \in executed
      BY <3>1, <3>2 DEF RegistryInv, FeeMatchesLane
    <3>3. CASE x = e
      <4>1. e.lanes = lanes /\ e.fee = FeeOf(t) /\ e.tx = t
        OBVIOUS
      <4>2. lanes # {}
        BY <3>3, <4>1
      <4>3. FeeOf(t) = IF lanes = {"free"} THEN 0 ELSE Fee[t]
        BY <2>1, <3>1, <4>2, FeePlaced
      <4> HIDE DEF e, lanes
      <4> QED BY <3>3, <4>1, <4>3
    <3> QED BY <2>1, <3>2, <3>3
  <2> QED BY <2>1, <2>2, <2>3, <2>4 DEF RegistryInv, NewBaseLane
<1>5. CASE UNCHANGED vars
  <2>1. \A i, u : Placed(i, u)' <=> Placed(i, u)
    BY <1>5 DEF vars, Placed, FreeLaneFirst
  <2>2. FeeMatchesLane'
    BY <1>5 DEF vars, RegistryInv, FeeMatchesLane, FreeLaneFirst
  <2> QED BY <1>5, <2>1, <2>2 DEF vars, RegistryInv, NewBaseLane
<1> QED BY <1>1, <1>2, <1>3, <1>4, <1>5 DEF Next

\* A transaction with a bid among its messages is held by the auction lane or by none,
\* in every registry that ValidateBasic accepts.
THEOREM BidsOnlyInMEVLaneThm == Spec => []BidsOnlyInMEVLane
<1>1. RegistryInv => BidsOnlyInMEVLane
  BY DEF RegistryInv, Placed, BidsOnlyInMEVLane
<1> QED BY <1>1, InitRegistryInv, NextRegistryInv, PTL DEF Spec

\* In every registry whose free lane is not hidden behind a lane that takes all, what
\* executes from the free lane pays nothing and everything else its fee.
THEOREM FeeMatchesLaneThm == Spec => []FeeMatchesLane
<1>1. RegistryInv => FeeMatchesLane
  BY DEF RegistryInv
<1> QED BY <1>1, InitRegistryInv, NextRegistryInv, PTL DEF Spec
=============================================================================
