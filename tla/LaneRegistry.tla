---------------------------- MODULE LaneRegistry ----------------------------
(***************************************************************************)
(* Which lane a transaction belongs to, and what follows from it.  An      *)
(* application makes its lanes (block/base/lane.go), registers them in an  *)
(* order (block/mempool.go), exempts the transactions of the free lane     *)
(* from the fee (block/ante.go), and has the auction's decorator behind    *)
(* it (x/auction/ante/ante.go).  The lanes' match handlers are asked at    *)
(* each of these places, and when a transaction is inserted, every time    *)
(* anew; nothing but the order of the registry keeps the answers together. *)
(*                                                                         *)
(* Lanes hold sets of transactions here; LaneMempool orders them, and      *)
(* CheckTx follows sequence numbers and rechecks.                          *)
(***************************************************************************)
EXTENDS Integers, FiniteSetsExt, SequencesExt

CONSTANTS
  Tx,           \* transactions
  Msgs,         \* transaction -> the kinds of its messages
  Readable,     \* bids with a bidder's address and a bundle that can be decoded
  ValidBids,    \* bids that the auction keeper and the ante handler accept
  Payer,        \* transaction -> the account that pays its fee
  Fee,          \* transaction -> its fee
  Funds,        \* account -> what it has at first
  LaneChoices,  \* the lanes an application may make
  One,          \* the whole block's space
  MaxLanes      \* how many lanes are registered at most

\* Messages of the staking module that the free lane is for.
Staking == {"delegate", "redelegate", "cancelUnbonding"}

ASSUME LaneRegistryAssumptions ==
  /\ \A t \in Tx : Msgs[t] \in Seq(Staking \cup {"bid", "other"})
  /\ \A lane \in LaneChoices : lane.match \in {"mev", "free", "all", "rest"}
  /\ One \in Nat /\ MaxLanes \in Nat

VARIABLES
  registry,  \* the lanes, in order
  built,     \* the mempool was made
  pools,     \* lane, by its place in the registry -> the transactions it holds
  funds,     \* the accounts in the state of the last block
  check,     \* the accounts in the state that CheckTx works on
  executed   \* what was executed: the transaction, the fee paid, the lanes that held it

vars == <<registry, built, pools, funds, check, executed>>

Init ==
  /\ registry = <<>> /\ built = FALSE /\ pools = <<>>
  /\ funds = Funds /\ check = Funds
  /\ executed = {}

-----------------------------------------------------------------------------
(* Match handlers *)

\* Mutant: a transaction is a bid if its first message is one.
GetMsgAuctionBidFromTxFirst(t) == IF Msgs[t] # <<>> /\ Msgs[t][1] = "bid" THEN "bid" ELSE "none"

\* A bid is the only message of its transaction.
GetMsgAuctionBidFromTx(t) ==
  LET bids == {i \in DOMAIN Msgs[t] : Msgs[t][i] = "bid"}
  IN  CASE bids = {} -> "none"
        [] Cardinality(bids) = 1 /\ Len(Msgs[t]) = 1 -> "bid"
        [] OTHER -> "error"

GetAuctionBidInfo(t) ==
  IF GetMsgAuctionBidFromTx(t) = "bid" /\ t \notin Readable THEN "error"
  ELSE GetMsgAuctionBidFromTx(t)

MEVMatchHandler(t) == GetAuctionBidInfo(t) = "bid"

\* One staking message among others is enough.
FreeMatchHandler(t) == \E i \in DOMAIN Msgs[t] : Msgs[t][i] \in Staking

\* Mutant: nothing is ignored.
NewMatchHandlerAll(mh, ignored, t) == mh

\* A handler's answer, unless a handler that is ignored matches.
NewMatchHandler(mh, ignored, t) == ~ignored /\ mh

\* Match.  A default lane accepts everything, or what the other lanes do not match.
Match(lane, t) ==
  CASE lane.match = "mev" -> MEVMatchHandler(t)
    [] lane.match = "free" -> FreeMatchHandler(t)
    [] lane.match = "all" -> TRUE
    [] lane.match = "rest" -> NewMatchHandler(TRUE, MEVMatchHandler(t) \/ FreeMatchHandler(t), t)

-----------------------------------------------------------------------------
(* The registry *)

\* NewBaseLane, with the handlers it is given.
NewBaseLane(lane) == lane.name # <<>> /\ lane.space \in 0 .. One

TotalSpace == FoldLeft(LAMBDA n, lane : n + lane.space, 0, registry)

Unlimited == {i \in DOMAIN registry : registry[i].space = 0}

\* Mutant: two lanes may have the same name.
NamesDistinctLax == TRUE

NamesDistinct == \A i, j \in DOMAIN registry : registry[i].name = registry[j].name => i = j

\* ValidateBasic: names are not repeated, one lane at most is unlimited, and the block's
\* space is given away, to the last part unless a lane is unlimited.
ValidateBasic ==
  /\ registry # <<>>
  /\ NamesDistinct
  /\ Cardinality(Unlimited) <= 1
  /\ TotalSpace <= One
  /\ TotalSpace < One => Unlimited # {}

MakeLane(lane) ==
  /\ ~built /\ Len(registry) < MaxLanes
  /\ NewBaseLane(lane)
  /\ registry' = Append(registry, lane)
  /\ UNCHANGED <<built, pools, funds, check, executed>>

NewLanedMempool ==
  /\ ~built /\ ValidateBasic
  /\ built' = TRUE
  /\ pools' = [i \in DOMAIN registry |-> {}]
  /\ UNCHANGED <<registry, funds, check, executed>>

-----------------------------------------------------------------------------
(* The laned mempool *)

\* The first lane that matches, if there is one.
FirstMatch(t) ==
  {i \in DOMAIN registry : Match(registry[i], t) /\ \A j \in 1 .. i - 1 : ~Match(registry[j], t)}

Holding(t) == {i \in DOMAIN pools : t \in pools[i]}

Inserted(places, t) == [i \in DOMAIN pools |-> pools[i] \cup (IF i \in places THEN {t} ELSE {})]

\* Remove takes it from the first lane that contains it.
Removed(t) ==
  [i \in DOMAIN pools |-> IF i \in Holding(t) /\ \A j \in Holding(t) : i <= j
                          THEN pools[i] \ {t} ELSE pools[i]]

CountTx == FoldLeft(LAMBDA n, pool : n + Cardinality(pool), 0, pools)

\* GetTxDistribution: a map, in which a name's last lane counts.
GetTxDistribution ==
  [n \in {registry[i].name : i \in DOMAIN registry} |->
     Cardinality(pools[Max({i \in DOMAIN registry : registry[i].name = n})])]

-----------------------------------------------------------------------------
(* The ante handler *)

\* IgnoreDecorator around the SDK's fee decorator: whoever matches the free lane pays
\* nothing, whichever lane holds the transaction.
FeeOf(t) == IF FreeMatchHandler(t) THEN 0 ELSE Fee[t]

AuctionDecorator(t) ==
  /\ GetAuctionBidInfo(t) # "error"
  /\ GetAuctionBidInfo(t) = "bid" => t \in ValidBids

AnteHandle(state, t) == state[Payer[t]] >= FeeOf(t) /\ AuctionDecorator(t)

Charged(state, t) == [state EXCEPT ![Payer[t]] = @ - FeeOf(t)]

-----------------------------------------------------------------------------
(* CheckTx: a bid goes to the MEV lane and leaves the check state alone, and  *)
(* a transaction that may be one is refused; any other is checked by the base *)
(* application, which inserts it into the mempool.                            *)

MEVLanes == {i \in DOMAIN registry : registry[i].match = "mev"}

MEVCheckTxRefuses(t) == GetAuctionBidInfo(t) = "error"

CheckTx(t) ==
  /\ built /\ Holding(t) = {}
  /\ IF GetAuctionBidInfo(t) = "bid"
     THEN /\ t \in ValidBids /\ funds[Payer[t]] >= FeeOf(t)
          /\ pools' = Inserted(MEVLanes, t)
          /\ UNCHANGED check
     ELSE /\ ~MEVCheckTxRefuses(t)
          /\ AnteHandle(check, t)
          /\ pools' = Inserted(FirstMatch(t), t)
          /\ check' = Charged(check, t)
  /\ UNCHANGED <<registry, built, funds, executed>>

\* A block with the transaction is executed and committed, whoever proposed it.
Execute(t) ==
  /\ built /\ \A e \in executed : e.tx # t
  /\ AnteHandle(funds, t)
  /\ executed' = executed \cup
       {[tx |-> t, fee |-> FeeOf(t),
         lanes |-> {registry[i].match : i \in Holding(t)}]}
  /\ funds' = Charged(funds, t)
  /\ check' = funds'
  /\ pools' = Removed(t)
  /\ UNCHANGED <<registry, built>>

-----------------------------------------------------------------------------

Next ==
  \/ \E lane \in LaneChoices : MakeLane(lane)
  \/ NewLanedMempool
  \/ \E t \in Tx : CheckTx(t)
  \/ \E t \in Tx : Execute(t)

Spec == Init /\ [][Next]_vars

-----------------------------------------------------------------------------
(* Properties *)

\* The registry leaves the free lane what it matches: no lane in front of it accepts
\* everything.
FreeLaneFirst ==
  \E i \in DOMAIN registry :
    registry[i].match = "free" /\ \A j \in 1 .. i - 1 : registry[j].match # "all"

\* Given such a registry, a transaction that executed from the free lane paid nothing,
\* and one from any other lane its fee.  Exemption asks the match handler and not the
\* mempool (block/ante.go:30), so this needs the order or the ignore list of
\* base/match.go:32.
FeeMatchesLane ==
  FreeLaneFirst =>
    \A e \in executed : e.lanes # {} => e.fee = IF e.lanes = {"free"} THEN 0 ELSE Fee[e.tx]

\* A transaction with a bid among its messages is in the MEV lane or nowhere, although
\* the default and the free lane match it if its bid cannot be read or is not alone:
\* CheckTx and the decorator must both refuse it.
BidsOnlyInMEVLane ==
  \A i \in DOMAIN pools : \A t \in pools[i] :
    "bid" \in ToSet(Msgs[t]) => registry[i].match = "mev"
=============================================================================
