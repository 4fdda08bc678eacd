------------------------------- MODULE Auction -------------------------------
(***************************************************************************)
(* The x/auction module: what a bid must satisfy (keeper/auction.go), how  *)
(* it is paid and split (ExtractBid and x/auction/rewards), and the        *)
(* parameters (keeper/msg_server.go, types/params.go).                     *)
(*                                                                         *)
(* The ante handler (external) writes the state back only if every         *)
(* decorator succeeds: a bid is paid in full or leaves no trace.  The      *)
(* balances are those of the context it runs on, a checking mode's as well *)
(* as a block's.  Amounts are integers, the proposer's fee is a whole      *)
(* percentage.                                                             *)
(***************************************************************************)
EXTENDS Integers, SequencesExt

CONSTANTS
  Accounts,      \* addresses
  Authority,     \* the account that may change the parameters
  Balances,      \* initial balances, account -> Nat
  Bids,          \* bids: bidder, bid, denom, timeout, signers, timeouts
  TopBids,       \* amounts the decorator may pass as the highest bid
  ParamValues,   \* parameters of genesis and of MsgUpdateParams
  Provider,      \* the rewards address provider: "fixed" or "proposer"
  FixedAddress,  \* address of the fixed provider, in a set; {} is none
  Validators     \* accounts of the validators that may propose

ASSUME AuctionAssumptions ==
  /\ Balances \in [Accounts -> Nat]
  /\ \A b \in Bids :
       /\ b.bidder \in Accounts /\ b.bid \in Nat
       /\ b.signers \in Seq(SUBSET Accounts) /\ b.timeouts \in Seq(Nat)
       /\ Len(b.signers) = Len(b.timeouts)
  /\ FixedAddress = {} \/ \E a \in Accounts : FixedAddress = {a}
  /\ Validators \subseteq Accounts
  /\ \A p \in ParamValues : p.escrow \in Accounts /\ p.proposerFee \in Int

VARIABLES
  balances,     \* the bank
  params,       \* the module's parameters
  prevProposer  \* proposer of the previous block, in a set; {} before the first

vars == <<balances, params, prevProposer>>

\* Params.Validate.  denom is the reserve fee's, incDenom the minimum increment's.
Validate(p) ==
  /\ p.reserveFee >= 0
  /\ p.minBidIncrement > 0
  /\ p.denom = p.incDenom
  /\ p.proposerFee \in 0 .. 100

\* InitGenesis sets the parameters as they are: only the command that checks a
\* genesis file validates them.
Init ==
  /\ balances = Balances
  /\ params \in ParamValues
  /\ prevProposer = {}

-----------------------------------------------------------------------------
(* The bundle *)

\* filterSigners, on a map that only the caller sees or on the one in the bid.
filterSigners(currentSigners, txSigners) == currentSigners \cap txSigners

\* Mutant: whoever follows the first signer may take over, once.
BundleStepLax(bidder, s, txSigners) ==
  LET prev == filterSigners(s.prev, txSigners)
  IN  IF ~s.ok THEN s
      ELSE [ok   |-> prev # {} \/ ~s.seen,
            prev |-> IF prev # {} THEN prev ELSE {bidder},
            seen |-> s.seen \/ prev = {},
            first |-> filterSigners(s.first, txSigners)]

\* One iteration of ValidateAuctionBundle.  prev is the signers all transactions
\* have in common since the first one, or since the bidder took over; first is
\* what is left of the first transaction's signers in the bid itself, which is the
\* same map as prev until the bidder takes over.
BundleStep(bidder, s, txSigners) ==
  LET prev == filterSigners(s.prev, txSigners)
  IN  IF ~s.ok THEN s
      ELSE [ok   |-> prev # {} \/ (~s.seen /\ bidder \in txSigners),
            prev |-> IF prev # {} THEN prev ELSE {bidder},
            seen |-> s.seen \/ prev = {},
            first |-> filterSigners(s.first, txSigners)]

\* The verdict, and what it leaves of the first transaction's signers.
ValidateAuctionBundle(bidder, signers) ==
  IF Len(signers) <= 1
  THEN [ok |-> TRUE, first |-> IF signers = <<>> THEN {} ELSE signers[1]]
  ELSE LET s == FoldLeft(LAMBDA r, tx : BundleStep(bidder, r, tx),
                         [ok |-> TRUE, prev |-> signers[1], first |-> signers[1],
                          seen |-> bidder \in signers[1]],
                         Tail(signers))
       IN  [ok |-> s.ok, first |-> s.first]

\* Mutant: the first transaction's timeout is not looked at.
BundleTimeoutsButFirst(b, signers) ==
  \A i \in 2 .. Len(b.timeouts) : b.bidder \in signers[i] => b.timeouts[i] = b.timeout

\* ValidateBundleTimeouts, on the signers ValidateAuctionBundle has left.
ValidateBundleTimeouts(b, signers) ==
  \A i \in DOMAIN b.timeouts : b.bidder \in signers[i] => b.timeouts[i] = b.timeout

\* The bundle part of ValidateBidInfo.
ValidateBundle(b) ==
  LET bundle == ValidateAuctionBundle(b.bidder, b.signers)
      left == [i \in DOMAIN b.signers |->
                 IF i = 1 /\ params.frontRunningProtection THEN bundle.first ELSE b.signers[i]]
  IN  /\ Len(b.signers) <= params.maxBundleSize
      /\ params.frontRunningProtection => bundle.ok
      /\ ValidateBundleTimeouts(b, left)

-----------------------------------------------------------------------------
(* The payment *)

NoTopBid == 0 - 1

\* ValidateAuctionBid, without the payment.
ValidateAuctionBid(b, top) ==
  /\ b.denom = params.denom
  /\ b.bid >= params.reserveFee
  /\ top # NoTopBid =>
       /\ params.incDenom = b.denom
       /\ b.bid >= top + params.minBidIncrement

\* An operator address is a validator's address with another prefix than an
\* account's; AccAddressFromBech32 (external) accepts the account prefix only.
GetOperator(v) == [prefix |-> "valoper", account |-> v]
AccAddressFromBech32(address) == IF address.prefix = "acc" THEN {address.account} ELSE {}

\* GetRewardsAddress of the two providers; {} is an error.
GetRewardsAddress ==
  IF Provider = "fixed" THEN FixedAddress
  ELSE UNION {AccAddressFromBech32(GetOperator(v)) : v \in prevProposer}

\* The bank's SendCoins (external).
SendCoins(bank, from, to, amount) ==
  LET paid == [bank EXCEPT ![from] = @ - amount] IN [paid EXCEPT ![to] = @ + amount]

\* SendBid: one transfer of the bank, after those that went before.  The coins that
\* ExtractBid computes panic when they are negative, which fails the transaction.
SendBid(run, from, to, amount) ==
  IF run.ok /\ amount >= 0 /\ run.bank[from] >= amount
  THEN [ok |-> TRUE, bank |-> SendCoins(run.bank, from, to, amount)]
  ELSE [ok |-> FALSE, bank |-> run.bank]

\* Mutant: the escrow account gets the whole bid on top of the proposer's part.
EscrowPartWhole(bid) == bid

ProposerPart(bid) == (bid * params.proposerFee) \div 100
EscrowPart(bid) == bid - ProposerPart(bid)

\* ExtractBid: the proposer's part and then the rest; without a rewards address
\* both go to the escrow account.
ExtractBid(bidder, bid) ==
  LET start == [ok |-> TRUE, bank |-> balances]
      to == IF GetRewardsAddress = {} THEN params.escrow ELSE CHOOSE a \in GetRewardsAddress : TRUE
      rewarded == SendBid(start, bidder, to, ProposerPart(bid))
  IN  IF params.proposerFee = 0
      THEN SendBid(start, bidder, params.escrow, bid)
      ELSE SendBid(rewarded, bidder, params.escrow, EscrowPart(bid))

-----------------------------------------------------------------------------
(* A bid's AuctionDecorator succeeds, with a highest bid in the checking modes;
   the message itself does nothing. *)
AuctionBid(b, top) ==
  /\ ValidateAuctionBid(b, top)
  /\ ExtractBid(b.bidder, b.bid).ok
  /\ ValidateBundle(b)
  /\ balances' = ExtractBid(b.bidder, b.bid).bank
  /\ UNCHANGED <<params, prevProposer>>

\* MsgUpdateParams: ValidateBasic comes first, then the signer must be the authority.
UpdateParams(signer, p) ==
  /\ Validate(p)
  /\ signer = Authority
  /\ params' = p
  /\ UNCHANGED <<balances, prevProposer>>

\* The distribution module (external) records who proposed the last block.
NextBlock(v) ==
  /\ prevProposer' = {v}
  /\ UNCHANGED <<balances, params>>

Next ==
  \/ \E b \in Bids, top \in TopBids \cup {NoTopBid} : AuctionBid(b, top)
  \/ \E signer \in Accounts, p \in ParamValues : UpdateParams(signer, p)
  \/ \E v \in Validators : NextBlock(v)

Spec == Init /\ [][Next]_vars

-----------------------------------------------------------------------------
(* Properties *)

\* Who is meant to receive the proposer's part.
Rewarded == IF Provider = "fixed" THEN FixedAddress ELSE prevProposer

\* The gain of account a from a bid, as rewards and escrow account.
Gain(a, b) ==
  (IF a \in Rewarded THEN ProposerPart(b.bid) ELSE 0) +
  (IF a = params.escrow THEN b.bid - (IF Rewarded = {} THEN 0 ELSE ProposerPart(b.bid)) ELSE 0)

\* The bid is accepted and paid in this step.  One that is accepted next to a
\* highest bid is also accepted without.
Paid(b) == balances' # balances /\ AuctionBid(b, NoTopBid)

\* ExtractBid, proposer_provider.go: "provides a portion of auction profits to the
\* block proposer".  An accepted bid costs the bidder the whole bid, of which the
\* rewarded account gets the proposer's fee, rounded down, and the escrow account
\* the rest to the last coin.
BidSplit ==
  [][\A b \in Bids : Paid(b) =>
       \A a \in Accounts :
         balances'[a] = balances[a] + Gain(a, b) - (IF a = b.bidder THEN b.bid ELSE 0)]_vars

\* The bundles the comment of ValidateAuctionBundle describes: one signer has signed
\* the transactions up to some point, the bidder all that follow.
OneSignerThenBidder(bidder, signers) ==
  \E n \in 1 .. Len(signers), a \in Accounts :
    \A i \in DOMAIN signers : IF i <= n THEN a \in signers[i] ELSE bidder \in signers[i]

\* With front-running protection ValidateAuctionBundle accepts such bundles only,
\* and all of them if each transaction has one signer.
BundleMatchesRule ==
  params.frontRunningProtection => \A b \in Bids : Len(b.signers) > 1 =>
    LET ok == ValidateAuctionBundle(b.bidder, b.signers).ok
    IN  /\ ok => OneSignerThenBidder(b.bidder, b.signers)
        /\ (\A i \in DOMAIN b.signers : \E a \in Accounts : b.signers[i] = {a}) =>
             (OneSignerThenBidder(b.bidder, b.signers) => ok)

\* auction.go:181-182: "We consider the timeouts valid iff all of the bidders txs in
\* the bundle are equal to the timeout of the bid."
BidderTimeoutsMatch ==
  [][\A b \in Bids : Paid(b) =>
       \A i \in DOMAIN b.signers : b.bidder \in b.signers[i] => b.timeouts[i] = b.timeout]_vars

\* The first transaction's signers alone reach ValidateBundleTimeouts altered, by
\* filterSigners in the map they share with the bid.  A transaction of the bidder
\* with another timeout gets past it only in first place, under the protection,
\* when another account signed the whole bundle and the bidder did not.
OnlySharedFirstEscapes ==
  [][\A b \in Bids : Paid(b) =>
       \A i \in DOMAIN b.signers : b.bidder \in b.signers[i] /\ b.timeouts[i] # b.timeout =>
         /\ i = 1 /\ params.frontRunningProtection
         /\ \E a \in Accounts \ {b.bidder} : \A j \in DOMAIN b.signers : a \in b.signers[j]
         /\ \E j \in DOMAIN b.signers : b.bidder \notin b.signers[j]]_vars
=============================================================================
