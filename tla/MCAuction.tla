------------------------------ MODULE MCAuction ------------------------------
(***************************************************************************)
(* Instances of the auction module for TLC: bids of one bidder, with       *)
(* bundles of up to MaxBundle transactions signed by it and two others.    *)
(***************************************************************************)
EXTENDS Auction

CONSTANTS MaxBundle   \* length of the longest bundle

MCAccounts == {"bidder", "ann", "bob", "escrow", "val"}
MCBalances == [a \in MCAccounts |-> IF a = "bidder" THEN 11 ELSE 0]
MCTopBids == {2}
MCValidators == {"val"}

Bundled(n, S, amounts, ts) ==
  [bidder : {"bidder"}, bid : amounts, denom : {"stake"}, timeout : {5},
   signers : [1 .. n -> S], timeouts : [1 .. n -> ts]]

OneSigner == {{"bidder"}, {"ann"}, {"bob"}}
SomeSigners == OneSigner \cup {{"bidder", "ann"}, {"ann", "bob"}}

\* Pairs of transactions with several signers and any timeouts, longer bundles with
\* the bid's timeout throughout, and a bid in another denomination.
MCBids ==
  Bundled(1, OneSigner, {1, 3, 5}, {5, 6}) \cup Bundled(2, SomeSigners, {3}, {5, 6}) \cup
  UNION {Bundled(n, SomeSigners, {3}, {5}) : n \in 2 .. MaxBundle} \cup
  {[bidder |-> "bidder", bid |-> 7, denom |-> "other", timeout |-> 5,
    signers |-> <<{"bidder"}>>, timeouts |-> <<5>>]}

\* The pairs alone.
CosignedBids == Bundled(2, SomeSigners, {3}, {5, 6})

P(fee, protect, size) ==
  [maxBundleSize |-> size, escrow |-> "escrow", denom |-> "stake", reserveFee |-> 2,
   minBidIncrement |-> 1, incDenom |-> "stake", frontRunningProtection |-> protect, proposerFee |-> fee]

\* The last three would not be validated: two fees, and an increment in another coin.
MCParams ==
  {P(0, TRUE, 3), P(30, TRUE, 3), P(100, FALSE, 2),
   P(110, TRUE, 3), P(0 - 10, TRUE, 3), [P(30, TRUE, 3) EXCEPT !.incDenom = "other"]}
FixedVal == {"val"}
=============================================================================
