------------------------------ MODULE MCCheckTx ------------------------------
(***************************************************************************)
(* Instances of the CheckTx handlers for TLC.                              *)
(*                                                                         *)
(*   1, 2  bids for height 1; 1 bundles transaction 4                      *)
(*   3     a bid for height 2                                              *)
(*   4, 5  consecutive transactions of one account; 5 asks for more gas    *)
(*         than its lane's share, which CheckTx does not look at           *)
(*   6     a transaction of no lane                                        *)
(*   7     one the decoder fails on                                        *)
(*   8     one with the sender and the sequence number of 4                *)
(*   9     one with the sender and the sequence number of 5, larger than   *)
(*         its lane's share (OneLarge)                                     *)
(***************************************************************************)
EXTENDS CheckTx

MCTx == 1 .. 9
MCNonce    == <<0, 0, 0, 0, 1, 0, 0, 0, 1>>
MCPriority == <<1, 3, 2, 0, 0, 0, 0, 0, 0>>
MCGas      == <<1, 1, 1, 1, 9, 1, 1, 1, 1>>
MCBundle   == <<<<4>>, <<>>, <<>>>>
MCTimeout  == <<1, 1, 2>>
MCMatch    == [mev |-> {1, 2, 3}, default |-> {1, 2, 3, 4, 5, 8, 9}]
MCLanes    == <<"mev", "default">>
MCAccounts == {"x", "y", "z", "s", "u"}
MCInvalid == {}
MCMalformed == {}
MCUndecodable == {7}
MCMaxTxs   == [mev |-> 2, default |-> 0]
MCBlocks   == {<<>>, <<1, 4>>, <<2>>, <<3, 4, 5>>, <<8>>}

\* Each bid has a slot of its own; 9 alone does not fit its lane's share.
OwnSlots   == <<"x", "y", "z", "s", "s", "u", "u", "s", "s">>
OneLarge   == [t \in MCTx |-> IF t = 9 THEN 9 ELSE 1]
SmallSizes == [t \in MCTx |-> 1]
LimitedLanes == [mev |-> 20, default |-> 80]

\* One bidder sends both bids for height 1, with the same sequence number.
OneBidder == <<"x", "x", "z", "s", "s", "u", "u", "s", "s">>

\* The bidder of 2 is also the sender of 4, with the same sequence number.
BidderPays == <<"x", "s", "z", "s", "s", "u", "u", "s", "s">>

\* Transaction 4 as well.
LargeSizes == <<1, 1, 1, 9, 1, 1, 1, 1, 9>>

\* The default lane as base/config.go recommends it, without a limit.
UnlimitedDefault == [mev |-> 20, default |-> 0]
=============================================================================
