-------------------------- MODULE MCProposalHandler --------------------------
(***************************************************************************)
(* Instances of the proposal handlers for TLC: an auction lane, a free     *)
(* lane and a default lane, over thirteen transactions whose senders meet in *)
(* several lanes.                                                          *)
(*                                                                         *)
(*   1, 2  bids; 2 bundles the same transaction twice                      *)
(*   3, 4  consecutive transactions of an account, the first one bundled   *)
(*         by bid 1                                                        *)
(*   5, 6  a free transaction and the same account's next one, not free    *)
(*   7     too large for a limited lane                                    *)
(*   8     one that has signers but is no FeeTx, so that GetTxInfo fails   *)
(*   9-11  in proposals from elsewhere: undecodable; of no lane; refused   *)
(*         by the ante handler                                             *)
(*   12    a bid whose bundle exceeds the auction lane's share             *)
(*   13    a bid that bundles bid 1                                        *)
(***************************************************************************)
EXTENDS ProposalHandler

CONSTANTS MaxForeign   \* length of the longest proposal from elsewhere

MCTx == 1 .. 13
MCSender   == <<"b", "c", "s", "s", "f", "f", "g", "h", "h", "h", "h", "d", "e">>
MCNonce    == <<0, 0, 0, 1, 0, 1, 0, 0, 0, 0, 0, 0, 0>>
MCSize     == <<1, 1, 2, 2, 1, 2, 5, 1, 1, 1, 1, 1, 1>>
MCGas      == <<1, 1, 2, 1, 1, 1, 5, 1, 1, 1, 1, 1, 1>>
MCBundle   == (1 :> <<3>>) @@ (2 :> <<5, 5>>) @@ (12 :> <<7>>) @@ (13 :> <<1>>)
MCAccounts == {"b", "c", "d", "e", "s", "f", "g", "h"}
MCStartCtx == [a \in MCAccounts |-> 0]
MCInvalid == {11}
MCMalformed == {8}
MCUndecodable == {9}

\* base.DefaultTxPriority is constant; only bids are ranked.
FlatPriority == <<2, 1, 0, 0, 0, 0, 0, 0, 0, 0, 0, 3, 2>>
\* A lane ordered by fee: 4 pays more than 6, 3 less.
FeePriority == <<2, 1, 1, 3, 1, 2, 0, 0, 0, 0, 0, 3, 2>>

MCLanes == <<"mev", "free", "default">>
MCMatch == [mev |-> {1, 2, 12, 13}, free |-> {5}, default |-> MCTx \ {10}]
MCMaxBlockSpace == [mev |-> 40, free |-> 20, default |-> 0]

\* The unlimited lane in front, which ValidateBasic allows.
UnlimitedFirst == <<"default", "mev">>
UnlimitedFirstMatch == [mev |-> {1, 2, 12, 13}, default |-> MCTx \ {1, 2, 10, 12, 13}]
UnlimitedFirstSpace == [mev |-> 40, default |-> 0]

MCPooled == 1 .. 8 \cup {12, 13}
FewPooled == {1, 5, 6, 7}
NoMaxBytes == -1

MCForeign == BoundedSeq(MCTx, MaxForeign)
NoForeign == {<<>>}
=============================================================================
