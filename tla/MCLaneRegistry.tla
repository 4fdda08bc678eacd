--------------------------- MODULE MCLaneRegistry ---------------------------
EXTENDS MempoolService

\* A bid, a bid whose bundle cannot be read, a bid behind a delegation, a delegation,
\* a delegation next to a transfer, and a transfer.
MCTx == 1 .. 6
MCMsgs ==
  << <<"bid">>, <<"bid">>, <<"delegate", "bid">>, <<"delegate">>,
     <<"other", "cancelUnbonding">>, <<"other">> >>
MCReadable == {1, 3}
MCValidBids == {1, 3}
MCPayer == <<"a", "a", "b", "b", "a", "b">>
MCFee == <<1, 1, 1, 2, 1, 1>>
MCFunds == [a |-> 1, b |-> 1]

lane(n, s, m) == [name |-> n, space |-> s, match |-> m]

\* The last two lanes are refused by NewBaseLane.
MCLaneChoices ==
  {lane(<<1>>, 2, "mev"), lane(<<2>>, 2, "free"), lane(<<3, 3, 3>>, 6, "all"),
   lane(<<3, 3, 3>>, 0, "rest"), lane(<<2>>, 0, "all"),
   lane(<<>>, 6, "rest"), lane(<<4>>, 11, "all")}
=============================================================================
