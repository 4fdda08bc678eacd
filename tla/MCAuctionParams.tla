--------------------------- MODULE MCAuctionParams ---------------------------
(***************************************************************************)
(* Bytes: 10 and above are no digits.  "stake" is <<10, 11, 12>>, long     *)
(* enough that a coin's length takes two bytes with the base of 8.         *)
(***************************************************************************)
EXTENDS AuctionParams

gov == <<20, 21>>
alice == <<22, 23>>
MCAddresses == {gov, alice}
MCAuthority == gov

coin(n) == [Denom |-> <<10, 11, 12>>, Amount |-> n]

MCDefault ==
  [MaxBundleSize |-> 2, EscrowAccountAddress |-> <<30>>, ReserveFee |-> coin(1),
   MinBidIncrement |-> coin(1), FrontRunningProtection |-> TRUE, ProposerFee |-> 0]

MCGenesisParams ==
  {MCDefault, ZeroParams,
   [MCDefault EXCEPT !.MaxBundleSize = 9, !.ReserveFee = coin(12), !.FrontRunningProtection = FALSE]}

\* A bid: two bidders, a coin as a whole and in halves, two transactions, fields and
\* groups of other numbers, the end of a group, a wrong wire type, an illegal number.
MCBidFields ==
  << Delimited(1, gov), Delimited(1, alice), Varint(1, 3),
     Embedded(2, CoinMarshal(coin(5))), Embedded(2, <<Delimited(2, <<7>>)>>),
     Embedded(2, <<Delimited(2, <<10>>)>>), Embedded(2, <<Bare(7, SGROUP)>>),
     Delimited(3, <<40>>), Delimited(3, <<>>),
     Varint(9, 8), Bare(9, SGROUP), Bare(9, EGROUP), Bare(0, FIXED32), Cut >>

\* An update: the authority and another account, parameters that are valid, parts of
\* parameters, invalid ones, and fields of other numbers.
MCUpdateFields ==
  << Delimited(1, gov), Delimited(1, alice),
     Embedded(2, ParamsMarshal(MCDefault)),
     Embedded(2, <<Varint(1, 18)>>), Embedded(2, <<Delimited(2, <<>>)>>),
     Embedded(2, <<Embedded(4, <<Delimited(2, <<0>>)>>)>>),
     Embedded(2, <<Delimited(6, <<9>>)>>), Embedded(2, <<Varint(5, 0), Varint(9, 1)>>),
     Bare(8, FIXED64), Cut >>
=============================================================================
