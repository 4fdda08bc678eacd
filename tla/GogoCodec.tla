------------------------------ MODULE GogoCodec ------------------------------
(***************************************************************************)
(* The codecs the application uses (x/auction/types/*.pb.go).  A message   *)
(* that is a field is a part of its owner: it is always written, even if   *)
(* it is empty, and a field that is unknown is lost.                       *)
(***************************************************************************)
EXTENDS Wire

-----------------------------------------------------------------------------
(* sdk.Coin (external) *)

ZeroCoin == [Denom |-> <<>>, Amount |-> Nil]

CoinMarshal(c) ==
  Optional(c.Denom # <<>>, Delimited(1, c.Denom)) \o <<Delimited(2, IntText(c.Amount))>>

CoinSize(c) ==
  (IF c.Denom = <<>> THEN 0 ELSE DelimitedSize(Len(c.Denom)))
    + DelimitedSize(Len(IntText(c.Amount)))

CoinUnmarshal(c, w) ==
  LET field(x, f) == CASE f.num = 1 -> SetField(x, "Denom", f, BYTES, f.val)
                       [] f.num = 2 -> DecodeField(x, "Amount", f, IntUnmarshal)
  IN  Unmarshal(c, w, 1 .. 2, field)

-----------------------------------------------------------------------------
(* MsgAuctionBid *)

ZeroMsgAuctionBid == [Bidder |-> <<>>, Bid |-> ZeroCoin, Transactions |-> <<>>]

MsgAuctionBidMarshal(m) ==
  Optional(m.Bidder # <<>>, Delimited(1, m.Bidder))
    \o <<Embedded(2, CoinMarshal(m.Bid))>>
    \o [i \in DOMAIN m.Transactions |-> Delimited(3, m.Transactions[i])]

MsgAuctionBidSize(m) ==
  (IF m.Bidder = <<>> THEN 0 ELSE DelimitedSize(Len(m.Bidder)))
    + DelimitedSize(CoinSize(m.Bid))
    + FoldLeft(LAMBDA n, t : n + DelimitedSize(Len(t)), 0, m.Transactions)

MsgAuctionBidUnmarshal(w) ==
  LET field(x, f) == CASE f.num = 1 -> SetField(x, "Bidder", f, BYTES, f.val)
                       [] f.num = 2 -> DecodeField(x, "Bid", f, CoinUnmarshal)
                       [] f.num = 3 -> AppendField(x, "Transactions", f)
  IN  Unmarshal(ZeroMsgAuctionBid, w, 1 .. 3, field)

-----------------------------------------------------------------------------
(* Params *)

ZeroParams ==
  [MaxBundleSize |-> 0, EscrowAccountAddress |-> Nil, ReserveFee |-> ZeroCoin,
   MinBidIncrement |-> ZeroCoin, FrontRunningProtection |-> FALSE, ProposerFee |-> Nil]

\* Mutant: a message that is empty is not written, as in a message of pointers.
ParamsMarshalSparse(p) ==
  Optional(p.MaxBundleSize # 0, Varint(1, p.MaxBundleSize))
    \o Optional(ByteLen(p.EscrowAccountAddress) > 0, Delimited(2, p.EscrowAccountAddress))
    \o Optional(p.ReserveFee # ZeroCoin, Embedded(3, CoinMarshal(p.ReserveFee)))
    \o Optional(p.MinBidIncrement # ZeroCoin, Embedded(4, CoinMarshal(p.MinBidIncrement)))
    \o Optional(p.FrontRunningProtection, Varint(5, 1))
    \o Optional(p.ProposerFee # Nil, Delimited(6, IntText(p.ProposerFee)))

ParamsMarshal(p) ==
  Optional(p.MaxBundleSize # 0, Varint(1, p.MaxBundleSize))
    \o Optional(ByteLen(p.EscrowAccountAddress) > 0, Delimited(2, p.EscrowAccountAddress))
    \o <<Embedded(3, CoinMarshal(p.ReserveFee)), Embedded(4, CoinMarshal(p.MinBidIncrement))>>
    \o Optional(p.FrontRunningProtection, Varint(5, 1))
    \o <<Delimited(6, IntText(p.ProposerFee))>>

\* Mutant: the length of a coin is taken for its field's size.
ParamsSizeShort(p) ==
  (IF p.MaxBundleSize = 0 THEN 0 ELSE 1 + sov[p.MaxBundleSize])
    + (IF ByteLen(p.EscrowAccountAddress) = 0 THEN 0
       ELSE DelimitedSize(Len(p.EscrowAccountAddress)))
    + 2 + CoinSize(p.ReserveFee) + DelimitedSize(CoinSize(p.MinBidIncrement))
    + (IF p.FrontRunningProtection THEN 2 ELSE 0)
    + DelimitedSize(Len(IntText(p.ProposerFee)))

ParamsSize(p) ==
  (IF p.MaxBundleSize = 0 THEN 0 ELSE 1 + sov[p.MaxBundleSize])
    + (IF ByteLen(p.EscrowAccountAddress) = 0 THEN 0
       ELSE DelimitedSize(Len(p.EscrowAccountAddress)))
    + DelimitedSize(CoinSize(p.ReserveFee))
    + DelimitedSize(CoinSize(p.MinBidIncrement))
    + (IF p.FrontRunningProtection THEN 2 ELSE 0)
    + DelimitedSize(Len(IntText(p.ProposerFee)))

\* An escrow address that is there and empty is decoded as empty, not as nil.
ParamsUnmarshal(p, w) ==
  LET field(x, f) ==
        CASE f.num = 1 -> SetField(x, "MaxBundleSize", f, VARINT, f.val % Uint32)
          [] f.num = 2 -> SetField(x, "EscrowAccountAddress", f, BYTES, f.val)
          [] f.num = 3 -> DecodeField(x, "ReserveFee", f, CoinUnmarshal)
          [] f.num = 4 -> DecodeField(x, "MinBidIncrement", f, CoinUnmarshal)
          [] f.num = 5 -> SetField(x, "FrontRunningProtection", f, VARINT, f.val # 0)
          [] f.num = 6 -> DecodeField(x, "ProposerFee", f, IntUnmarshal)
  IN  Unmarshal(p, w, 1 .. 6, field)

-----------------------------------------------------------------------------
(* The messages that carry the parameters *)

MsgUpdateParamsMarshal(m) ==
  Optional(m.Authority # <<>>, Delimited(1, m.Authority)) \o <<Embedded(2, ParamsMarshal(m.Params))>>

MsgUpdateParamsSize(m) ==
  (IF m.Authority = <<>> THEN 0 ELSE DelimitedSize(Len(m.Authority)))
    + DelimitedSize(ParamsSize(m.Params))

MsgUpdateParamsUnmarshal(w) ==
  LET field(x, f) == CASE f.num = 1 -> SetField(x, "Authority", f, BYTES, f.val)
                       [] f.num = 2 -> DecodeField(x, "Params", f, ParamsUnmarshal)
  IN  Unmarshal([Authority |-> <<>>, Params |-> ZeroParams], w, 1 .. 2, field)

GenesisStateMarshal(gs) == <<Embedded(1, ParamsMarshal(gs.Params))>>

GenesisStateSize(gs) == DelimitedSize(ParamsSize(gs.Params))

GenesisStateUnmarshal(w) ==
  LET field(x, f) == DecodeField(x, "Params", f, ParamsUnmarshal)
  IN  Unmarshal([Params |-> ZeroParams], w, {1}, field)

\* Mutant: the parameters are written under the number of the string.
QueryParamsResponseMarshalSwapped(r) ==
  Optional(r.EscrowAddressString # <<>>, Delimited(2, r.EscrowAddressString))
    \o <<Embedded(2, ParamsMarshal(r.Params))>>

QueryParamsResponseMarshal(r) ==
  <<Embedded(1, ParamsMarshal(r.Params))>>
    \o Optional(r.EscrowAddressString # <<>>, Delimited(2, r.EscrowAddressString))

QueryParamsResponseSize(r) ==
  DelimitedSize(ParamsSize(r.Params))
    + (IF r.EscrowAddressString = <<>> THEN 0 ELSE DelimitedSize(Len(r.EscrowAddressString)))

QueryParamsResponseUnmarshal(w) ==
  LET field(x, f) == CASE f.num = 1 -> DecodeField(x, "Params", f, ParamsUnmarshal)
                       [] f.num = 2 -> SetField(x, "EscrowAddressString", f, BYTES, f.val)
  IN  Unmarshal([Params |-> ZeroParams, EscrowAddressString |-> <<>>], w, 1 .. 2, field)

-----------------------------------------------------------------------------
(* The messages without a field: whatever is read is skipped *)

EmptyUnmarshal(w) == Unmarshal(<<>>, w, {}, LAMBDA x, f : [ok |-> FALSE, msg |-> x])

MsgAuctionBidResponseMarshal(m) == <<>>
MsgAuctionBidResponseSize(m) == 0
MsgAuctionBidResponseUnmarshal(w) == EmptyUnmarshal(w)

MsgUpdateParamsResponseMarshal(m) == <<>>
MsgUpdateParamsResponseSize(m) == 0
MsgUpdateParamsResponseUnmarshal(w) == EmptyUnmarshal(w)

QueryParamsRequestMarshal(m) == <<>>
QueryParamsRequestSize(m) == 0
QueryParamsRequestUnmarshal(w) == EmptyUnmarshal(w)
=============================================================================
