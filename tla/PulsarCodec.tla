----------------------------- MODULE PulsarCodec -----------------------------
(***************************************************************************)
(* The codecs of the API module (api/sdk/auction/v1/*.pulsar.go), which    *)
(* clients import and with which the SDK reads the signers of a message.   *)
(* A message that is a field is a pointer, numbers are text, and a field   *)
(* that is unknown is kept and written back behind the others.             *)
(***************************************************************************)
EXTENDS Wire

CONSTANT Merges  \* the protobuf runtime reads a message into the one there is (external)

\* A pointer to a message is allocated before the bytes are read into the message.
DecodePointer(x, name, f, zero, Decode(_, _)) ==
  DecodeField(IF x[name] = Nil \/ ~Merges THEN [x EXCEPT ![name] = zero] ELSE x, name, f, Decode)

\* The fields that were skipped are kept.
KeepUnknown(r) == [r EXCEPT !.msg.unknown = @ \o r.unknown]

OptionalSize(m, Size(_)) == IF m = Nil THEN 0 ELSE DelimitedSize(Size(m))

-----------------------------------------------------------------------------
(* cosmos.base.v1beta1.Coin (external) *)

ZeroCoin == [Denom |-> <<>>, Amount |-> <<>>, unknown |-> <<>>]

CoinMarshal(c) ==
  Optional(c.Denom # <<>>, Delimited(1, c.Denom))
    \o Optional(c.Amount # <<>>, Delimited(2, c.Amount)) \o c.unknown

CoinSize(c) == WireLen(CoinMarshal(c))

CoinUnmarshal(c, w) ==
  LET field(x, f) == CASE f.num = 1 -> SetField(x, "Denom", f, BYTES, f.val)
                       [] f.num = 2 -> SetField(x, "Amount", f, BYTES, f.val)
  IN  KeepUnknown(Unmarshal(c, w, 1 .. 2, field))

-----------------------------------------------------------------------------
(* MsgAuctionBid *)

ZeroMsgAuctionBid == [Bidder |-> <<>>, Bid |-> Nil, Transactions |-> <<>>, unknown |-> <<>>]

\* Mutant: the unknown fields are not written back.
MsgAuctionBidMarshalKnown(m) ==
  Optional(m.Bidder # <<>>, Delimited(1, m.Bidder))
    \o (IF m.Bid = Nil THEN <<>> ELSE <<Embedded(2, CoinMarshal(m.Bid))>>)
    \o [i \in DOMAIN m.Transactions |-> Delimited(3, m.Transactions[i])]

MsgAuctionBidMarshal(m) ==
  Optional(m.Bidder # <<>>, Delimited(1, m.Bidder))
    \o (IF m.Bid = Nil THEN <<>> ELSE <<Embedded(2, CoinMarshal(m.Bid))>>)
    \o [i \in DOMAIN m.Transactions |-> Delimited(3, m.Transactions[i])]
    \o m.unknown

MsgAuctionBidSize(m) ==
  (IF m.Bidder = <<>> THEN 0 ELSE DelimitedSize(Len(m.Bidder)))
    + OptionalSize(m.Bid, CoinSize)
    + FoldLeft(LAMBDA n, t : n + DelimitedSize(Len(t)), 0, m.Transactions)
    + WireLen(m.unknown)

\* Mutant: the first bidder is kept, and later ones are ignored.
MsgAuctionBidUnmarshalFirst(w) ==
  LET field(x, f) ==
        CASE f.num = 1 -> SetField(x, "Bidder", f, BYTES, IF x.Bidder = <<>> THEN f.val ELSE x.Bidder)
          [] f.num = 2 -> DecodePointer(x, "Bid", f, ZeroCoin, CoinUnmarshal)
          [] f.num = 3 -> AppendField(x, "Transactions", f)
  IN  KeepUnknown(Unmarshal(ZeroMsgAuctionBid, w, 1 .. 3, field))

MsgAuctionBidUnmarshal(w) ==
  LET field(x, f) == CASE f.num = 1 -> SetField(x, "Bidder", f, BYTES, f.val)
                       [] f.num = 2 -> DecodePointer(x, "Bid", f, ZeroCoin, CoinUnmarshal)
                       [] f.num = 3 -> AppendField(x, "Transactions", f)
  IN  KeepUnknown(Unmarshal(ZeroMsgAuctionBid, w, 1 .. 3, field))

-----------------------------------------------------------------------------
(* Params *)

ZeroParams ==
  [MaxBundleSize |-> 0, EscrowAccountAddress |-> Nil, ReserveFee |-> Nil, MinBidIncrement |-> Nil,
   FrontRunningProtection |-> FALSE, ProposerFee |-> <<>>, unknown |-> <<>>]

ParamsMarshal(p) ==
  Optional(p.MaxBundleSize # 0, Varint(1, p.MaxBundleSize))
    \o Optional(ByteLen(p.EscrowAccountAddress) > 0, Delimited(2, p.EscrowAccountAddress))
    \o (IF p.ReserveFee = Nil THEN <<>> ELSE <<Embedded(3, CoinMarshal(p.ReserveFee))>>)
    \o (IF p.MinBidIncrement = Nil THEN <<>> ELSE <<Embedded(4, CoinMarshal(p.MinBidIncrement))>>)
    \o Optional(p.FrontRunningProtection, Varint(5, 1))
    \o Optional(p.ProposerFee # <<>>, Delimited(6, p.ProposerFee))
    \o p.unknown

ParamsSize(p) ==
  (IF p.MaxBundleSize = 0 THEN 0 ELSE 1 + sov[p.MaxBundleSize])
    + (IF ByteLen(p.EscrowAccountAddress) = 0 THEN 0
       ELSE DelimitedSize(Len(p.EscrowAccountAddress)))
    + OptionalSize(p.ReserveFee, CoinSize)
    + OptionalSize(p.MinBidIncrement, CoinSize)
    + (IF p.FrontRunningProtection THEN 2 ELSE 0)
    + (IF p.ProposerFee = <<>> THEN 0 ELSE DelimitedSize(Len(p.ProposerFee)))
    + WireLen(p.unknown)

ParamsUnmarshal(p, w) ==
  LET field(x, f) ==
        CASE f.num = 1 -> SetField(x, "MaxBundleSize", f, VARINT, f.val % Uint32)
          [] f.num = 2 -> SetField(x, "EscrowAccountAddress", f, BYTES, f.val)
          [] f.num = 3 -> DecodePointer(x, "ReserveFee", f, ZeroCoin, CoinUnmarshal)
          [] f.num = 4 -> DecodePointer(x, "MinBidIncrement", f, ZeroCoin, CoinUnmarshal)
          [] f.num = 5 -> SetField(x, "FrontRunningProtection", f, VARINT, f.val # 0)
          [] f.num = 6 -> SetField(x, "ProposerFee", f, BYTES, f.val)
  IN  KeepUnknown(Unmarshal(p, w, 1 .. 6, field))

-----------------------------------------------------------------------------
(* The messages that carry the parameters *)

MsgUpdateParamsMarshal(m) ==
  Optional(m.Authority # <<>>, Delimited(1, m.Authority))
    \o (IF m.Params = Nil THEN <<>> ELSE <<Embedded(2, ParamsMarshal(m.Params))>>)
    \o m.unknown

MsgUpdateParamsSize(m) ==
  (IF m.Authority = <<>> THEN 0 ELSE DelimitedSize(Len(m.Authority)))
    + OptionalSize(m.Params, ParamsSize) + WireLen(m.unknown)

MsgUpdateParamsUnmarshal(w) ==
  LET field(x, f) == CASE f.num = 1 -> SetField(x, "Authority", f, BYTES, f.val)
                       [] f.num = 2 -> DecodePointer(x, "Params", f, ZeroParams, ParamsUnmarshal)
  IN  KeepUnknown(Unmarshal([Authority |-> <<>>, Params |-> Nil, unknown |-> <<>>], w, 1 .. 2, field))

\* The response has no field 2 here, although the server writes one.
QueryParamsResponseUnmarshal(w) ==
  LET field(x, f) == DecodePointer(x, "Params", f, ZeroParams, ParamsUnmarshal)
  IN  KeepUnknown(Unmarshal([Params |-> Nil, unknown |-> <<>>], w, {1}, field))

QueryParamsResponseMarshal(r) ==
  (IF r.Params = Nil THEN <<>> ELSE <<Embedded(1, ParamsMarshal(r.Params))>>) \o r.unknown

QueryParamsResponseSize(r) == OptionalSize(r.Params, ParamsSize) + WireLen(r.unknown)

GenesisStateMarshal(gs) ==
  (IF gs.Params = Nil THEN <<>> ELSE <<Embedded(1, ParamsMarshal(gs.Params))>>) \o gs.unknown

GenesisStateSize(gs) == OptionalSize(gs.Params, ParamsSize) + WireLen(gs.unknown)

GenesisStateUnmarshal(w) ==
  LET field(x, f) == DecodePointer(x, "Params", f, ZeroParams, ParamsUnmarshal)
  IN  KeepUnknown(Unmarshal([Params |-> Nil, unknown |-> <<>>], w, {1}, field))

-----------------------------------------------------------------------------
(* The messages without a field: whatever is read is unknown, and kept *)

EmptyUnmarshal(w) ==
  KeepUnknown(Unmarshal([unknown |-> <<>>], w, {}, LAMBDA x, f : [ok |-> FALSE, msg |-> x]))

MsgAuctionBidResponseMarshal(m) == m.unknown
MsgAuctionBidResponseSize(m) == WireLen(m.unknown)
MsgAuctionBidResponseUnmarshal(w) == EmptyUnmarshal(w)

MsgUpdateParamsResponseMarshal(m) == m.unknown
MsgUpdateParamsResponseSize(m) == WireLen(m.unknown)
MsgUpdateParamsResponseUnmarshal(w) == EmptyUnmarshal(w)

QueryParamsRequestMarshal(m) == m.unknown
QueryParamsRequestSize(m) == WireLen(m.unknown)
QueryParamsRequestUnmarshal(w) == EmptyUnmarshal(w)
=============================================================================
